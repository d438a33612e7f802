----------------------- MODULE FirewallConfirmProofs ------------------------
(***************************************************************************)
(* Proofs about FirewallConfirm for every number of operations, rulesets,  *)
(* deaths and reboots: its types, that unconfirmed rules are guarded, and  *)
(* that a confirm promotes what it names and a rollback record is true.    *)
(***************************************************************************)
EXTENDS FirewallConfirm, TLAPS

(***************************************************************************)
(* Type correctness.                                                       *)
(***************************************************************************)
\* The parts of TypeOK, by what is written together.
FilesOK == /\ durable \in [Family -> Document] /\ pending \in [Family -> Document]
           /\ record \in Document
KernelOK == kernel \in [Family -> Document] /\ provisional \subseteq Family
MarkerOK == marker \in Marker \cup {NoMarker}
TimerOK == timer \in BOOLEAN /\ asked \in BOOLEAN
CountOK == over \subseteq Applies /\ deaths \in 0 .. MaxDeaths /\ reboots \in 0 .. MaxReboots
OpOK == op \in [Ops -> OpState]
GuardOK == guard \in [pc : GuardPc, digest : Document]
ConfirmedOK == confirmed \subseteq Ruleset

\* The type invariant is its parts.
LEMMA TypeParts ==
  /\ TypeOK <=> FilesOK /\ KernelOK /\ MarkerOK /\ TimerOK /\ CountOK /\ OpOK /\ GuardOK
                /\ ConfirmedOK
  /\ TypeOK' <=> FilesOK' /\ KernelOK' /\ MarkerOK' /\ TimerOK' /\ CountOK' /\ OpOK' /\ GuardOK'
                /\ ConfirmedOK'
BY Zenon DEF TypeOK, FilesOK, KernelOK, MarkerOK, TimerOK, CountOK, OpOK, GuardOK, ConfirmedOK

\* A group that an action leaves alone keeps its types.
LEMMA Unchanged ==
  /\ FilesOK /\ UNCHANGED files => FilesOK'
  /\ KernelOK /\ UNCHANGED <<kernel, provisional>> => KernelOK'
  /\ MarkerOK /\ UNCHANGED marker => MarkerOK'
  /\ TimerOK /\ UNCHANGED <<timer, asked>> => TimerOK'
  /\ CountOK /\ UNCHANGED count => CountOK'
  /\ OpOK /\ UNCHANGED op => OpOK'
  /\ GuardOK /\ UNCHANGED guard => GuardOK'
  /\ ConfirmedOK /\ UNCHANGED confirmed => ConfirmedOK'
BY DEF FilesOK, KernelOK, MarkerOK, TimerOK, CountOK, OpOK, GuardOK, ConfirmedOK, files, count

\* The fields of a marker; the absent one names no ruleset.
LEMMA MarkerFields ==
  /\ \A m \in Marker : /\ m.by \in Applies /\ m.digest \in Ruleset
                        /\ m.v6 \in {"keep", "replace", "forget"} /\ m # NoMarker
  /\ \A a \in Applies, d \in Ruleset, v \in {"keep", "replace", "forget"} :
       [by |-> a, digest |-> d, v6 |-> v] \in Marker
  /\ NoMarker.digest = NoRules
<1>1. NoMarker.digest = NoRules
  BY DEF NoMarker
<1>2. \A m \in Marker : /\ m.by \in Applies /\ m.digest \in Ruleset
                         /\ m.v6 \in {"keep", "replace", "forget"}
  BY DEF Marker
<1>3. \A m \in Marker : m # NoMarker
  BY <1>1, <1>2, FirewallAssumption
<1>4. \A a \in Applies, d \in Ruleset, v \in {"keep", "replace", "forget"} :
        [by |-> a, digest |-> d, v6 |-> v] \in Marker
  BY DEF Marker
<1>. QED
  BY <1>1, <1>2, <1>3, <1>4

\* The fields of an operation's state.
LEMMA OpFields ==
  ASSUME OpOK, NEW o \in Ops
  PROVE  /\ op[o] \in OpState /\ op[o].pc \in OpPc /\ op[o].digest \in Document
         /\ op[o].mark \in Marker \cup {NoMarker} /\ op[o].doc \in Document
         /\ op[o].v6 \in {"keep", "replace", "forget"} /\ op[o].answer \in Answer
BY DEF OpOK, OpState

\* An operation moves on, with all else it knows unchanged.
LEMMA GotoOp ==
  ASSUME OpOK, NEW o \in Ops, NEW p, Goto(o, p)
  PROVE  /\ p \in OpPc => OpOK'
         /\ op'[o].pc = p /\ op'[o].digest = op[o].digest /\ op'[o].mark = op[o].mark
         /\ op'[o].doc = op[o].doc /\ op'[o].v6 = op[o].v6 /\ op'[o].answer = op[o].answer
         /\ \A q \in Ops : q # o => op'[q] = op[q]
<1>1. op' = [op EXCEPT ![o] = [op[o] EXCEPT !.pc = p]]
  BY DEF Goto
<1>2. p \in OpPc => [op[o] EXCEPT !.pc = p] \in OpState
  BY OpFields DEF OpState
<1>. QED
  BY <1>1, <1>2, OpFields DEF OpOK, OpState

\* An operation moves on and remembers one thing.
LEMMA DigestOp ==
  ASSUME OpOK, NEW o \in Ops, NEW p, NEW x \in Document,
         op' = [op EXCEPT ![o].pc = p, ![o].digest = x]
  PROVE  /\ p \in OpPc => OpOK'
         /\ op'[o].pc = p /\ op'[o].digest = x
         /\ op'[o].mark = op[o].mark /\ op'[o].doc = op[o].doc
         /\ op'[o].v6 = op[o].v6 /\ op'[o].answer = op[o].answer
         /\ \A q \in Ops : q # o => op'[q] = op[q]
<1>1. op' = [op EXCEPT ![o] = [op[o] EXCEPT !.pc = p, !.digest = x]]
  OBVIOUS
<1>2. p \in OpPc => [op[o] EXCEPT !.pc = p, !.digest = x] \in OpState
  BY OpFields DEF OpState
<1>. QED
  BY <1>1, <1>2, OpFields DEF OpOK, OpState

\* Noting a marker keeps an operation well formed.
LEMMA MarkOp ==
  ASSUME OpOK, NEW o \in Ops, NEW p, NEW x \in Marker \cup {NoMarker},
         op' = [op EXCEPT ![o].pc = p, ![o].mark = x]
  PROVE  /\ p \in OpPc => OpOK'
         /\ op'[o].pc = p /\ op'[o].mark = x
         /\ op'[o].digest = op[o].digest /\ op'[o].doc = op[o].doc
         /\ op'[o].v6 = op[o].v6 /\ op'[o].answer = op[o].answer
         /\ \A q \in Ops : q # o => op'[q] = op[q]
<1>1. op' = [op EXCEPT ![o] = [op[o] EXCEPT !.pc = p, !.mark = x]]
  OBVIOUS
<1>2. p \in OpPc => [op[o] EXCEPT !.pc = p, !.mark = x] \in OpState
  BY OpFields DEF OpState
<1>. QED
  BY <1>1, <1>2, OpFields DEF OpOK, OpState

\* So does reading a document,
LEMMA DocOp ==
  ASSUME OpOK, NEW o \in Ops, NEW p, NEW x \in Document,
         op' = [op EXCEPT ![o].pc = p, ![o].doc = x]
  PROVE  /\ p \in OpPc => OpOK'
         /\ op'[o].pc = p /\ op'[o].doc = x
         /\ op'[o].digest = op[o].digest /\ op'[o].mark = op[o].mark
         /\ op'[o].v6 = op[o].v6 /\ op'[o].answer = op[o].answer
         /\ \A q \in Ops : q # o => op'[q] = op[q]
<1>1. op' = [op EXCEPT ![o] = [op[o] EXCEPT !.pc = p, !.doc = x]]
  OBVIOUS
<1>2. p \in OpPc => [op[o] EXCEPT !.pc = p, !.doc = x] \in OpState
  BY OpFields DEF OpState
<1>. QED
  BY <1>1, <1>2, OpFields DEF OpOK, OpState

\* planning the v6 rules,
LEMMA V6Op ==
  ASSUME OpOK, NEW o \in Ops, NEW p, NEW x \in {"keep", "replace", "forget"},
         op' = [op EXCEPT ![o].pc = p, ![o].v6 = x]
  PROVE  /\ p \in OpPc => OpOK'
         /\ op'[o].pc = p /\ op'[o].v6 = x
         /\ op'[o].digest = op[o].digest /\ op'[o].mark = op[o].mark
         /\ op'[o].doc = op[o].doc /\ op'[o].answer = op[o].answer
         /\ \A q \in Ops : q # o => op'[q] = op[q]
<1>1. op' = [op EXCEPT ![o] = [op[o] EXCEPT !.pc = p, !.v6 = x]]
  OBVIOUS
<1>2. p \in OpPc => [op[o] EXCEPT !.pc = p, !.v6 = x] \in OpState
  BY OpFields DEF OpState
<1>. QED
  BY <1>1, <1>2, OpFields DEF OpOK, OpState

\* and taking an answer.
LEMMA AnswerOp ==
  ASSUME OpOK, NEW o \in Ops, NEW p, NEW x \in Answer,
         op' = [op EXCEPT ![o].pc = p, ![o].answer = x]
  PROVE  /\ p \in OpPc => OpOK'
         /\ op'[o].pc = p /\ op'[o].answer = x
         /\ op'[o].digest = op[o].digest /\ op'[o].mark = op[o].mark
         /\ op'[o].doc = op[o].doc /\ op'[o].v6 = op[o].v6
         /\ \A q \in Ops : q # o => op'[q] = op[q]
<1>1. op' = [op EXCEPT ![o] = [op[o] EXCEPT !.pc = p, !.answer = x]]
  OBVIOUS
<1>2. p \in OpPc => [op[o] EXCEPT !.pc = p, !.answer = x] \in OpState
  BY OpFields DEF OpState
<1>. QED
  BY <1>1, <1>2, OpFields DEF OpOK, OpState

\* The state of an operation that has not begun or has ended.
LEMMA IdleFields ==
  /\ IdleOp \in OpState /\ IdleOp.pc = "idle" /\ IdleOp.answer = "none" /\ IdleOp.mark = NoMarker
  /\ \A p, answer :
       LET r == [IdleOp EXCEPT !.pc = p, !.answer = answer]
       IN  /\ p \in OpPc /\ answer \in Answer => r \in OpState
           /\ r.pc = p /\ r.answer = answer
<1>1. IdleOp \in OpState
  BY DEF IdleOp, OpState, OpPc, Answer, Document
<1>2. IdleOp.pc = "idle" /\ IdleOp.answer = "none" /\ IdleOp.mark = NoMarker
  BY DEF IdleOp
<1>3. ASSUME NEW p, NEW answer
      PROVE  LET r == [IdleOp EXCEPT !.pc = p, !.answer = answer]
             IN  /\ p \in OpPc /\ answer \in Answer => r \in OpState
                 /\ r.pc = p /\ r.answer = answer
  BY <1>1 DEF OpState
<1>. QED
  BY <1>1, <1>2, <1>3

\* An operation ends.
LEMMA LeavesOp ==
  ASSUME OpOK, NEW o \in Ops, NEW p, NEW answer, Leaves(o, p, answer)
  PROVE  /\ p \in OpPc /\ answer \in Answer => OpOK'
         /\ op'[o].pc = p /\ op'[o].answer = answer
         /\ \A q \in Ops : q # o => op'[q] = op[q]
BY IdleFields DEF Leaves, OpOK

\* A handler that returns is done.
LEMMA EndsOp ==
  ASSUME OpOK, NEW o \in Ops, NEW answer \in Answer, Ends(o, answer)
  PROVE  /\ OpOK' /\ op'[o].pc = "done" /\ op'[o].answer \in {answer, "pending"}
         /\ op'[o].answer = "confirmed" => answer = "confirmed"
         /\ \A q \in Ops : q # o => op'[q] = op[q]
<1>1. PICK a \in {answer, "pending"} : Leaves(o, "done", a)
  BY DEF Ends
<1>2. a \in Answer /\ "done" \in OpPc
  BY DEF Answer, OpPc
<1>. QED
  BY <1>1, <1>2, LeavesOp

\* A handler that throws is done, and confirms nothing.
LEMMA FailsOp ==
  ASSUME OpOK, NEW o \in Ops, Fails(o)
  PROVE  /\ OpOK' /\ op'[o].pc = "done" /\ op'[o].answer = "failed"
         /\ \A q \in Ops : q # o => op'[q] = op[q]
BY LeavesOp DEF Fails, Answer, OpPc

\* Loading or removing the rules of a family.
LEMMA LoadsTypes ==
  ASSUME KernelOK, NEW f \in Family, NEW doc \in Document, Loads(f, doc)
  PROVE  /\ KernelOK' /\ kernel'[f] = doc
         /\ \A g \in Family : g # f => kernel'[g] = kernel[g]
         /\ \A g \in Family : g # f => (g \in provisional' <=> g \in provisional)
         /\ f \in provisional' => doc # NoRules /\ (f \in provisional \/ doc # kernel[f])
BY DEF Loads, KernelOK

\* Removing rules leaves a document or none.
LEMMA RemovedTypes ==
  ASSUME KernelOK, NEW f \in Family
  PROVE  Removed(f) \subseteq Document /\ Removed(f) \subseteq {NoRules, kernel[f]}
BY DEF Removed, KernelOK, Document

(***************************************************************************)
(* Each kind of operation keeps to its own part of the program, knows the  *)
(* ruleset it is about and has seen a marker where it uses one; an answer  *)
(* is decided before the end only by an apply that was refused.            *)
(***************************************************************************)
ArmPc     == {"supersede", "stage", "mark", "arm", "load4", "load6", "reread", "redoc",
              "remark", "verify"}
ConfirmPc == {"check", "read4", "put4", "read6", "put6", "forget6"}
ClearPc   == {"clear", "clear4", "clear6", "disarm", "unrecord"}
OffPc     == {"chains4", "chains6", "drop4", "drop6"}
RehangPc  == {"rehang", "doc4", "hang4", "doc6", "hang6"}

\* An apply whose timer or rules were refused gives its stage up.
Refused(o) ==
  /\ o \in Applies
  /\ \/ op[o].pc \in {"clear", "clear4", "clear6"} /\ op[o].answer \in {"unarmed", "failed"}
     \/ op[o].pc = "disarm" /\ op[o].answer = "failed"

\* Who stands where, and what it has in hand.
Role(o) ==
  /\ op[o].pc \in ArmPc => o \in Applies
  /\ op[o].pc \in ConfirmPc => o \in Applies \cup Confirms
  /\ op[o].pc \in ClearPc => o \notin Rehangs
  /\ op[o].pc \in OffPc => o \in Offs
  /\ op[o].pc \in RehangPc => o \in Rehangs
  /\ op[o].pc \in ArmPc \cup ConfirmPc => op[o].digest \in Ruleset
  /\ op[o].pc \in {"redoc", "remark", "read4", "put4"} => op[o].mark # NoMarker
  /\ op[o].pc \notin {"done", "dead"} => op[o].answer = "none" \/ Refused(o)

\* The inductive invariant behind TypeOK.
TypeInv == TypeOK /\ \A o \in Ops : Role(o)

\* A step of o does not touch what the others do.
LEMMA RolesKept ==
  ASSUME \A q \in Ops : Role(q), NEW o \in Ops,
         \A q \in Ops : q # o => op'[q] = op[q], Role(o)'
  PROVE  \A q \in Ops : Role(q)'
<1>. SUFFICES ASSUME NEW q \in Ops, q # o PROVE Role(q)'
  OBVIOUS
<1>1. op'[q] = op[q] /\ Role(q)
  OBVIOUS
<1>. QED
  BY <1>1 DEF Role, Refused

\* The document a re-hang reads.
LEMMA ForwardTypes ==
  ASSUME FilesOK, NEW m \in Marker \cup {NoMarker}, NEW f \in Family
  PROVE  ForwardDocument(m, f) \in Document
BY DEF ForwardDocument, FilesOK, Family, Document

\* The other operations keep their roles.
LEMMA SameRoles ==
  ASSUME \A q \in Ops : Role(q), UNCHANGED op
  PROVE  \A q \in Ops : Role(q)'
BY DEF Role, Refused

\* A marker that is written again with what a confirm is to do about v6.
LEMMA RemarkTypes ==
  ASSUME NEW m \in Marker, NEW v \in {"keep", "replace", "forget"}
  PROVE  /\ [m EXCEPT !.v6 = v] \in Marker
         /\ [m EXCEPT !.v6 = v].digest = m.digest /\ [m EXCEPT !.v6 = v].v6 = v
         /\ [m EXCEPT !.v6 = v].by = m.by
BY DEF Marker

(***************************************************************************)
(* What a step does to the operation that takes it.                        *)
(***************************************************************************)
\* The rest stays; it moves on, gives up, has noted a marker, has read a document,
\* or has ended unconfirmed.
Others(o) == OpOK' /\ \A q \in Ops : q # o => op'[q] = op[q]
Knowing(o) == /\ op'[o].digest = op[o].digest /\ op'[o].mark = op[o].mark
              /\ op'[o].doc = op[o].doc /\ op'[o].v6 = op[o].v6
Moved(o, p) == Others(o) /\ Knowing(o) /\ op'[o].pc = p /\ op'[o].answer = op[o].answer
GivesUp(o, a) == Others(o) /\ Knowing(o) /\ op'[o].pc = "clear" /\ op'[o].answer = a
Noted(o, p, m) == /\ Others(o) /\ op'[o].pc = p /\ op'[o].mark = m
                  /\ op'[o].digest = op[o].digest /\ op'[o].v6 = op[o].v6
                  /\ op'[o].answer = op[o].answer
Read(o, p, doc) == /\ Others(o) /\ op'[o].pc = p /\ op'[o].doc = doc
                   /\ op'[o].digest = op[o].digest /\ op'[o].mark = op[o].mark
                   /\ op'[o].answer = op[o].answer
Ended(o) == Others(o) /\ op'[o].pc = "done" /\ op'[o].answer # "confirmed"

\* The ways in which an operation moves.
LEMMA Moving ==
  ASSUME OpOK, NEW o \in Ops
  PROVE  /\ \A p \in OpPc : Goto(o, p) => Moved(o, p)
         /\ \A a \in Answer : op' = [op EXCEPT ![o].pc = "clear", ![o].answer = a] => GivesUp(o, a)
         /\ \A p \in OpPc, m \in Marker \cup {NoMarker} :
              op' = [op EXCEPT ![o].pc = p, ![o].mark = m] => Noted(o, p, m)
         /\ \A p \in OpPc, doc \in Document :
              op' = [op EXCEPT ![o].pc = p, ![o].doc = doc] => Read(o, p, doc)
         /\ Fails(o) => Ended(o)
         /\ \A a \in Answer \ {"confirmed"} : Ends(o, a) => Ended(o)
<1>1. ASSUME NEW p \in OpPc, Goto(o, p) PROVE Moved(o, p)
  BY <1>1, GotoOp DEF Moved, Others, Knowing
<1>2. ASSUME NEW a \in Answer, op' = [op EXCEPT ![o].pc = "clear", ![o].answer = a]
      PROVE  GivesUp(o, a)
  <2>1. "clear" \in OpPc
    BY DEF OpPc
  <2>. QED
    BY <1>2, <2>1, AnswerOp DEF GivesUp, Others, Knowing
<1>3. ASSUME NEW p \in OpPc, NEW m \in Marker \cup {NoMarker},
             op' = [op EXCEPT ![o].pc = p, ![o].mark = m]
      PROVE  Noted(o, p, m)
  BY <1>3, MarkOp, ZenonT(60) DEF Noted, Others
<1>4. ASSUME NEW p \in OpPc, NEW doc \in Document,
             op' = [op EXCEPT ![o].pc = p, ![o].doc = doc]
      PROVE  Read(o, p, doc)
  BY <1>4, DocOp DEF Read, Others
<1>5. Fails(o) => Ended(o)
  BY FailsOp DEF Ended, Others
<1>6. ASSUME NEW a \in Answer \ {"confirmed"}, Ends(o, a) PROVE Ended(o)
  BY <1>6, EndsOp DEF Ended, Others
<1>. QED
  BY <1>1, <1>2, <1>3, <1>4, <1>5, <1>6

\* The program counters and answers that occur below.
LEMMA Constants ==
  /\ {"stage", "mark", "arm", "load4", "load6", "redoc", "remark", "verify", "check", "read4",
      "put4", "forget6", "read6", "put6", "clear", "clear4", "clear6", "disarm", "unrecord",
      "chains4", "chains6", "drop4", "drop6", "rehang", "doc4", "hang4", "doc6", "hang6", "supersede",
      "reread", "done", "dead"} \subseteq OpPc
  /\ {"none", "unarmed", "failed", "pending", "rolled_back", "nothing_pending",
      "digest_mismatch", "expired", "off"} \subseteq Answer \ {"confirmed"}
BY DEF OpPc, Answer

\* What Start does to its operation.
LEMMA OpStart ==
  ASSUME TypeInv, NEW o \in Ops, Start(o)
  PROVE  /\ Others(o) /\ op'[o].answer = op[o].answer
         /\ \/ o \in Applies /\ op'[o].pc = "supersede" /\ op'[o].digest \in Ruleset
            \/ o \in Confirms /\ op'[o].pc = "check" /\ op'[o].digest \in Ruleset
            \/ o \in Offs /\ op'[o].pc = "chains4"
            \/ o \in Rehangs /\ op'[o].pc = "rehang"
<1>. OpOK
  BY TypeParts DEF TypeInv
<1>1. ASSUME NEW d \in Ruleset, NEW p \in {"supersede", "check"},
             op' = [op EXCEPT ![o].pc = p, ![o].digest = d]
      PROVE  /\ Others(o) /\ op'[o].answer = op[o].answer
             /\ op'[o].pc = p /\ op'[o].digest = d
  <2>1. p \in OpPc /\ d \in Document
    BY Constants DEF Document
  <2>2. /\ OpOK' /\ op'[o].pc = p /\ op'[o].digest = d /\ op'[o].answer = op[o].answer
        /\ \A q \in Ops : q # o => op'[q] = op[q]
    BY <1>1, <2>1, DigestOp, ZenonT(60)
  <2>. QED
    BY <2>2 DEF Others
<1>2. ASSUME NEW p \in {"chains4", "rehang"}, Goto(o, p)
      PROVE  Others(o) /\ op'[o].answer = op[o].answer /\ op'[o].pc = p
  BY <1>2, Moving, Constants, ZenonT(60) DEF Moved
<1>. QED
  BY <1>1, <1>2 DEF Start

\* What ArmSupersedes does to its operation.
LEMMA OpArmSupersedes ==
  ASSUME TypeInv, NEW o \in Ops, ArmSupersedes(o)
  PROVE  Moved(o, "stage")
<1>. OpOK
  BY TypeParts DEF TypeInv
<1>. QED
  BY Moving, Constants DEF ArmSupersedes

\* What ArmStages does to its operation.
LEMMA OpArmStages ==
  ASSUME TypeInv, NEW o \in Ops, ArmStages(o)
  PROVE  Moved(o, "mark")
<1>. OpOK
  BY TypeParts DEF TypeInv
<1>. QED
  BY Moving, Constants DEF ArmStages

\* What ArmMarks does to its operation.
LEMMA OpArmMarks ==
  ASSUME TypeInv, NEW o \in Ops, ArmMarks(o)
  PROVE  Moved(o, "arm")
<1>. OpOK
  BY TypeParts DEF TypeInv
<1>. QED
  BY Moving, Constants DEF ArmMarks

\* What RecordWrites6 does to its operation.
LEMMA OpRecordWrites6 ==
  ASSUME TypeInv, NEW o \in Ops, RecordWrites6(o)
  PROVE  Moved(o, "remark")
<1>. OpOK
  BY TypeParts DEF TypeInv
<1>. QED
  BY Moving, Constants DEF RecordWrites6

\* What Forgets6 does to its operation.
LEMMA OpForgets6 ==
  ASSUME TypeInv, NEW o \in Ops, Forgets6(o)
  PROVE  Moved(o, "clear")
<1>. OpOK
  BY TypeParts DEF TypeInv
<1>. QED
  BY Moving, Constants DEF Forgets6

\* What Promotes6 does to its operation.
LEMMA OpPromotes6 ==
  ASSUME TypeInv, NEW o \in Ops, Promotes6(o)
  PROVE  Moved(o, "clear")
<1>. OpOK
  BY TypeParts DEF TypeInv
<1>. QED
  BY Moving, Constants DEF Promotes6

\* What ClearsMarker does to its operation.
LEMMA OpClearsMarker ==
  ASSUME TypeInv, NEW o \in Ops, ClearsMarker(o)
  PROVE  Moved(o, "clear4")
<1>. OpOK
  BY TypeParts DEF TypeInv
<1>. QED
  BY Moving, Constants DEF ClearsMarker

\* What Clears4 does to its operation.
LEMMA OpClears4 ==
  ASSUME TypeInv, NEW o \in Ops, Clears4(o)
  PROVE  Moved(o, "clear6")
<1>. OpOK
  BY TypeParts DEF TypeInv
<1>. QED
  BY Moving, Constants DEF Clears4

\* What ArmTimer does to its operation.
LEMMA OpArmTimer ==
  ASSUME TypeInv, NEW o \in Ops, ArmTimer(o)
  PROVE  (Moved(o, "load4") /\ timer' = TRUE) \/ GivesUp(o, "unarmed")
<1>. OpOK
  BY TypeParts DEF TypeInv
<1>. QED
  BY Moving, Constants DEF ArmTimer

\* What Load4 does to its operation.
LEMMA OpLoad4 ==
  ASSUME TypeInv, NEW o \in Ops, Load4(o)
  PROVE  \/ /\ Loads(4, op[o].digest) /\ confirmed' = confirmed \ {op[o].digest}
            /\ Moved(o, "load6")
         \/ /\ Loads(4, op[o].digest) \/ Loads(4, NoRules)
            /\ confirmed' = confirmed \ {op[o].digest}
            /\ Ended(o) /\ op'[o].answer = "failed"
         \/ UNCHANGED <<kernel, observed>> /\ GivesUp(o, "failed")
<1>. OpOK
  BY TypeParts DEF TypeInv
<1>1. Fails(o) => Ended(o) /\ op'[o].answer = "failed"
  BY Moving, LeavesOp, Constants DEF Fails
<1>. QED
  BY <1>1, Moving, Constants DEF Load4

\* What Load6 does to its operation.
LEMMA OpLoad6 ==
  ASSUME TypeInv, NEW o \in Ops, Load6(o)
  PROVE  /\ Others(o) /\ op'[o].pc = "reread" /\ op'[o].digest = op[o].digest
         /\ op'[o].mark = op[o].mark /\ op'[o].answer = op[o].answer
<1>. OpOK
  BY TypeParts DEF TypeInv
<1>1. PICK v6 \in {"replace", "keep", "forget"} :
        op' = [op EXCEPT ![o].pc = "reread", ![o].v6 = v6]
  BY DEF Load6
<1>2. "reread" \in OpPc
  BY Constants
<1>. QED
  BY <1>1, <1>2, V6Op DEF Others

\* What RecordReads does to its operation.
LEMMA OpRecordReads ==
  ASSUME TypeInv, NEW o \in Ops, RecordReads(o)
  PROVE  \/ marker = NoMarker /\ (Ended(o) \/ Moved(o, "verify"))
         \/ marker # NoMarker /\ Noted(o, "redoc", marker)
<1>. OpOK
  BY TypeParts DEF TypeInv
<1>1. marker \in Marker \cup {NoMarker}
  BY TypeParts DEF MarkerOK, TypeInv
<1>. QED
  BY <1>1, Moving, Constants DEF RecordReads, AfterRecord

\* What RecordMarks does to its operation.
LEMMA OpRecordMarks ==
  ASSUME TypeInv, NEW o \in Ops, RecordMarks(o)
  PROVE  Ended(o) \/ Moved(o, "verify")
<1>. OpOK
  BY TypeParts DEF TypeInv
<1>. QED
  BY Moving, Constants DEF RecordMarks, AfterRecord

\* What Verifies does to its operation.
LEMMA OpVerifies ==
  ASSUME TypeInv, NEW o \in Ops, Verifies(o)
  PROVE  Ended(o) \/ Moved(o, "check")
<1>. OpOK
  BY TypeParts DEF TypeInv
<1>. QED
  BY Moving, Constants DEF Verifies

\* What ConfirmChecks does to its operation.
LEMMA OpConfirmChecks ==
  ASSUME TypeInv, NEW o \in Ops, ConfirmChecks(o)
  PROVE  \/ Ended(o)
         \/ /\ marker # NoMarker /\ marker.digest = op[o].digest
            /\ Noted(o, "read4", marker)
<1>. OpOK
  BY TypeParts DEF TypeInv
<1>1. marker \in Marker \cup {NoMarker}
  BY TypeParts DEF MarkerOK, TypeInv
<1>. QED
  BY <1>1, Moving, Constants DEF ConfirmChecks

\* What ConfirmReads4 does to its operation.
LEMMA OpConfirmReads4 ==
  ASSUME TypeInv, NEW o \in Ops, ConfirmReads4(o)
  PROVE  (pending[4] = NoRules /\ Ended(o)) \/ (pending[4] # NoRules /\ Read(o, "put4", pending[4]))
<1>. OpOK
  BY TypeParts DEF TypeInv
<1>1. pending[4] \in Document
  BY TypeParts DEF FilesOK, Family, TypeInv
<1>. QED
  BY <1>1, Moving, Constants DEF ConfirmReads4

\* What ConfirmReads6 does to its operation.
LEMMA OpConfirmReads6 ==
  ASSUME TypeInv, NEW o \in Ops, ConfirmReads6(o)
  PROVE  (pending[6] = NoRules /\ Ended(o)) \/ (pending[6] # NoRules /\ Read(o, "put6", pending[6]))
<1>. OpOK
  BY TypeParts DEF TypeInv
<1>1. pending[6] \in Document
  BY TypeParts DEF FilesOK, Family, TypeInv
<1>. QED
  BY <1>1, Moving, Constants DEF ConfirmReads6

\* What Promotes4 does to its operation.
LEMMA OpPromotes4 ==
  ASSUME TypeInv, NEW o \in Ops, Promotes4(o)
  PROVE  \/ op[o].mark.v6 = "keep" /\ Moved(o, "clear")
         \/ op[o].mark.v6 = "forget" /\ Moved(o, "forget6")
         \/ op[o].mark.v6 = "replace" /\ Moved(o, "read6")
<1>. OpOK
  BY TypeParts DEF TypeInv
<1>1. op[o].mark.v6 \in {"keep", "forget", "replace"}
  BY OpFields, MarkerFields DEF Promotes4, At, Role, TypeInv
<1>. QED
  BY <1>1, Moving, Constants DEF Promotes4

\* What Clears6 does to its operation.
LEMMA OpClears6 ==
  ASSUME TypeInv, NEW o \in Ops, Clears6(o)
  PROVE  \/ op[o].answer = "unarmed" /\ Ended(o)
         \/ op[o].answer # "unarmed" /\ o \in Offs /\ Moved(o, "unrecord")
         \/ op[o].answer # "unarmed" /\ o \notin Offs /\ Moved(o, "disarm")
<1>. OpOK
  BY TypeParts DEF TypeInv
<1>1. CASE op[o].answer = "unarmed"
  BY <1>1, Moving DEF Clears6
<1>2. CASE op[o].answer # "unarmed" /\ o \in Offs
  BY <1>2, Moving, Constants DEF Clears6
<1>3. CASE op[o].answer # "unarmed" /\ o \notin Offs
  BY <1>3, Moving, Constants DEF Clears6
<1>. QED
  BY <1>1, <1>2, <1>3

\* What Disarms does to its operation.
LEMMA OpDisarms ==
  ASSUME TypeInv, NEW o \in Ops, Disarms(o)
  PROVE  \/ Ended(o)
         \/ op[o].answer # "failed" /\ o \notin Offs /\ Moved(o, "unrecord")
<1>. OpOK
  BY TypeParts DEF TypeInv
<1>. QED
  BY Moving, Constants DEF Disarms

\* What Unrecords does to its operation.
LEMMA OpUnrecords ==
  ASSUME TypeInv, NEW o \in Ops, Unrecords(o)
  PROVE  \/ o \in Offs /\ Moved(o, "disarm")
         \/ o \notin Offs /\ Others(o) /\ op'[o].pc = "done"
<1>. OpOK
  BY TypeParts DEF TypeInv
<1>1. CASE o \in Offs
  BY <1>1, Moving, Constants DEF Unrecords
<1>2. CASE o \notin Offs
  <2>1. "confirmed" \in Answer /\ Ends(o, "confirmed")
    BY <1>2 DEF Answer, Unrecords
  <2>. QED
    BY <1>2, <2>1, EndsOp DEF Others
<1>. QED
  BY <1>1, <1>2

\* What RemovesChains does to its operation.
LEMMA OpRemovesChains ==
  ASSUME TypeInv, NEW o \in Ops, RemovesChains(o)
  PROVE  \/ At(o, "chains4") /\ Moved(o, "chains6")
         \/ At(o, "chains6") /\ Moved(o, "drop4")
<1>. OpOK
  BY TypeParts DEF TypeInv
<1>. QED
  BY Moving, Constants DEF RemovesChains

\* What DropsDurable does to its operation.
LEMMA OpDropsDurable ==
  ASSUME TypeInv, NEW o \in Ops, DropsDurable(o)
  PROVE  \/ At(o, "drop4") /\ Moved(o, "drop6")
         \/ At(o, "drop6") /\ Moved(o, "clear")
<1>. OpOK
  BY TypeParts DEF TypeInv
<1>. QED
  BY Moving, Constants DEF DropsDurable

\* What RehangStarts does to its operation.
LEMMA OpRehangStarts ==
  ASSUME TypeInv, NEW o \in Ops, RehangStarts(o)
  PROVE  Noted(o, "doc4", marker)
<1>. OpOK
  BY TypeParts DEF TypeInv
<1>1. marker \in Marker \cup {NoMarker}
  BY TypeParts DEF MarkerOK, TypeInv
<1>. QED
  BY <1>1, Moving, Constants DEF RehangStarts

\* What RehangReads does to its operation.
LEMMA OpRehangReads ==
  ASSUME TypeInv, NEW o \in Ops, RehangReads(o)
  PROVE  \/ At(o, "doc4") /\ Read(o, "hang4", ForwardDocument(op[o].mark, 4))
         \/ At(o, "doc6") /\ Read(o, "hang6", ForwardDocument(op[o].mark, 6))
<1>. OpOK
  BY TypeParts DEF TypeInv
<1>1. ForwardDocument(op[o].mark, 4) \in Document /\ ForwardDocument(op[o].mark, 6) \in Document
  BY ForwardTypes, OpFields, TypeParts DEF Family, TypeInv
<1>. QED
  BY <1>1, Moving, Constants DEF RehangReads

\* What RehangLoads does to its operation.
LEMMA OpRehangLoads ==
  ASSUME TypeInv, NEW o \in Ops, RehangLoads(o)
  PROVE  \/ At(o, "hang4") /\ Moved(o, "doc6")
         \/ At(o, "hang6") /\ Ended(o)
<1>. OpOK
  BY TypeParts DEF TypeInv
<1>1. \/ At(o, "hang4") /\ Goto(o, "doc6")
      \/ At(o, "hang6") /\ Leaves(o, "done", "none")
  BY DEF RehangLoads
<1>2. Leaves(o, "done", "none") => Ended(o)
  BY LeavesOp, Constants DEF Ended, Others
<1>. QED
  BY <1>1, <1>2, Moving, Constants

\* What Dies does to its operation.
LEMMA OpDies ==
  ASSUME TypeInv, NEW o \in Ops, Dies(o)
  PROVE  Others(o) /\ op'[o].pc = "dead" /\ op'[o].answer # "confirmed"
<1>. OpOK
  BY TypeParts DEF TypeInv
<1>1. Leaves(o, "dead", "none")
  BY DEF Dies
<1>. QED
  BY <1>1, LeavesOp, Constants DEF Others

\* Start keeps the types.
LEMMA TypeStart ==
  ASSUME TypeInv, NEW o \in Ops, Start(o)
  PROVE  TypeInv'
<1>1. FilesOK /\ KernelOK /\ MarkerOK /\ TimerOK /\ CountOK /\ OpOK /\ GuardOK /\ ConfirmedOK
  BY TypeParts DEF TypeInv
<1>2. OpOK' /\ \A q \in Ops : q # o => op'[q] = op[q]
  BY OpStart DEF Others
<1>3. FilesOK' /\ KernelOK' /\ MarkerOK' /\ TimerOK' /\ CountOK' /\ GuardOK' /\ ConfirmedOK'
  BY <1>1, Unchanged DEF Start, files, host, count, observed
<1>4. Role(o)'
  <2>. Role(o)
    BY DEF TypeInv
  <2>. QED
    BY OpStart, FirewallAssumption DEF Start, Role, Refused, ArmPc, ConfirmPc, ClearPc,
       OffPc, RehangPc, At
<1>5. \A q \in Ops : Role(q)'
  BY <1>2, <1>4, RolesKept DEF TypeInv
<1>. QED
  BY <1>2, <1>3, <1>5, TypeParts DEF TypeInv

\* ArmSupersedes keeps the types.
LEMMA TypeArmSupersedes ==
  ASSUME TypeInv, NEW o \in Ops, ArmSupersedes(o)
  PROVE  TypeInv'
<1>1. FilesOK /\ KernelOK /\ MarkerOK /\ TimerOK /\ CountOK /\ OpOK /\ GuardOK /\ ConfirmedOK
  BY TypeParts DEF TypeInv
<1>2. OpOK' /\ \A q \in Ops : q # o => op'[q] = op[q]
  BY OpArmSupersedes DEF Others, Moved
<1>3. FilesOK'
  BY <1>1 DEF ArmSupersedes, FilesOK, Document, Family
<1>4. KernelOK' /\ MarkerOK' /\ TimerOK' /\ CountOK' /\ GuardOK' /\ ConfirmedOK'
  BY <1>1, Unchanged DEF ArmSupersedes, files, host, count, observed
<1>5. Role(o)'
  <2>. Role(o)
    BY DEF TypeInv
  <2>. QED
    BY OpArmSupersedes, FirewallAssumption DEF ArmSupersedes, Role, Refused, ArmPc, OffPc,
       RehangPc, At, Moved, Knowing
<1>6. \A q \in Ops : Role(q)'
  BY <1>2, <1>5, RolesKept DEF TypeInv
<1>. QED
  BY <1>2, <1>3, <1>4, <1>6, TypeParts DEF TypeInv

\* ArmStages keeps the types.
LEMMA TypeArmStages ==
  ASSUME TypeInv, NEW o \in Ops, ArmStages(o)
  PROVE  TypeInv'
<1>1. FilesOK /\ KernelOK /\ MarkerOK /\ TimerOK /\ CountOK /\ OpOK /\ GuardOK /\ ConfirmedOK
  BY TypeParts DEF TypeInv
<1>2. OpOK' /\ \A q \in Ops : q # o => op'[q] = op[q]
  BY OpArmStages DEF Others, Moved
<1>3. FilesOK'
  BY <1>1, OpFields DEF ArmStages, FilesOK, Document, Family
<1>4. KernelOK' /\ MarkerOK' /\ TimerOK' /\ CountOK' /\ GuardOK' /\ ConfirmedOK'
  BY <1>1, Unchanged DEF ArmStages, files, host, count, observed
<1>5. Role(o)'
  <2>. Role(o)
    BY DEF TypeInv
  <2>. QED
    BY OpArmStages, FirewallAssumption DEF ArmStages, Role, Refused, ArmPc, OffPc,
       RehangPc, At, Moved, Knowing
<1>6. \A q \in Ops : Role(q)'
  BY <1>2, <1>5, RolesKept DEF TypeInv
<1>. QED
  BY <1>2, <1>3, <1>4, <1>6, TypeParts DEF TypeInv

\* ArmMarks keeps the types.
LEMMA TypeArmMarks ==
  ASSUME TypeInv, NEW o \in Ops, ArmMarks(o)
  PROVE  TypeInv'
<1>1. FilesOK /\ KernelOK /\ MarkerOK /\ TimerOK /\ CountOK /\ OpOK /\ GuardOK /\ ConfirmedOK
  BY TypeParts DEF TypeInv
<1>2. OpOK' /\ \A q \in Ops : q # o => op'[q] = op[q]
  BY OpArmMarks DEF Others, Moved
<1>3. MarkerOK'
  BY <1>1, MarkerFields DEF ArmMarks, MarkerOK, Role, ArmPc, At, TypeInv
<1>4. FilesOK' /\ KernelOK' /\ TimerOK' /\ CountOK' /\ GuardOK' /\ ConfirmedOK'
  BY <1>1, Unchanged DEF ArmMarks, files, count, observed
<1>5. Role(o)'
  <2>. Role(o)
    BY DEF TypeInv
  <2>. QED
    BY OpArmMarks, FirewallAssumption DEF ArmMarks, Role, Refused, ArmPc, OffPc, RehangPc,
       At, Moved, Knowing
<1>6. \A q \in Ops : Role(q)'
  BY <1>2, <1>5, RolesKept DEF TypeInv
<1>. QED
  BY <1>2, <1>3, <1>4, <1>6, TypeParts DEF TypeInv

\* ArmTimer keeps the types.
LEMMA TypeArmTimer ==
  ASSUME TypeInv, NEW o \in Ops, ArmTimer(o)
  PROVE  TypeInv'
<1>1. FilesOK /\ KernelOK /\ MarkerOK /\ TimerOK /\ CountOK /\ OpOK /\ GuardOK /\ ConfirmedOK
  BY TypeParts DEF TypeInv
<1>2. OpOK' /\ \A q \in Ops : q # o => op'[q] = op[q]
  BY OpArmTimer DEF Others, Moved, GivesUp
<1>3. TimerOK'
  BY <1>1 DEF ArmTimer, TimerOK
<1>4. FilesOK' /\ KernelOK' /\ MarkerOK' /\ CountOK' /\ GuardOK' /\ ConfirmedOK'
  BY <1>1, Unchanged DEF ArmTimer, files, count, observed
<1>5. Role(o)'
  <2>. Role(o)
    BY DEF TypeInv
  <2>. QED
    BY OpArmTimer, FirewallAssumption DEF ArmTimer, Role, Refused, ArmPc, OffPc, RehangPc,
       At, Moved, GivesUp, Knowing
<1>6. \A q \in Ops : Role(q)'
  BY <1>2, <1>5, RolesKept DEF TypeInv
<1>. QED
  BY <1>2, <1>3, <1>4, <1>6, TypeParts DEF TypeInv

\* Load4 keeps the types.
LEMMA TypeLoad4 ==
  ASSUME TypeInv, NEW o \in Ops, Load4(o)
  PROVE  TypeInv'
<1>1. FilesOK /\ KernelOK /\ MarkerOK /\ TimerOK /\ CountOK /\ OpOK /\ GuardOK /\ ConfirmedOK
  BY TypeParts DEF TypeInv
<1>2. OpOK' /\ \A q \in Ops : q # o => op'[q] = op[q]
  BY OpLoad4 DEF Others, Moved, GivesUp, Ended
<1>3. KernelOK'
  <2>1. Loads(4, op[o].digest) \/ Loads(4, NoRules) => KernelOK'
    BY <1>1, LoadsTypes, OpFields DEF Family, Document
  <2>. QED
    BY <1>1, <2>1, Unchanged DEF Load4, observed
<1>4. ConfirmedOK'
  BY <1>1 DEF Load4, ConfirmedOK, observed
<1>5. FilesOK' /\ MarkerOK' /\ TimerOK' /\ CountOK' /\ GuardOK'
  BY <1>1, Unchanged DEF Load4, files, count, observed
<1>6. Role(o)'
  <2>. Role(o)
    BY DEF TypeInv
  <2>. QED
    BY OpLoad4, FirewallAssumption DEF Load4, Role, Refused, ArmPc, ConfirmPc, OffPc,
       RehangPc, At, Moved, GivesUp, Ended, Knowing
<1>7. \A q \in Ops : Role(q)'
  BY <1>2, <1>6, RolesKept DEF TypeInv
<1>. QED
  BY <1>2, <1>3, <1>4, <1>5, <1>7, TypeParts DEF TypeInv

\* Load6 keeps the types.
LEMMA TypeLoad6 ==
  ASSUME TypeInv, NEW o \in Ops, Load6(o)
  PROVE  TypeInv'
<1>1. FilesOK /\ KernelOK /\ MarkerOK /\ TimerOK /\ CountOK /\ OpOK /\ GuardOK /\ ConfirmedOK
  BY TypeParts DEF TypeInv
<1>2. OpOK' /\ \A q \in Ops : q # o => op'[q] = op[q]
  BY OpLoad6 DEF Others
<1>3. KernelOK'
  <2>1. Loads(6, op[o].digest) => KernelOK'
    BY <1>1, LoadsTypes, OpFields DEF Family
  <2>. QED
    BY <1>1, <2>1, Unchanged DEF Load6
<1>4. FilesOK' /\ MarkerOK' /\ TimerOK' /\ CountOK' /\ GuardOK' /\ ConfirmedOK'
  BY <1>1, Unchanged DEF Load6, files, count
<1>5. Role(o)'
  <2>. Role(o)
    BY DEF TypeInv
  <2>. QED
    BY OpLoad6, FirewallAssumption DEF Load6, Role, Refused, ArmPc, OffPc, RehangPc, At
<1>6. \A q \in Ops : Role(q)'
  BY <1>2, <1>5, RolesKept DEF TypeInv
<1>. QED
  BY <1>2, <1>3, <1>4, <1>6, TypeParts DEF TypeInv

\* RecordReads keeps the types.
LEMMA TypeRecordReads ==
  ASSUME TypeInv, NEW o \in Ops, RecordReads(o)
  PROVE  TypeInv'
<1>1. FilesOK /\ KernelOK /\ MarkerOK /\ TimerOK /\ CountOK /\ OpOK /\ GuardOK /\ ConfirmedOK
  BY TypeParts DEF TypeInv
<1>2. OpOK' /\ \A q \in Ops : q # o => op'[q] = op[q]
  BY OpRecordReads DEF Others, Moved, Noted, Ended
<1>3. FilesOK' /\ KernelOK' /\ MarkerOK' /\ TimerOK' /\ CountOK' /\ GuardOK' /\ ConfirmedOK'
  BY <1>1, Unchanged DEF RecordReads, files, host, count, observed
<1>4. Role(o)'
  <2>. Role(o)
    BY DEF TypeInv
  <2>. QED
    BY OpRecordReads, FirewallAssumption DEF RecordReads, Role, Refused, ArmPc, ConfirmPc,
       OffPc, RehangPc, At, Moved, Noted, Ended, Knowing
<1>5. \A q \in Ops : Role(q)'
  BY <1>2, <1>4, RolesKept DEF TypeInv
<1>. QED
  BY <1>2, <1>3, <1>5, TypeParts DEF TypeInv

\* RecordWrites6 keeps the types.
LEMMA TypeRecordWrites6 ==
  ASSUME TypeInv, NEW o \in Ops, RecordWrites6(o)
  PROVE  TypeInv'
<1>1. FilesOK /\ KernelOK /\ MarkerOK /\ TimerOK /\ CountOK /\ OpOK /\ GuardOK /\ ConfirmedOK
  BY TypeParts DEF TypeInv
<1>2. OpOK' /\ \A q \in Ops : q # o => op'[q] = op[q]
  BY OpRecordWrites6 DEF Others, Moved
<1>3. FilesOK'
  BY <1>1, OpFields DEF RecordWrites6, FilesOK, Document, Family
<1>4. KernelOK' /\ MarkerOK' /\ TimerOK' /\ CountOK' /\ GuardOK' /\ ConfirmedOK'
  BY <1>1, Unchanged DEF RecordWrites6, files, host, count, observed
<1>5. Role(o)'
  <2>. Role(o)
    BY DEF TypeInv
  <2>. QED
    BY OpRecordWrites6, FirewallAssumption DEF RecordWrites6, Role, Refused, ArmPc, OffPc,
       RehangPc, At, Moved, Knowing
<1>6. \A q \in Ops : Role(q)'
  BY <1>2, <1>5, RolesKept DEF TypeInv
<1>. QED
  BY <1>2, <1>3, <1>4, <1>6, TypeParts DEF TypeInv

\* RecordMarks keeps the types.
LEMMA TypeRecordMarks ==
  ASSUME TypeInv, NEW o \in Ops, RecordMarks(o)
  PROVE  TypeInv'
<1>1. FilesOK /\ KernelOK /\ MarkerOK /\ TimerOK /\ CountOK /\ OpOK /\ GuardOK /\ ConfirmedOK
  BY TypeParts DEF TypeInv
<1>2. OpOK' /\ \A q \in Ops : q # o => op'[q] = op[q]
  BY OpRecordMarks DEF Others, Moved, Ended
<1>3. MarkerOK'
  BY <1>1, RemarkTypes, OpFields DEF RecordMarks, MarkerOK, Role, At, TypeInv
<1>4. FilesOK' /\ KernelOK' /\ TimerOK' /\ CountOK' /\ GuardOK' /\ ConfirmedOK'
  BY <1>1, Unchanged DEF RecordMarks, files, count, observed
<1>5. Role(o)'
  <2>. Role(o)
    BY DEF TypeInv
  <2>. QED
    BY OpRecordMarks, FirewallAssumption DEF RecordMarks, Role, Refused, ArmPc, ConfirmPc,
       OffPc, RehangPc, At, Moved, Ended, Knowing
<1>6. \A q \in Ops : Role(q)'
  BY <1>2, <1>5, RolesKept DEF TypeInv
<1>. QED
  BY <1>2, <1>3, <1>4, <1>6, TypeParts DEF TypeInv

\* Verifies keeps the types.
LEMMA TypeVerifies ==
  ASSUME TypeInv, NEW o \in Ops, Verifies(o)
  PROVE  TypeInv'
<1>1. FilesOK /\ KernelOK /\ MarkerOK /\ TimerOK /\ CountOK /\ OpOK /\ GuardOK /\ ConfirmedOK
  BY TypeParts DEF TypeInv
<1>2. OpOK' /\ \A q \in Ops : q # o => op'[q] = op[q]
  BY OpVerifies DEF Others, Moved, Ended
<1>3. FilesOK' /\ KernelOK' /\ MarkerOK' /\ TimerOK' /\ CountOK' /\ GuardOK' /\ ConfirmedOK'
  BY <1>1, Unchanged DEF Verifies, files, host, count, observed
<1>4. Role(o)'
  <2>. Role(o)
    BY DEF TypeInv
  <2>. QED
    BY OpVerifies, FirewallAssumption DEF Verifies, Role, Refused, ArmPc, ConfirmPc, OffPc,
       RehangPc, At, Moved, Ended, Knowing
<1>5. \A q \in Ops : Role(q)'
  BY <1>2, <1>4, RolesKept DEF TypeInv
<1>. QED
  BY <1>2, <1>3, <1>5, TypeParts DEF TypeInv

\* ConfirmChecks keeps the types.
LEMMA TypeConfirmChecks ==
  ASSUME TypeInv, NEW o \in Ops, ConfirmChecks(o)
  PROVE  TypeInv'
<1>1. FilesOK /\ KernelOK /\ MarkerOK /\ TimerOK /\ CountOK /\ OpOK /\ GuardOK /\ ConfirmedOK
  BY TypeParts DEF TypeInv
<1>2. OpOK' /\ \A q \in Ops : q # o => op'[q] = op[q]
  BY OpConfirmChecks DEF Others, Noted, Ended
<1>3. TimerOK'
  BY <1>1 DEF ConfirmChecks, TimerOK
<1>4. FilesOK' /\ KernelOK' /\ MarkerOK' /\ CountOK' /\ GuardOK' /\ ConfirmedOK'
  BY <1>1, Unchanged DEF ConfirmChecks, files, count, observed
<1>5. Role(o)'
  <2>. Role(o)
    BY DEF TypeInv
  <2>. QED
    BY OpConfirmChecks, FirewallAssumption DEF ConfirmChecks, Role, Refused, ArmPc,
       ConfirmPc, OffPc, RehangPc, At, Noted, Ended
<1>6. \A q \in Ops : Role(q)'
  BY <1>2, <1>5, RolesKept DEF TypeInv
<1>. QED
  BY <1>2, <1>3, <1>4, <1>6, TypeParts DEF TypeInv

\* ConfirmReads4 keeps the types.
LEMMA TypeConfirmReads4 ==
  ASSUME TypeInv, NEW o \in Ops, ConfirmReads4(o)
  PROVE  TypeInv'
<1>1. FilesOK /\ KernelOK /\ MarkerOK /\ TimerOK /\ CountOK /\ OpOK /\ GuardOK /\ ConfirmedOK
  BY TypeParts DEF TypeInv
<1>2. OpOK' /\ \A q \in Ops : q # o => op'[q] = op[q]
  BY OpConfirmReads4 DEF Others, Read, Ended
<1>3. FilesOK' /\ KernelOK' /\ MarkerOK' /\ TimerOK' /\ CountOK' /\ GuardOK' /\ ConfirmedOK'
  BY <1>1, Unchanged DEF ConfirmReads4, files, host, count, observed
<1>4. Role(o)'
  <2>. Role(o)
    BY DEF TypeInv
  <2>. QED
    BY OpConfirmReads4, FirewallAssumption DEF ConfirmReads4, Role, Refused, ArmPc,
       ConfirmPc, OffPc, RehangPc, At, Read, Ended
<1>5. \A q \in Ops : Role(q)'
  BY <1>2, <1>4, RolesKept DEF TypeInv
<1>. QED
  BY <1>2, <1>3, <1>5, TypeParts DEF TypeInv

\* Promotes4 keeps the types.
LEMMA TypePromotes4 ==
  ASSUME TypeInv, NEW o \in Ops, Promotes4(o)
  PROVE  TypeInv'
<1>1. FilesOK /\ KernelOK /\ MarkerOK /\ TimerOK /\ CountOK /\ OpOK /\ GuardOK /\ ConfirmedOK
  BY TypeParts DEF TypeInv
<1>2. OpOK' /\ \A q \in Ops : q # o => op'[q] = op[q]
  BY OpPromotes4 DEF Others, Moved
<1>3. FilesOK'
  BY <1>1, OpFields DEF Promotes4, FilesOK, Document, Family
<1>4. KernelOK'
  BY <1>1 DEF Promotes4, KernelOK, host
<1>5. ConfirmedOK'
  BY <1>1 DEF Promotes4, ConfirmedOK, Role, ConfirmPc, At, TypeInv
<1>6. MarkerOK' /\ TimerOK' /\ CountOK' /\ GuardOK'
  BY <1>1, Unchanged DEF Promotes4, files, host, count
<1>7. Role(o)'
  <2>. Role(o)
    BY DEF TypeInv
  <2>. QED
    BY OpPromotes4, FirewallAssumption DEF Promotes4, Role, Refused, ArmPc, ConfirmPc,
       OffPc, RehangPc, At, Moved, Knowing
<1>8. \A q \in Ops : Role(q)'
  BY <1>2, <1>7, RolesKept DEF TypeInv
<1>. QED
  BY <1>2, <1>3, <1>4, <1>5, <1>6, <1>8, TypeParts DEF TypeInv

\* Forgets6 keeps the types.
LEMMA TypeForgets6 ==
  ASSUME TypeInv, NEW o \in Ops, Forgets6(o)
  PROVE  TypeInv'
<1>1. FilesOK /\ KernelOK /\ MarkerOK /\ TimerOK /\ CountOK /\ OpOK /\ GuardOK /\ ConfirmedOK
  BY TypeParts DEF TypeInv
<1>2. OpOK' /\ \A q \in Ops : q # o => op'[q] = op[q]
  BY OpForgets6 DEF Others, Moved
<1>3. FilesOK'
  BY <1>1 DEF Forgets6, FilesOK, Document, Family
<1>4. KernelOK' /\ MarkerOK' /\ TimerOK' /\ CountOK' /\ GuardOK' /\ ConfirmedOK'
  BY <1>1, Unchanged DEF Forgets6, files, host, count, observed
<1>5. Role(o)'
  <2>. Role(o)
    BY DEF TypeInv
  <2>. QED
    BY OpForgets6, FirewallAssumption DEF Forgets6, Role, Refused, ArmPc, ConfirmPc, OffPc,
       RehangPc, At, Moved
<1>6. \A q \in Ops : Role(q)'
  BY <1>2, <1>5, RolesKept DEF TypeInv
<1>. QED
  BY <1>2, <1>3, <1>4, <1>6, TypeParts DEF TypeInv

\* ConfirmReads6 keeps the types.
LEMMA TypeConfirmReads6 ==
  ASSUME TypeInv, NEW o \in Ops, ConfirmReads6(o)
  PROVE  TypeInv'
<1>1. FilesOK /\ KernelOK /\ MarkerOK /\ TimerOK /\ CountOK /\ OpOK /\ GuardOK /\ ConfirmedOK
  BY TypeParts DEF TypeInv
<1>2. OpOK' /\ \A q \in Ops : q # o => op'[q] = op[q]
  BY OpConfirmReads6 DEF Others, Read, Ended
<1>3. FilesOK' /\ KernelOK' /\ MarkerOK' /\ TimerOK' /\ CountOK' /\ GuardOK' /\ ConfirmedOK'
  BY <1>1, Unchanged DEF ConfirmReads6, files, host, count, observed
<1>4. Role(o)'
  <2>. Role(o)
    BY DEF TypeInv
  <2>. QED
    BY OpConfirmReads6, FirewallAssumption DEF ConfirmReads6, Role, Refused, ArmPc,
       ConfirmPc, OffPc, RehangPc, At, Read, Ended
<1>5. \A q \in Ops : Role(q)'
  BY <1>2, <1>4, RolesKept DEF TypeInv
<1>. QED
  BY <1>2, <1>3, <1>5, TypeParts DEF TypeInv

\* Promotes6 keeps the types.
LEMMA TypePromotes6 ==
  ASSUME TypeInv, NEW o \in Ops, Promotes6(o)
  PROVE  TypeInv'
<1>1. FilesOK /\ KernelOK /\ MarkerOK /\ TimerOK /\ CountOK /\ OpOK /\ GuardOK /\ ConfirmedOK
  BY TypeParts DEF TypeInv
<1>2. OpOK' /\ \A q \in Ops : q # o => op'[q] = op[q]
  BY OpPromotes6 DEF Others, Moved
<1>3. FilesOK'
  BY <1>1, OpFields DEF Promotes6, FilesOK, Document, Family
<1>4. KernelOK' /\ MarkerOK' /\ TimerOK' /\ CountOK' /\ GuardOK' /\ ConfirmedOK'
  BY <1>1, Unchanged DEF Promotes6, files, host, count, observed
<1>5. Role(o)'
  <2>. Role(o)
    BY DEF TypeInv
  <2>. QED
    BY OpPromotes6, FirewallAssumption DEF Promotes6, Role, Refused, ArmPc, ConfirmPc,
       OffPc, RehangPc, At, Moved
<1>6. \A q \in Ops : Role(q)'
  BY <1>2, <1>5, RolesKept DEF TypeInv
<1>. QED
  BY <1>2, <1>3, <1>4, <1>6, TypeParts DEF TypeInv

\* ClearsMarker keeps the types.
LEMMA TypeClearsMarker ==
  ASSUME TypeInv, NEW o \in Ops, ClearsMarker(o)
  PROVE  TypeInv'
<1>1. FilesOK /\ KernelOK /\ MarkerOK /\ TimerOK /\ CountOK /\ OpOK /\ GuardOK /\ ConfirmedOK
  BY TypeParts DEF TypeInv
<1>2. OpOK' /\ \A q \in Ops : q # o => op'[q] = op[q]
  BY OpClearsMarker DEF Others, Moved
<1>3. MarkerOK'
  BY <1>1 DEF ClearsMarker, MarkerOK
<1>4. FilesOK' /\ KernelOK' /\ TimerOK' /\ CountOK' /\ GuardOK' /\ ConfirmedOK'
  BY <1>1, Unchanged DEF ClearsMarker, files, count, observed
<1>5. Role(o)'
  <2>. Role(o)
    BY DEF TypeInv
  <2>. QED
    BY OpClearsMarker, FirewallAssumption DEF ClearsMarker, Role, Refused, ArmPc,
       ConfirmPc, ClearPc, OffPc, RehangPc, At, Moved
<1>6. \A q \in Ops : Role(q)'
  BY <1>2, <1>5, RolesKept DEF TypeInv
<1>. QED
  BY <1>2, <1>3, <1>4, <1>6, TypeParts DEF TypeInv

\* Clears4 keeps the types.
LEMMA TypeClears4 ==
  ASSUME TypeInv, NEW o \in Ops, Clears4(o)
  PROVE  TypeInv'
<1>1. FilesOK /\ KernelOK /\ MarkerOK /\ TimerOK /\ CountOK /\ OpOK /\ GuardOK /\ ConfirmedOK
  BY TypeParts DEF TypeInv
<1>2. OpOK' /\ \A q \in Ops : q # o => op'[q] = op[q]
  BY OpClears4 DEF Others, Moved
<1>3. FilesOK'
  BY <1>1 DEF Clears4, FilesOK, Document, Family
<1>4. KernelOK' /\ MarkerOK' /\ TimerOK' /\ CountOK' /\ GuardOK' /\ ConfirmedOK'
  BY <1>1, Unchanged DEF Clears4, files, host, count, observed
<1>5. Role(o)'
  <2>. Role(o)
    BY DEF TypeInv
  <2>. QED
    BY OpClears4, FirewallAssumption DEF Clears4, Role, Refused, ArmPc, ConfirmPc, ClearPc,
       OffPc, RehangPc, At, Moved
<1>6. \A q \in Ops : Role(q)'
  BY <1>2, <1>5, RolesKept DEF TypeInv
<1>. QED
  BY <1>2, <1>3, <1>4, <1>6, TypeParts DEF TypeInv

\* Clears6 keeps the types.
LEMMA TypeClears6 ==
  ASSUME TypeInv, NEW o \in Ops, Clears6(o)
  PROVE  TypeInv'
<1>1. FilesOK /\ KernelOK /\ MarkerOK /\ TimerOK /\ CountOK /\ OpOK /\ GuardOK /\ ConfirmedOK
  BY TypeParts DEF TypeInv
<1>2. OpOK' /\ \A q \in Ops : q # o => op'[q] = op[q]
  BY OpClears6 DEF Others, Moved, Ended
<1>3. FilesOK'
  BY <1>1 DEF Clears6, FilesOK, Document, Family
<1>4. KernelOK' /\ MarkerOK' /\ TimerOK' /\ CountOK' /\ GuardOK' /\ ConfirmedOK'
  BY <1>1, Unchanged DEF Clears6, files, host, count, observed
<1>5. Role(o)'
  <2>. Role(o)
    BY DEF TypeInv
  <2>. QED
    BY OpClears6, FirewallAssumption DEF Clears6, Role, Refused, ArmPc, ConfirmPc, ClearPc,
       OffPc, RehangPc, At, Moved, Ended
<1>6. \A q \in Ops : Role(q)'
  BY <1>2, <1>5, RolesKept DEF TypeInv
<1>. QED
  BY <1>2, <1>3, <1>4, <1>6, TypeParts DEF TypeInv

\* Disarms keeps the types.
LEMMA TypeDisarms ==
  ASSUME TypeInv, NEW o \in Ops, Disarms(o)
  PROVE  TypeInv'
<1>1. FilesOK /\ KernelOK /\ MarkerOK /\ TimerOK /\ CountOK /\ OpOK /\ GuardOK /\ ConfirmedOK
  BY TypeParts DEF TypeInv
<1>2. OpOK' /\ \A q \in Ops : q # o => op'[q] = op[q]
  BY OpDisarms DEF Others, Moved, Ended
<1>3. TimerOK'
  BY <1>1 DEF Disarms, TimerOK
<1>4. FilesOK' /\ KernelOK' /\ MarkerOK' /\ CountOK' /\ GuardOK' /\ ConfirmedOK'
  BY <1>1, Unchanged DEF Disarms, files, count, observed
<1>5. Role(o)'
  <2>. Role(o)
    BY DEF TypeInv
  <2>. QED
    BY OpDisarms, FirewallAssumption DEF Disarms, Role, Refused, ArmPc, ConfirmPc, ClearPc,
       OffPc, RehangPc, At, Moved, Ended
<1>6. \A q \in Ops : Role(q)'
  BY <1>2, <1>5, RolesKept DEF TypeInv
<1>. QED
  BY <1>2, <1>3, <1>4, <1>6, TypeParts DEF TypeInv

\* Unrecords keeps the types.
LEMMA TypeUnrecords ==
  ASSUME TypeInv, NEW o \in Ops, Unrecords(o)
  PROVE  TypeInv'
<1>1. FilesOK /\ KernelOK /\ MarkerOK /\ TimerOK /\ CountOK /\ OpOK /\ GuardOK /\ ConfirmedOK
  BY TypeParts DEF TypeInv
<1>2. OpOK' /\ \A q \in Ops : q # o => op'[q] = op[q]
  BY OpUnrecords DEF Others, Moved
<1>3. FilesOK'
  BY <1>1 DEF Unrecords, FilesOK, Document, Family
<1>4. KernelOK' /\ MarkerOK' /\ TimerOK' /\ CountOK' /\ GuardOK' /\ ConfirmedOK'
  BY <1>1, Unchanged DEF Unrecords, files, host, count, observed
<1>5. Role(o)'
  <2>. Role(o)
    BY DEF TypeInv
  <2>. QED
    BY OpUnrecords, FirewallAssumption DEF Unrecords, Role, Refused, ArmPc, ConfirmPc,
       ClearPc, OffPc, RehangPc, At, Moved
<1>6. \A q \in Ops : Role(q)'
  BY <1>2, <1>5, RolesKept DEF TypeInv
<1>. QED
  BY <1>2, <1>3, <1>4, <1>6, TypeParts DEF TypeInv

\* RemovesChains keeps the types.
LEMMA TypeRemovesChains ==
  ASSUME TypeInv, NEW o \in Ops, RemovesChains(o)
  PROVE  TypeInv'
<1>1. FilesOK /\ KernelOK /\ MarkerOK /\ TimerOK /\ CountOK /\ OpOK /\ GuardOK /\ ConfirmedOK
  BY TypeParts DEF TypeInv
<1>2. OpOK' /\ \A q \in Ops : q # o => op'[q] = op[q]
  BY OpRemovesChains DEF Others, Moved
<1>3. KernelOK'
  BY <1>1, LoadsTypes, RemovedTypes DEF RemovesChains, Family, Document, FilesOK
<1>4. FilesOK' /\ MarkerOK' /\ TimerOK' /\ CountOK' /\ GuardOK' /\ ConfirmedOK'
  BY <1>1, Unchanged DEF RemovesChains, files, count
<1>5. Role(o)'
  <2>. Role(o)
    BY DEF TypeInv
  <2>. QED
    BY OpRemovesChains, FirewallAssumption DEF Role, Refused, ArmPc, ConfirmPc, OffPc,
       RehangPc, At, Moved
<1>6. \A q \in Ops : Role(q)'
  BY <1>2, <1>5, RolesKept DEF TypeInv
<1>. QED
  BY <1>2, <1>3, <1>4, <1>6, TypeParts DEF TypeInv

\* DropsDurable keeps the types.
LEMMA TypeDropsDurable ==
  ASSUME TypeInv, NEW o \in Ops, DropsDurable(o)
  PROVE  TypeInv'
<1>1. FilesOK /\ KernelOK /\ MarkerOK /\ TimerOK /\ CountOK /\ OpOK /\ GuardOK /\ ConfirmedOK
  BY TypeParts DEF TypeInv
<1>2. OpOK' /\ \A q \in Ops : q # o => op'[q] = op[q]
  BY OpDropsDurable DEF Others, Moved
<1>3. FilesOK'
  BY <1>1 DEF DropsDurable, FilesOK, Document, Family
<1>4. KernelOK' /\ MarkerOK' /\ TimerOK' /\ CountOK' /\ GuardOK' /\ ConfirmedOK'
  BY <1>1, Unchanged DEF DropsDurable, files, host, count, observed
<1>5. Role(o)'
  <2>. Role(o)
    BY DEF TypeInv
  <2>. QED
    BY OpDropsDurable, FirewallAssumption DEF Role, Refused, ArmPc, ConfirmPc, OffPc,
       RehangPc, At, Moved
<1>6. \A q \in Ops : Role(q)'
  BY <1>2, <1>5, RolesKept DEF TypeInv
<1>. QED
  BY <1>2, <1>3, <1>4, <1>6, TypeParts DEF TypeInv

\* RehangStarts keeps the types.
LEMMA TypeRehangStarts ==
  ASSUME TypeInv, NEW o \in Ops, RehangStarts(o)
  PROVE  TypeInv'
<1>1. FilesOK /\ KernelOK /\ MarkerOK /\ TimerOK /\ CountOK /\ OpOK /\ GuardOK /\ ConfirmedOK
  BY TypeParts DEF TypeInv
<1>2. OpOK' /\ \A q \in Ops : q # o => op'[q] = op[q]
  BY OpRehangStarts DEF Others, Noted
<1>3. FilesOK' /\ KernelOK' /\ MarkerOK' /\ TimerOK' /\ CountOK' /\ GuardOK' /\ ConfirmedOK'
  BY <1>1, Unchanged DEF RehangStarts, files, host, count, observed
<1>4. Role(o)'
  <2>. Role(o)
    BY DEF TypeInv
  <2>. QED
    BY OpRehangStarts, FirewallAssumption DEF RehangStarts, Role, Refused, ArmPc,
       ConfirmPc, ClearPc, OffPc, RehangPc, At, Noted
<1>5. \A q \in Ops : Role(q)'
  BY <1>2, <1>4, RolesKept DEF TypeInv
<1>. QED
  BY <1>2, <1>3, <1>5, TypeParts DEF TypeInv

\* RehangReads keeps the types.
LEMMA TypeRehangReads ==
  ASSUME TypeInv, NEW o \in Ops, RehangReads(o)
  PROVE  TypeInv'
<1>1. FilesOK /\ KernelOK /\ MarkerOK /\ TimerOK /\ CountOK /\ OpOK /\ GuardOK /\ ConfirmedOK
  BY TypeParts DEF TypeInv
<1>2. OpOK' /\ \A q \in Ops : q # o => op'[q] = op[q]
  BY OpRehangReads DEF Others, Read
<1>3. FilesOK' /\ KernelOK' /\ MarkerOK' /\ TimerOK' /\ CountOK' /\ GuardOK' /\ ConfirmedOK'
  BY <1>1, Unchanged DEF RehangReads, files, host, count, observed
<1>4. Role(o)'
  <2>. Role(o)
    BY DEF TypeInv
  <2>. QED
    BY OpRehangReads, FirewallAssumption DEF Role, Refused, ArmPc, ConfirmPc, ClearPc,
       OffPc, RehangPc, At, Read
<1>5. \A q \in Ops : Role(q)'
  BY <1>2, <1>4, RolesKept DEF TypeInv
<1>. QED
  BY <1>2, <1>3, <1>5, TypeParts DEF TypeInv

\* RehangLoads keeps the types.
LEMMA TypeRehangLoads ==
  ASSUME TypeInv, NEW o \in Ops, RehangLoads(o)
  PROVE  TypeInv'
<1>1. FilesOK /\ KernelOK /\ MarkerOK /\ TimerOK /\ CountOK /\ OpOK /\ GuardOK /\ ConfirmedOK
  BY TypeParts DEF TypeInv
<1>2. OpOK' /\ \A q \in Ops : q # o => op'[q] = op[q]
  BY OpRehangLoads DEF Others, Moved, Ended
<1>3. KernelOK'
  <2>1. ASSUME NEW f \in Family, Loads(f, op[o].doc) PROVE KernelOK'
    BY <1>1, <2>1, LoadsTypes, OpFields
  <2>. QED
    BY <1>1, <2>1, Unchanged DEF RehangLoads
<1>4. FilesOK' /\ MarkerOK' /\ TimerOK' /\ CountOK' /\ GuardOK' /\ ConfirmedOK'
  BY <1>1, Unchanged DEF RehangLoads, files, count
<1>5. Role(o)'
  <2>. Role(o)
    BY DEF TypeInv
  <2>. QED
    BY OpRehangLoads, FirewallAssumption DEF Role, Refused, ArmPc, ConfirmPc, ClearPc,
       OffPc, RehangPc, At, Moved, Ended
<1>6. \A q \in Ops : Role(q)'
  BY <1>2, <1>5, RolesKept DEF TypeInv
<1>. QED
  BY <1>2, <1>3, <1>4, <1>6, TypeParts DEF TypeInv

\* WindowEnds keeps the types.
LEMMA TypeWindowEnds ==
  ASSUME TypeInv, NEW o \in Ops, WindowEnds(o)
  PROVE  TypeInv'
<1>1. FilesOK /\ KernelOK /\ MarkerOK /\ TimerOK /\ CountOK /\ OpOK /\ GuardOK /\ ConfirmedOK
  BY TypeParts DEF TypeInv
<1>2. CountOK'
  BY <1>1 DEF WindowEnds, CountOK
<1>3. FilesOK' /\ KernelOK' /\ MarkerOK' /\ TimerOK' /\ OpOK' /\ GuardOK' /\ ConfirmedOK'
  BY <1>1, Unchanged DEF WindowEnds, files, host, count, observed
<1>4. \A q \in Ops : Role(q)'
  BY SameRoles DEF WindowEnds, TypeInv
<1>. QED
  BY <1>2, <1>3, <1>4, TypeParts DEF TypeInv

\* Dies keeps the types.
LEMMA TypeDies ==
  ASSUME TypeInv, NEW o \in Ops, Dies(o)
  PROVE  TypeInv'
<1>1. FilesOK /\ KernelOK /\ MarkerOK /\ TimerOK /\ CountOK /\ OpOK /\ GuardOK /\ ConfirmedOK
  BY TypeParts DEF TypeInv
<1>2. OpOK' /\ \A q \in Ops : q # o => op'[q] = op[q]
  BY OpDies DEF Others
<1>3. CountOK'
  BY <1>1, FirewallAssumption DEF Dies, CountOK
<1>4. FilesOK' /\ KernelOK' /\ MarkerOK' /\ TimerOK' /\ GuardOK' /\ ConfirmedOK'
  BY <1>1, Unchanged DEF Dies, files, host, count, observed
<1>5. Role(o)'
  <2>. Role(o)
    BY DEF TypeInv
  <2>. QED
    BY OpDies, FirewallAssumption DEF Role, ArmPc, ConfirmPc, ClearPc, OffPc, RehangPc
<1>6. \A q \in Ops : Role(q)'
  BY <1>2, <1>5, RolesKept DEF TypeInv
<1>. QED
  BY <1>2, <1>3, <1>4, <1>6, TypeParts DEF TypeInv

\* GuardWakes keeps the types.
LEMMA TypeGuardWakes ==
  ASSUME TypeInv, GuardWakes
  PROVE  TypeInv'
<1>1. FilesOK /\ KernelOK /\ MarkerOK /\ TimerOK /\ CountOK /\ OpOK /\ GuardOK /\ ConfirmedOK
  BY TypeParts DEF TypeInv
<1>2. TimerOK'
  BY <1>1 DEF GuardWakes, TimerOK
<1>3. GuardOK'
  <2>1. marker # NoMarker => marker.digest \in Document
    BY <1>1, MarkerFields DEF MarkerOK, Document
  <2>. QED
    BY <1>1, <2>1 DEF GuardWakes, GuardOK, GuardPc
<1>4. FilesOK' /\ KernelOK' /\ MarkerOK' /\ CountOK' /\ OpOK' /\ ConfirmedOK'
  BY <1>1, Unchanged DEF GuardWakes, files, count, observed
<1>5. \A q \in Ops : Role(q)'
  BY SameRoles DEF GuardWakes, TypeInv
<1>. QED
  BY <1>2, <1>3, <1>4, <1>5, TypeParts DEF TypeInv

\* GuardOpens keeps the types.
LEMMA TypeGuardOpens ==
  ASSUME TypeInv, NEW f \in Family, GuardOpens(f)
  PROVE  TypeInv'
<1>1. FilesOK /\ KernelOK /\ MarkerOK /\ TimerOK /\ CountOK /\ OpOK /\ GuardOK /\ ConfirmedOK
  BY TypeParts DEF TypeInv
<1>2. KernelOK'
  BY <1>1, LoadsTypes, RemovedTypes DEF GuardOpens, Family, Document, FilesOK
<1>3. GuardOK'
  BY <1>1 DEF GuardOpens, GuardOK, GuardPc, GuardAt
<1>4. FilesOK' /\ MarkerOK' /\ TimerOK' /\ CountOK' /\ OpOK' /\ ConfirmedOK'
  BY <1>1, Unchanged DEF GuardOpens, files, count
<1>5. \A q \in Ops : Role(q)'
  BY SameRoles DEF GuardOpens, TypeInv
<1>. QED
  BY <1>2, <1>3, <1>4, <1>5, TypeParts DEF TypeInv

\* GuardRestores keeps the types.
LEMMA TypeGuardRestores ==
  ASSUME TypeInv, NEW f \in Family, GuardRestores(f)
  PROVE  TypeInv'
<1>1. FilesOK /\ KernelOK /\ MarkerOK /\ TimerOK /\ CountOK /\ OpOK /\ GuardOK /\ ConfirmedOK
  BY TypeParts DEF TypeInv
<1>2. KernelOK'
  BY <1>1, LoadsTypes, RemovedTypes DEF GuardRestores, Family, Document, FilesOK
<1>3. GuardOK'
  BY <1>1 DEF GuardRestores, GuardOK, GuardPc, GuardAt
<1>4. FilesOK' /\ MarkerOK' /\ TimerOK' /\ CountOK' /\ OpOK' /\ ConfirmedOK'
  BY <1>1, Unchanged DEF GuardRestores, files, count
<1>5. \A q \in Ops : Role(q)'
  BY SameRoles DEF GuardRestores, TypeInv
<1>. QED
  BY <1>2, <1>3, <1>4, <1>5, TypeParts DEF TypeInv

\* GuardRecords keeps the types.
LEMMA TypeGuardRecords ==
  ASSUME TypeInv, GuardRecords
  PROVE  TypeInv'
<1>1. FilesOK /\ KernelOK /\ MarkerOK /\ TimerOK /\ CountOK /\ OpOK /\ GuardOK /\ ConfirmedOK
  BY TypeParts DEF TypeInv
<1>2. FilesOK'
  BY <1>1 DEF GuardRecords, FilesOK, GuardOK
<1>3. GuardOK'
  BY <1>1 DEF GuardRecords, GuardOK, GuardPc, GuardAt
<1>4. KernelOK' /\ MarkerOK' /\ TimerOK' /\ CountOK' /\ OpOK' /\ ConfirmedOK'
  BY <1>1, Unchanged DEF GuardRecords, files, host, count, observed
<1>5. \A q \in Ops : Role(q)'
  BY SameRoles DEF GuardRecords, TypeInv
<1>. QED
  BY <1>2, <1>3, <1>4, <1>5, TypeParts DEF TypeInv

\* GuardRemovesDocuments keeps the types.
LEMMA TypeGuardRemovesDocuments ==
  ASSUME TypeInv, GuardRemovesDocuments
  PROVE  TypeInv'
<1>1. FilesOK /\ KernelOK /\ MarkerOK /\ TimerOK /\ CountOK /\ OpOK /\ GuardOK /\ ConfirmedOK
  BY TypeParts DEF TypeInv
<1>2. FilesOK'
  BY <1>1 DEF GuardRemovesDocuments, FilesOK, Document, Family, Nothing
<1>3. GuardOK'
  BY <1>1 DEF GuardRemovesDocuments, GuardOK, GuardPc, GuardAt
<1>4. KernelOK' /\ MarkerOK' /\ TimerOK' /\ CountOK' /\ OpOK' /\ ConfirmedOK'
  BY <1>1, Unchanged DEF GuardRemovesDocuments, files, host, count, observed
<1>5. \A q \in Ops : Role(q)'
  BY SameRoles DEF GuardRemovesDocuments, TypeInv
<1>. QED
  BY <1>2, <1>3, <1>4, <1>5, TypeParts DEF TypeInv

\* GuardRemovesMarker keeps the types.
LEMMA TypeGuardRemovesMarker ==
  ASSUME TypeInv, GuardRemovesMarker
  PROVE  TypeInv'
<1>1. FilesOK /\ KernelOK /\ MarkerOK /\ TimerOK /\ CountOK /\ OpOK /\ GuardOK /\ ConfirmedOK
  BY TypeParts DEF TypeInv
<1>2. MarkerOK'
  BY <1>1 DEF GuardRemovesMarker, MarkerOK
<1>3. GuardOK'
  BY <1>1 DEF GuardRemovesMarker, GuardOK, GuardPc, GuardAt
<1>4. FilesOK' /\ KernelOK' /\ TimerOK' /\ CountOK' /\ OpOK' /\ ConfirmedOK'
  BY <1>1, Unchanged DEF GuardRemovesMarker, files, count, observed
<1>5. \A q \in Ops : Role(q)'
  BY SameRoles DEF GuardRemovesMarker, TypeInv
<1>. QED
  BY <1>2, <1>3, <1>4, <1>5, TypeParts DEF TypeInv

\* GuardStopsTimer keeps the types.
LEMMA TypeGuardStopsTimer ==
  ASSUME TypeInv, GuardStopsTimer
  PROVE  TypeInv'
<1>1. FilesOK /\ KernelOK /\ MarkerOK /\ TimerOK /\ CountOK /\ OpOK /\ GuardOK /\ ConfirmedOK
  BY TypeParts DEF TypeInv
<1>2. TimerOK'
  BY <1>1 DEF GuardStopsTimer, TimerOK
<1>3. GuardOK'
  BY <1>1 DEF GuardStopsTimer, GuardOK, GuardPc, Document
<1>4. FilesOK' /\ KernelOK' /\ MarkerOK' /\ CountOK' /\ OpOK' /\ ConfirmedOK'
  BY <1>1, Unchanged DEF GuardStopsTimer, files, count, observed
<1>5. \A q \in Ops : Role(q)'
  BY SameRoles DEF GuardStopsTimer, TypeInv
<1>. QED
  BY <1>2, <1>3, <1>4, <1>5, TypeParts DEF TypeInv

\* After a reboot no operation is under way.
LEMMA OpReboot ==
  ASSUME TypeInv, Reboot
  PROVE  /\ OpOK'
         /\ \A o \in Ops : /\ op'[o].pc \in {"idle", "done", "dead"}
                           /\ op'[o] = op[o] \/ (op'[o].pc = "dead" /\ op'[o].answer = "none")
<1>. OpOK
  BY TypeParts DEF TypeInv
<1>1. [IdleOp EXCEPT !.pc = "dead"] \in OpState /\ [IdleOp EXCEPT !.pc = "dead"].pc = "dead"
      /\ [IdleOp EXCEPT !.pc = "dead"].answer = "none"
  BY IdleFields, Constants DEF OpState
<1>2. op' = [o \in Ops |-> IF o \in UnderWay THEN [IdleOp EXCEPT !.pc = "dead"] ELSE op[o]]
  BY DEF Reboot
<1>. QED
  BY <1>1, <1>2 DEF OpOK, UnderWay

\* Reboot keeps the types.
LEMMA TypeReboot ==
  ASSUME TypeInv, Reboot
  PROVE  TypeInv'
<1>1. FilesOK /\ KernelOK /\ MarkerOK /\ TimerOK /\ CountOK /\ OpOK /\ GuardOK /\ ConfirmedOK
  BY TypeParts DEF TypeInv
<1>2. OpOK'
  BY OpReboot
<1>3. FilesOK'
  BY <1>1 DEF Reboot, FilesOK, Nothing, Family, Document
<1>4. KernelOK'
  BY <1>1 DEF Reboot, KernelOK, FilesOK, Family, Document
<1>5. MarkerOK' /\ TimerOK' /\ ConfirmedOK'
  BY <1>1 DEF Reboot, MarkerOK, TimerOK, ConfirmedOK
<1>6. CountOK'
  BY <1>1, FirewallAssumption DEF Reboot, CountOK
<1>7. GuardOK'
  BY DEF Reboot, GuardOK, GuardPc, Document
<1>8. \A o \in Ops : Role(o)'
  BY OpReboot DEF TypeInv, Role, Refused, ArmPc, ConfirmPc, ClearPc, OffPc, RehangPc
<1>. QED
  BY <1>2, <1>3, <1>4, <1>5, <1>6, <1>7, <1>8, TypeParts DEF TypeInv

\* The initial states are well typed.
LEMMA TypeInit == Init => TypeInv
<1>. SUFFICES ASSUME Init PROVE TypeInv
  OBVIOUS
<1>1. FilesOK /\ KernelOK
  BY DEF Init, FilesOK, KernelOK, Nothing, Document
<1>2. MarkerOK /\ TimerOK /\ ConfirmedOK
  BY DEF Init, MarkerOK, TimerOK, ConfirmedOK
<1>3. CountOK
  BY FirewallAssumption DEF Init, CountOK
<1>4. OpOK /\ \A o \in Ops : op[o] = IdleOp
  BY IdleFields DEF Init, OpOK
<1>5. GuardOK
  BY DEF Init, GuardOK, GuardPc, Document
<1>6. \A o \in Ops : Role(o)
  BY <1>4, IdleFields DEF Role, ArmPc, ConfirmPc, ClearPc, OffPc, RehangPc
<1>. QED
  BY <1>1, <1>2, <1>3, <1>4, <1>5, <1>6, TypeParts DEF TypeInv

\* Every step is a step of one of the operations, of the guard, or a reboot.
LEMMA TypeStep == TypeInv /\ [Next]_vars => TypeInv'
<1>. SUFFICES ASSUME TypeInv, [Next]_vars PROVE TypeInv'
  OBVIOUS
<1>1. CASE UNCHANGED vars
  <2>1. UNCHANGED <<files, count, kernel, provisional, marker, timer, asked, op, guard, confirmed>>
    BY <1>1 DEF vars, host, observed
  <2>. QED
    BY <2>1, TypeParts, Unchanged, SameRoles DEF TypeInv
<1>2. ASSUME NEW o \in Ops, Start(o) \/ WindowEnds(o) \/ Dies(o) PROVE TypeInv'
  BY <1>2, TypeStart, TypeWindowEnds, TypeDies
<1>3. ASSUME NEW o \in Ops, ApplyStep(o) PROVE TypeInv'
  BY <1>3, TypeArmSupersedes, TypeArmStages, TypeArmMarks, TypeArmTimer, TypeLoad4, TypeLoad6,
     TypeRecordReads, TypeRecordWrites6, TypeRecordMarks, TypeVerifies DEF ApplyStep
<1>4. ASSUME NEW o \in Ops, ConfirmStep(o) PROVE TypeInv'
  BY <1>4, TypeConfirmChecks, TypeConfirmReads4, TypePromotes4, TypeForgets6,
     TypeConfirmReads6,
     TypePromotes6 DEF ConfirmStep
<1>5. ASSUME NEW o \in Ops, ClearStep(o) PROVE TypeInv'
  BY <1>5, TypeClearsMarker, TypeClears4, TypeClears6, TypeDisarms, TypeUnrecords
  DEF ClearStep
<1>6. ASSUME NEW o \in Ops, OtherStep(o) PROVE TypeInv'
  BY <1>6, TypeRemovesChains, TypeDropsDurable, TypeRehangStarts, TypeRehangReads,
     TypeRehangLoads DEF OtherStep
<1>7. CASE GuardStep
  BY <1>7, TypeGuardWakes, TypeGuardOpens, TypeGuardRestores, TypeGuardRecords,
     TypeGuardRemovesDocuments, TypeGuardRemovesMarker, TypeGuardStopsTimer DEF GuardStep
<1>8. CASE Reboot
  BY <1>8, TypeReboot
<1>9. CASE Idle
  BY <1>1, <1>9 DEF Idle
<1>. QED
  BY <1>1, <1>2, <1>3, <1>4, <1>5, <1>6, <1>7, <1>8, <1>9 DEF Next, OpStep

\* The documents, the marker, the operations and the guard keep their types, whatever
\* overlaps, is refused, dies or reboots.
THEOREM TypeCorrect == Spec => []TypeOK
<1>1. TypeInv => TypeOK
  BY DEF TypeInv
<1>. QED
  BY <1>1, TypeInit, TypeStep, PTL DEF Spec

(***************************************************************************)
(* One operation at a time, and the guard between them.                    *)
(***************************************************************************)
Resting == {"idle", "done", "dead"}

\* At most one operation is under way, and the guard only when none is.
Alone == /\ \A o, q \in UnderWay : o = q
         /\ UnderWay # {} => guard.pc = "idle"

\* A step of an operation is one that is under way, and leaves the rest to itself.
LEMMA OpSteps ==
  ASSUME TypeInv, NEW o \in Ops, OpStep(o)
  PROVE  o \in UnderWay /\ Others(o) /\ UNCHANGED guard
<1>1. CASE ApplyStep(o)
  <2>1. o \in UnderWay
    BY <1>1 DEF ApplyStep, ArmSupersedes, ArmStages, ArmMarks, ArmTimer, Load4, Load6,
       RecordReads, RecordWrites6, RecordMarks, Verifies, UnderWay, At
  <2>2. UNCHANGED guard
    BY <1>1 DEF ApplyStep, ArmSupersedes, ArmStages, ArmMarks, ArmTimer, Load4, Load6,
       RecordReads, RecordWrites6, RecordMarks, Verifies
  <2>3. Others(o)
    BY <1>1, OpArmSupersedes, OpArmStages, OpArmMarks, OpArmTimer, OpLoad4, OpLoad6,
       OpRecordReads,
       OpRecordWrites6, OpRecordMarks, OpVerifies DEF ApplyStep, Moved, GivesUp, Noted, Ended
  <2>. QED
    BY <2>1, <2>2, <2>3
<1>2. CASE ConfirmStep(o)
  <2>1. o \in UnderWay
    BY <1>2 DEF ConfirmStep, ConfirmChecks, ConfirmReads4, Promotes4, Forgets6,
       ConfirmReads6, Promotes6, UnderWay, At
  <2>2. UNCHANGED guard
    BY <1>2 DEF ConfirmStep, ConfirmChecks, ConfirmReads4, Promotes4, Forgets6,
       ConfirmReads6, Promotes6
  <2>3. Others(o)
    BY <1>2, OpConfirmChecks, OpConfirmReads4, OpPromotes4, OpForgets6, OpConfirmReads6,
       OpPromotes6 DEF ConfirmStep, Moved, Noted, Read, Ended
  <2>. QED
    BY <2>1, <2>2, <2>3
<1>3. CASE ClearStep(o)
  <2>1. o \in UnderWay
    BY <1>3 DEF ClearStep, ClearsMarker, Clears4, Clears6, Disarms, Unrecords, UnderWay, At
  <2>2. UNCHANGED guard
    BY <1>3 DEF ClearStep, ClearsMarker, Clears4, Clears6, Disarms, Unrecords
  <2>3. Others(o)
    BY <1>3, OpClearsMarker, OpClears4, OpClears6, OpDisarms, OpUnrecords
       DEF ClearStep, Moved, Ended
  <2>. QED
    BY <2>1, <2>2, <2>3
<1>4. CASE OtherStep(o)
  <2>1. o \in UnderWay
    BY <1>4 DEF OtherStep, RemovesChains, DropsDurable, RehangStarts, RehangReads,
       RehangLoads, UnderWay, At
  <2>2. UNCHANGED guard
    BY <1>4 DEF OtherStep, RemovesChains, DropsDurable, RehangStarts, RehangReads, RehangLoads
  <2>3. Others(o)
    BY <1>4, OpRemovesChains, OpDropsDurable, OpRehangStarts, OpRehangReads, OpRehangLoads
       DEF OtherStep, Moved, Noted, Read, Ended
  <2>. QED
    BY <2>1, <2>2, <2>3
<1>. QED
  BY <1>1, <1>2, <1>3, <1>4 DEF OpStep

\* While an operation is under way the guard and the other operations rest.
LEMMA Solo ==
  ASSUME Alone, NEW o \in UnderWay, Others(o)
  PROVE  /\ o \in Ops /\ guard.pc = "idle"
         /\ \A q \in Ops : q # o => op[q].pc \in Resting /\ op'[q] = op[q]
BY DEF Alone, UnderWay, Others, Resting

\* The steps of the guard.
LEMMA GuardSteps ==
  ASSUME Alone, ~GuardOverlaps, GuardStep
  PROVE  UnderWay = {} /\ UNCHANGED op
<1>1. GuardWakes => UnderWay = {} /\ UNCHANGED op
  BY DEF GuardWakes
<1>2. ASSUME NEW f \in Family, GuardOpens(f) \/ GuardRestores(f) PROVE UnderWay = {} /\ UNCHANGED op
  BY <1>2 DEF GuardOpens, GuardRestores, GuardAt, Alone
<1>3. GuardRecords \/ GuardRemovesDocuments \/ GuardRemovesMarker \/ GuardStopsTimer =>
        UnderWay = {} /\ UNCHANGED op
  BY DEF GuardRecords, GuardRemovesDocuments, GuardRemovesMarker, GuardStopsTimer, GuardAt,
     Alone
<1>. QED
  BY <1>1, <1>2, <1>3 DEF GuardStep

\* No step puts two operations, or an operation and the guard, to work at once.
LEMMA AloneStep ==
  ASSUME ~OpsOverlap, ~GuardOverlaps, TypeInv, Alone, [Next]_vars
  PROVE  Alone'
<1>1. CASE UNCHANGED vars \/ Idle
  BY <1>1 DEF Alone, UnderWay, vars, Idle
<1>2. ASSUME NEW o \in Ops, Start(o) PROVE Alone'
  <2>1. UnderWay = {} /\ guard.pc = "idle" /\ guard' = guard
    BY <1>2 DEF Start
  <2>2. \A q \in Ops : q # o => op'[q] = op[q]
    BY <1>2, OpStart DEF Others
  <2>. QED
    BY <2>1, <2>2 DEF Alone, UnderWay
<1>3. ASSUME NEW o \in Ops, OpStep(o) \/ Dies(o) PROVE Alone'
  <2>1. o \in UnderWay /\ Others(o) /\ UNCHANGED guard
    BY <1>3, OpSteps, OpDies DEF Dies
  <2>. QED
    BY <2>1, Solo DEF Alone, UnderWay, Resting
<1>4. ASSUME NEW o \in Ops, WindowEnds(o) PROVE Alone'
  BY <1>4 DEF WindowEnds, Alone, UnderWay
<1>5. CASE GuardStep
  BY <1>5, GuardSteps DEF Alone, UnderWay
<1>6. CASE Reboot
  BY <1>6, OpReboot DEF Alone, UnderWay
<1>. QED
  BY <1>1, <1>2, <1>3, <1>4, <1>5, <1>6 DEF Next

\* Nothing is under way at the beginning.
LEMMA AloneInit == Init => Alone
BY IdleFields DEF Init, Alone, UnderWay

(***************************************************************************)
(* Unconfirmed rules are guarded.                                          *)
(***************************************************************************)
\* No ruleset is applied over a pending one, no re-hang, no removal fails.
Plain == ~Reapplies /\ Rehangs = {} /\ "removal" \notin MayRefuse

\* What is provisional is the pending ruleset, with the timer or the guard behind it.
Covered == \A f \in provisional :
  marker # NoMarker /\ kernel[f] = marker.digest /\ (timer \/ Rolling)

\* Where an operation stands, for the marker, the timer and what is provisional.
Guarded(o) ==
  /\ op[o].pc \in {"supersede", "stage", "mark"} => marker = NoMarker
  /\ op[o].pc \in {"arm", "load4"} => provisional = {}
  /\ op[o].pc \in {"arm", "load4", "load6", "reread", "redoc", "remark"} =>
       marker # NoMarker /\ marker.digest = op[o].digest
  /\ op[o].pc \in {"load4", "load6", "reread", "redoc", "remark"} => timer
  /\ op[o].pc \in {"redoc", "remark", "read4", "put4"} => op[o].mark = marker
  /\ op[o].pc \in {"read4", "put4"} => marker # NoMarker /\ marker.digest = op[o].digest
  /\ op[o].pc = "chains6" => 4 \notin provisional
  /\ op[o].pc \in {"forget6", "read6", "put6", "drop4", "drop6"} \cup ClearPc => provisional = {}

\* The rollback takes the provisional rules out family by family.
Undoing ==
  /\ guard.pc \in {"restore4", "open6"} => 4 \notin provisional
  /\ guard.pc \in {"restore6", "record", "undoc", "unmark", "stop"} => provisional = {}

\* The inductive invariant behind UnconfirmedIsGuarded.
GuardedInv == Covered /\ Undoing /\ \A o \in Ops : Guarded(o)

\* An operation at rest asks nothing.
LEMMA RestGuarded ==
  ASSUME NEW o, op[o].pc \in Resting
  PROVE  Guarded(o)
BY DEF Guarded, Resting, ClearPc

\* Enough for the step of an operation.
LEMMA GuardedKept ==
  ASSUME TypeInv, Alone, NEW o \in Ops, OpStep(o), Covered', Guarded(o)'
  PROVE  GuardedInv'
<1>1. o \in UnderWay /\ Others(o) /\ UNCHANGED guard
  BY OpSteps
<1>2. guard'.pc = "idle" /\ \A q \in Ops : q # o => op'[q].pc \in Resting
  BY <1>1, Solo
<1>3. Undoing'
  BY <1>2 DEF Undoing
<1>4. \A q \in Ops : q # o => Guarded(q)'
  BY <1>2 DEF Guarded, Resting, ClearPc
<1>. QED
  BY <1>3, <1>4 DEF GuardedInv

\* ArmSupersedes keeps GuardedInv.
LEMMA GuardedArmSupersedes ==
  ASSUME TypeInv, Plain, Alone, GuardedInv, NEW o \in Ops, ArmSupersedes(o)
  PROVE  GuardedInv'
<1>1. OpStep(o) /\ Guarded(o) /\ Covered /\ Role(o)
  BY DEF GuardedInv, TypeInv, OpStep, ApplyStep
<1>3. Covered'
  BY <1>1 DEF ArmSupersedes, Covered, Rolling, host, observed
<1>4. Guarded(o)'
  BY <1>1, <1>3, OpArmSupersedes DEF ArmSupersedes, At, Guarded, ClearPc, Moved, host
<1>. QED
  BY <1>1, <1>3, <1>4, GuardedKept

\* ArmStages keeps GuardedInv.
LEMMA GuardedArmStages ==
  ASSUME TypeInv, Plain, Alone, GuardedInv, NEW o \in Ops, ArmStages(o)
  PROVE  GuardedInv'
<1>1. OpStep(o) /\ Guarded(o) /\ Covered /\ Role(o)
  BY DEF GuardedInv, TypeInv, OpStep, ApplyStep
<1>3. Covered'
  BY <1>1 DEF ArmStages, Covered, Rolling, host, observed
<1>4. Guarded(o)'
  BY <1>1, <1>3, OpArmStages DEF ArmStages, At, Guarded, ClearPc, Moved, host
<1>. QED
  BY <1>1, <1>3, <1>4, GuardedKept

\* ArmMarks keeps GuardedInv.
LEMMA GuardedArmMarks ==
  ASSUME TypeInv, Plain, Alone, GuardedInv, NEW o \in Ops, ArmMarks(o)
  PROVE  GuardedInv'
<1>1. OpStep(o) /\ Guarded(o) /\ Covered /\ Role(o)
  BY DEF GuardedInv, TypeInv, OpStep, ApplyStep
<1>3. Covered'
  <2>1. provisional = {}
    BY <1>1 DEF ArmMarks, At, Guarded, Covered
  <2>. QED
    BY <2>1 DEF ArmMarks, Covered, observed
<1>4. Guarded(o)'
  <2>1. provisional = {} /\ op[o].digest \in Ruleset
    BY <1>1 DEF ArmMarks, At, Guarded, Covered, Role, ArmPc
  <2>2. marker' # NoMarker /\ marker'.digest = op[o].digest
    BY <1>1, <2>1, MarkerFields DEF ArmMarks, Role, At, ArmPc
  <2>3. provisional' = {} /\ op'[o].pc = "arm" /\ op'[o].digest = op[o].digest
    BY <2>1, OpArmMarks DEF ArmMarks, Moved, Knowing, observed
  <2>. QED
    BY <2>2, <2>3 DEF Guarded, ClearPc
<1>. QED
  BY <1>1, <1>3, <1>4, GuardedKept

\* ArmTimer keeps GuardedInv.
LEMMA GuardedArmTimer ==
  ASSUME TypeInv, Plain, Alone, GuardedInv, NEW o \in Ops, ArmTimer(o)
  PROVE  GuardedInv'
<1>1. OpStep(o) /\ Guarded(o) /\ Covered /\ Role(o)
  BY DEF GuardedInv, TypeInv, OpStep, ApplyStep
<1>3. Covered'
  BY <1>1 DEF ArmTimer, At, Guarded, Covered, observed
<1>4. Guarded(o)'
  BY <1>1, <1>3, OpArmTimer DEF ArmTimer, At, Guarded, Moved, GivesUp, Knowing, observed
<1>. QED
  BY <1>1, <1>3, <1>4, GuardedKept

\* Load4 keeps GuardedInv.
LEMMA GuardedLoad4 ==
  ASSUME TypeInv, Plain, Alone, GuardedInv, NEW o \in Ops, Load4(o)
  PROVE  GuardedInv'
<1>1. OpStep(o) /\ Guarded(o) /\ Covered /\ Role(o)
  BY DEF GuardedInv, TypeInv, OpStep, ApplyStep
<1>3. Covered'
  <2>1. \A f \in provisional' : f = 4
    BY <1>1, TypeParts DEF Load4, At, Guarded, Loads, observed
  <2>2. Loads(4, op[o].digest) => kernel'[4] = op[o].digest
    BY LoadsTypes, OpFields, TypeParts DEF TypeInv, Family
  <2>3. UNCHANGED <<kernel, provisional>> \/ Loads(4, NoRules) => provisional' = {}
    BY <1>1, <2>1 DEF Load4, At, Guarded, Loads
  <2>. QED
    BY <1>1, <2>1, <2>2, <2>3 DEF Load4, At, Guarded, Covered, observed
<1>4. Guarded(o)'
  BY <1>1, <1>3, OpLoad4 DEF Load4, At, Guarded, ClearPc, Moved, GivesUp, Ended, Knowing,
     observed
<1>. QED
  BY <1>1, <1>3, <1>4, GuardedKept

\* Load6 keeps GuardedInv.
LEMMA GuardedLoad6 ==
  ASSUME TypeInv, Plain, Alone, GuardedInv, NEW o \in Ops, Load6(o)
  PROVE  GuardedInv'
<1>1. OpStep(o) /\ Guarded(o) /\ Covered /\ Role(o)
  BY DEF GuardedInv, TypeInv, OpStep, ApplyStep
<1>3. Covered'
  <2>1. ASSUME Loads(6, op[o].digest) PROVE Covered'
    <3>1. /\ kernel'[6] = op[o].digest /\ kernel'[4] = kernel[4]
          /\ 4 \in provisional' => 4 \in provisional
      BY <2>1, LoadsTypes, OpFields, TypeParts DEF TypeInv, Family
    <3>2. provisional' \subseteq {4, 6}
      BY <2>1, TypeParts, LoadsTypes, OpFields DEF TypeInv, KernelOK, Family
    <3>. QED
      BY <1>1, <3>1, <3>2 DEF Load6, At, Guarded, Covered
  <2>2. ASSUME UNCHANGED <<kernel, provisional>> PROVE Covered'
    BY <2>2, <1>1 DEF Load6, Covered, Rolling
  <2>. QED
    BY <2>1, <2>2 DEF Load6
<1>4. Guarded(o)'
  BY <1>1, <1>3, OpLoad6 DEF Load6, At, Guarded, ClearPc
<1>. QED
  BY <1>1, <1>3, <1>4, GuardedKept

\* RecordReads keeps GuardedInv.
LEMMA GuardedRecordReads ==
  ASSUME TypeInv, Plain, Alone, GuardedInv, NEW o \in Ops, RecordReads(o)
  PROVE  GuardedInv'
<1>1. OpStep(o) /\ Guarded(o) /\ Covered /\ Role(o)
  BY DEF GuardedInv, TypeInv, OpStep, ApplyStep
<1>3. Covered'
  BY <1>1 DEF RecordReads, Covered, Rolling, host, observed
<1>4. Guarded(o)'
  BY <1>1, <1>3, OpRecordReads DEF RecordReads, At, Guarded, ClearPc, Noted, host
<1>. QED
  BY <1>1, <1>3, <1>4, GuardedKept

\* RecordWrites6 keeps GuardedInv.
LEMMA GuardedRecordWrites6 ==
  ASSUME TypeInv, Plain, Alone, GuardedInv, NEW o \in Ops, RecordWrites6(o)
  PROVE  GuardedInv'
<1>1. OpStep(o) /\ Guarded(o) /\ Covered /\ Role(o)
  BY DEF GuardedInv, TypeInv, OpStep, ApplyStep
<1>3. Covered'
  BY <1>1 DEF RecordWrites6, Covered, Rolling, host, observed
<1>4. Guarded(o)'
  BY <1>1, <1>3, OpRecordWrites6 DEF RecordWrites6, At, Guarded, ClearPc, Moved, Knowing, host
<1>. QED
  BY <1>1, <1>3, <1>4, GuardedKept

\* RecordMarks keeps GuardedInv.
LEMMA GuardedRecordMarks ==
  ASSUME TypeInv, Plain, Alone, GuardedInv, NEW o \in Ops, RecordMarks(o)
  PROVE  GuardedInv'
<1>1. OpStep(o) /\ Guarded(o) /\ Covered /\ Role(o)
  BY DEF GuardedInv, TypeInv, OpStep, ApplyStep
<1>3. Covered'
  <2>1. op[o].mark \in Marker /\ op[o].v6 \in {"keep", "replace", "forget"}
    BY <1>1, OpFields, TypeParts DEF RecordMarks, At, Guarded, TypeInv
  <2>2. marker' = [op[o].mark EXCEPT !.v6 = op[o].v6] /\ op[o].mark = marker
    BY <1>1 DEF RecordMarks, At, Guarded
  <2>3. marker' \in Marker /\ marker'.digest = marker.digest
    BY <2>1, <2>2, RemarkTypes
  <2>. QED
    BY <1>1, <2>3, MarkerFields DEF RecordMarks, Covered, Rolling, observed
<1>4. Guarded(o)'
  BY <1>1, <1>3, OpRecordMarks DEF Guarded, ClearPc, Moved, Ended
<1>. QED
  BY <1>1, <1>3, <1>4, GuardedKept

\* Verifies keeps GuardedInv.
LEMMA GuardedVerifies ==
  ASSUME TypeInv, Plain, Alone, GuardedInv, NEW o \in Ops, Verifies(o)
  PROVE  GuardedInv'
<1>1. OpStep(o) /\ Guarded(o) /\ Covered /\ Role(o)
  BY DEF GuardedInv, TypeInv, OpStep, ApplyStep
<1>3. Covered'
  BY <1>1 DEF Verifies, Covered, Rolling, host, observed
<1>4. Guarded(o)'
  BY <1>1, <1>3, OpVerifies DEF Guarded, ClearPc, Moved, Ended
<1>. QED
  BY <1>1, <1>3, <1>4, GuardedKept

\* ConfirmChecks keeps GuardedInv.
LEMMA GuardedConfirmChecks ==
  ASSUME TypeInv, Plain, Alone, GuardedInv, NEW o \in Ops, ConfirmChecks(o)
  PROVE  GuardedInv'
<1>1. OpStep(o) /\ Guarded(o) /\ Covered /\ Role(o)
  BY DEF GuardedInv, TypeInv, OpStep, ConfirmStep
<1>3. Covered'
  BY <1>1 DEF ConfirmChecks, Covered, Rolling, observed
<1>4. Guarded(o)'
  BY <1>1, <1>3, OpConfirmChecks DEF ConfirmChecks, Guarded, ClearPc, Noted, Ended
<1>. QED
  BY <1>1, <1>3, <1>4, GuardedKept

\* ConfirmReads4 keeps GuardedInv.
LEMMA GuardedConfirmReads4 ==
  ASSUME TypeInv, Plain, Alone, GuardedInv, NEW o \in Ops, ConfirmReads4(o)
  PROVE  GuardedInv'
<1>1. OpStep(o) /\ Guarded(o) /\ Covered /\ Role(o)
  BY DEF GuardedInv, TypeInv, OpStep, ConfirmStep
<1>3. Covered'
  BY <1>1 DEF ConfirmReads4, Covered, Rolling, host, observed
<1>4. Guarded(o)'
  BY <1>1, <1>3, OpConfirmReads4 DEF ConfirmReads4, At, Guarded, ClearPc, Read, Ended, host
<1>. QED
  BY <1>1, <1>3, <1>4, GuardedKept

\* Promotes4 keeps GuardedInv.
LEMMA GuardedPromotes4 ==
  ASSUME TypeInv, Plain, Alone, GuardedInv, NEW o \in Ops, Promotes4(o)
  PROVE  GuardedInv'
<1>1. OpStep(o) /\ Guarded(o) /\ Covered /\ Role(o)
  BY DEF GuardedInv, TypeInv, OpStep, ConfirmStep
<1>3. Covered' /\ provisional' = {}
  BY <1>1 DEF Promotes4, At, Guarded, Covered
<1>4. Guarded(o)'
  BY <1>1, <1>3, OpPromotes4 DEF Guarded, Moved
<1>. QED
  BY <1>1, <1>3, <1>4, GuardedKept

\* Forgets6 keeps GuardedInv.
LEMMA GuardedForgets6 ==
  ASSUME TypeInv, Plain, Alone, GuardedInv, NEW o \in Ops, Forgets6(o)
  PROVE  GuardedInv'
<1>1. OpStep(o) /\ Guarded(o) /\ Covered /\ Role(o)
  BY DEF GuardedInv, TypeInv, OpStep, ConfirmStep
<1>3. Covered'
  BY <1>1 DEF Forgets6, Covered, Rolling, host, observed
<1>4. Guarded(o)'
  BY <1>1, <1>3, OpForgets6 DEF Forgets6, At, Guarded, Moved, observed
<1>. QED
  BY <1>1, <1>3, <1>4, GuardedKept

\* ConfirmReads6 keeps GuardedInv.
LEMMA GuardedConfirmReads6 ==
  ASSUME TypeInv, Plain, Alone, GuardedInv, NEW o \in Ops, ConfirmReads6(o)
  PROVE  GuardedInv'
<1>1. OpStep(o) /\ Guarded(o) /\ Covered /\ Role(o)
  BY DEF GuardedInv, TypeInv, OpStep, ConfirmStep
<1>3. Covered'
  BY <1>1 DEF ConfirmReads6, Covered, Rolling, host, observed
<1>4. Guarded(o)'
  BY <1>1, <1>3, OpConfirmReads6 DEF ConfirmReads6, At, Guarded, Read, Ended, observed
<1>. QED
  BY <1>1, <1>3, <1>4, GuardedKept

\* Promotes6 keeps GuardedInv.
LEMMA GuardedPromotes6 ==
  ASSUME TypeInv, Plain, Alone, GuardedInv, NEW o \in Ops, Promotes6(o)
  PROVE  GuardedInv'
<1>1. OpStep(o) /\ Guarded(o) /\ Covered /\ Role(o)
  BY DEF GuardedInv, TypeInv, OpStep, ConfirmStep
<1>3. Covered'
  BY <1>1 DEF Promotes6, Covered, Rolling, host, observed
<1>4. Guarded(o)'
  BY <1>1, <1>3, OpPromotes6 DEF Promotes6, At, Guarded, Moved, observed
<1>. QED
  BY <1>1, <1>3, <1>4, GuardedKept

\* ClearsMarker keeps GuardedInv.
LEMMA GuardedClearsMarker ==
  ASSUME TypeInv, Plain, Alone, GuardedInv, NEW o \in Ops, ClearsMarker(o)
  PROVE  GuardedInv'
<1>1. OpStep(o) /\ Guarded(o) /\ Covered /\ Role(o)
  BY DEF GuardedInv, TypeInv, OpStep, ClearStep
<1>3. Covered'
  BY <1>1 DEF ClearsMarker, At, Guarded, ClearPc, Covered, observed
<1>4. Guarded(o)'
  BY <1>1, <1>3, OpClearsMarker DEF ClearsMarker, At, Guarded, ClearPc, Moved, observed
<1>. QED
  BY <1>1, <1>3, <1>4, GuardedKept

\* Clears4 keeps GuardedInv.
LEMMA GuardedClears4 ==
  ASSUME TypeInv, Plain, Alone, GuardedInv, NEW o \in Ops, Clears4(o)
  PROVE  GuardedInv'
<1>1. OpStep(o) /\ Guarded(o) /\ Covered /\ Role(o)
  BY DEF GuardedInv, TypeInv, OpStep, ClearStep
<1>3. Covered'
  BY <1>1 DEF Clears4, Covered, Rolling, host, observed
<1>4. Guarded(o)'
  BY <1>1, <1>3, OpClears4 DEF Clears4, At, Guarded, ClearPc, Moved, observed
<1>. QED
  BY <1>1, <1>3, <1>4, GuardedKept

\* Clears6 keeps GuardedInv.
LEMMA GuardedClears6 ==
  ASSUME TypeInv, Plain, Alone, GuardedInv, NEW o \in Ops, Clears6(o)
  PROVE  GuardedInv'
<1>1. OpStep(o) /\ Guarded(o) /\ Covered /\ Role(o)
  BY DEF GuardedInv, TypeInv, OpStep, ClearStep
<1>3. Covered'
  BY <1>1 DEF Clears6, Covered, Rolling, host, observed
<1>4. Guarded(o)'
  BY <1>1, <1>3, OpClears6 DEF Clears6, At, Guarded, ClearPc, Moved, Ended, observed
<1>. QED
  BY <1>1, <1>3, <1>4, GuardedKept

\* Disarms keeps GuardedInv.
LEMMA GuardedDisarms ==
  ASSUME TypeInv, Plain, Alone, GuardedInv, NEW o \in Ops, Disarms(o)
  PROVE  GuardedInv'
<1>1. OpStep(o) /\ Guarded(o) /\ Covered /\ Role(o)
  BY DEF GuardedInv, TypeInv, OpStep, ClearStep
<1>3. Covered'
  BY <1>1 DEF Disarms, At, Guarded, ClearPc, Covered, observed
<1>4. Guarded(o)'
  BY <1>1, <1>3, OpDisarms DEF Disarms, At, Guarded, ClearPc, Moved, Ended, observed
<1>. QED
  BY <1>1, <1>3, <1>4, GuardedKept

\* Unrecords keeps GuardedInv.
LEMMA GuardedUnrecords ==
  ASSUME TypeInv, Plain, Alone, GuardedInv, NEW o \in Ops, Unrecords(o)
  PROVE  GuardedInv'
<1>1. OpStep(o) /\ Guarded(o) /\ Covered /\ Role(o)
  BY DEF GuardedInv, TypeInv, OpStep, ClearStep
<1>3. Covered'
  BY <1>1 DEF Unrecords, Covered, Rolling, host, observed
<1>4. Guarded(o)'
  BY <1>1, <1>3, OpUnrecords DEF Unrecords, At, Guarded, ClearPc, Moved, observed
<1>. QED
  BY <1>1, <1>3, <1>4, GuardedKept

\* RemovesChains keeps GuardedInv.
LEMMA GuardedRemovesChains ==
  ASSUME TypeInv, Plain, Alone, GuardedInv, NEW o \in Ops, RemovesChains(o)
  PROVE  GuardedInv'
<1>1. OpStep(o) /\ Guarded(o) /\ Covered /\ Role(o)
  BY DEF GuardedInv, TypeInv, OpStep, OtherStep
<1>3. Covered' /\ (At(o, "chains6") => provisional' = {}) /\ (At(o, "chains4") => 4 \notin provisional')
  <2>1. PICK f \in Family : /\ Loads(f, NoRules)
                            /\ (f = 4 /\ At(o, "chains4")) \/ (f = 6 /\ At(o, "chains6"))
    BY DEF RemovesChains, Removed, Plain
  <2>2. /\ f \notin provisional' /\ provisional' \subseteq {4, 6}
        /\ \A g \in Family : g # f => kernel'[g] = kernel[g] /\ (g \in provisional' => g \in provisional)
    BY <2>1, LoadsTypes, TypeParts DEF TypeInv, KernelOK, Family, Document
  <2>. QED
    BY <1>1, <2>1, <2>2 DEF RemovesChains, At, Covered, Guarded, Rolling, Family
<1>4. Guarded(o)'
  BY <1>1, <1>3, OpRemovesChains DEF Guarded, ClearPc, Moved
<1>. QED
  BY <1>1, <1>3, <1>4, GuardedKept

\* DropsDurable keeps GuardedInv.
LEMMA GuardedDropsDurable ==
  ASSUME TypeInv, Plain, Alone, GuardedInv, NEW o \in Ops, DropsDurable(o)
  PROVE  GuardedInv'
<1>1. OpStep(o) /\ Guarded(o) /\ Covered /\ Role(o)
  BY DEF GuardedInv, TypeInv, OpStep, OtherStep
<1>3. Covered'
  BY <1>1 DEF DropsDurable, Covered, Rolling, host, observed
<1>4. Guarded(o)'
  BY <1>1, <1>3, OpDropsDurable DEF DropsDurable, At, Guarded, Moved, observed
<1>. QED
  BY <1>1, <1>3, <1>4, GuardedKept

\* The guard takes the rules out before it gives up the marker and its timer.
LEMMA GuardedGuard ==
  ASSUME TypeInv, Plain, ~GuardOverlaps, Alone, GuardedInv, GuardStep
  PROVE  GuardedInv'
<1>1. UnderWay = {} /\ UNCHANGED op
  BY GuardSteps
<1>2. \A o \in Ops : Guarded(o)'
  BY <1>1 DEF UnderWay, Guarded, ClearPc
<1>3. Covered /\ Undoing /\ KernelOK /\ FilesOK /\ GuardOK
  BY TypeParts DEF GuardedInv, TypeInv
<1>4. GuardWakes => Covered' /\ Undoing'
  BY <1>3 DEF GuardWakes, Covered, Undoing, Rolling, observed
<1>5. ASSUME NEW f \in Family, GuardOpens(f) PROVE Covered' /\ Undoing'
  <2>1. Loads(f, NoRules)
    BY <1>5 DEF GuardOpens, Removed, Plain
  <2>2. /\ f \notin provisional' /\ provisional' \subseteq {4, 6}
        /\ \A g \in Family : g # f => kernel'[g] = kernel[g] /\ (g \in provisional' => g \in provisional)
    BY <1>3, <2>1, LoadsTypes DEF KernelOK, Family, Document
  <2>. QED
    BY <1>3, <1>5, <2>2 DEF GuardOpens, GuardAt, GuardOK, Covered, Undoing, Rolling, Family
<1>6. ASSUME NEW f \in Family, GuardRestores(f) PROVE Covered' /\ Undoing'
  <2>1. PICK doc \in {durable[f], NoRules} : Loads(f, doc)
    BY <1>6 DEF GuardRestores, Removed, Plain
  <2>2. f \notin provisional'
    BY <2>1 DEF Loads
  <2>3. /\ provisional' \subseteq {4, 6}
        /\ \A g \in Family : g # f => kernel'[g] = kernel[g] /\ (g \in provisional' => g \in provisional)
    BY <1>3, <2>1, LoadsTypes DEF KernelOK, FilesOK, Family, Document
  <2>. QED
    BY <1>3, <1>6, <2>2, <2>3 DEF GuardRestores, GuardAt, GuardOK, Covered, Undoing,
       Rolling, Family
<1>7. GuardRecords \/ GuardRemovesDocuments => Covered' /\ Undoing'
  BY <1>3 DEF GuardRecords, GuardRemovesDocuments, GuardAt, Covered, Undoing, observed
<1>8. GuardRemovesMarker \/ GuardStopsTimer => Covered' /\ Undoing'
  BY <1>3 DEF GuardRemovesMarker, GuardStopsTimer, GuardAt, Covered, Undoing, observed
<1>. QED
  BY <1>2, <1>4, <1>5, <1>6, <1>7, <1>8 DEF GuardStep, GuardedInv

\* No step breaks GuardedInv.
LEMMA GuardedStep ==
  ASSUME ~OpsOverlap, ~GuardOverlaps, Plain, TypeInv, Alone, GuardedInv, [Next]_vars
  PROVE  GuardedInv'
<1>1. CASE UNCHANGED vars \/ Idle
  BY <1>1 DEF GuardedInv, Covered, Undoing, Guarded, Rolling, vars, host, observed, Idle
<1>2. ASSUME NEW o \in Ops, Start(o) PROVE GuardedInv'
  <2>1. Covered' /\ Undoing'
    BY <1>2 DEF Start, GuardedInv, Covered, Undoing, Rolling, host, observed
  <2>2. Guarded(o)'
    BY <1>2, OpStart, FirewallAssumption DEF Start, Plain, Guarded, ClearPc, host
  <2>3. \A q \in Ops : q # o => Guarded(q)'
    BY <1>2, OpStart DEF Start, Others, GuardedInv, Guarded, host, observed
  <2>. QED
    BY <2>1, <2>2, <2>3 DEF GuardedInv
<1>3. ASSUME NEW o \in Ops, WindowEnds(o) PROVE GuardedInv'
  BY <1>3 DEF WindowEnds, GuardedInv, Covered, Undoing, Guarded, Rolling, host, observed
<1>4. ASSUME NEW o \in Ops, Dies(o) PROVE GuardedInv'
  <2>1. Covered' /\ Undoing'
    BY <1>4 DEF Dies, GuardedInv, Covered, Undoing, Rolling, host, observed
  <2>2. Guarded(o)'
    BY <1>4, OpDies DEF Guarded, ClearPc
  <2>3. \A q \in Ops : q # o => Guarded(q)'
    BY <1>4, OpDies DEF Dies, Others, GuardedInv, Guarded, host, observed
  <2>. QED
    BY <2>1, <2>2, <2>3 DEF GuardedInv
<1>5. ASSUME NEW o \in Ops, ApplyStep(o) PROVE GuardedInv'
  BY <1>5, GuardedArmSupersedes, GuardedArmStages, GuardedArmMarks, GuardedArmTimer,
     GuardedLoad4,
     GuardedLoad6, GuardedRecordReads, GuardedRecordWrites6, GuardedRecordMarks, GuardedVerifies
     DEF ApplyStep
<1>6. ASSUME NEW o \in Ops, ConfirmStep(o) PROVE GuardedInv'
  BY <1>6, GuardedConfirmChecks, GuardedConfirmReads4, GuardedPromotes4, GuardedForgets6,
     GuardedConfirmReads6, GuardedPromotes6 DEF ConfirmStep
<1>7. ASSUME NEW o \in Ops, ClearStep(o) PROVE GuardedInv'
  BY <1>7, GuardedClearsMarker, GuardedClears4, GuardedClears6, GuardedDisarms,
     GuardedUnrecords
     DEF ClearStep
<1>8. ASSUME NEW o \in Ops, OtherStep(o) PROVE GuardedInv'
  <2>1. ~(RehangStarts(o) \/ RehangReads(o) \/ RehangLoads(o))
    BY DEF TypeInv, Role, RehangPc, Plain, RehangStarts, RehangReads, RehangLoads, At
  <2>. QED
    BY <1>8, <2>1, GuardedRemovesChains, GuardedDropsDurable DEF OtherStep
<1>9. CASE GuardStep
  BY <1>9, GuardedGuard
<1>10. CASE Reboot
  <2>1. provisional' = {} /\ \A o \in Ops : op'[o].pc \in Resting
    BY <1>10, OpReboot DEF Reboot, Resting
  <2>. QED
    BY <2>1 DEF GuardedInv, Covered, Undoing, Guarded, Resting
<1>. QED
  BY <1>1, <1>2, <1>3, <1>4, <1>5, <1>6, <1>7, <1>8, <1>9, <1>10 DEF Next, OpStep

\* "The guard is armed before any rule is loaded": rules that nobody confirmed are in
\* force only with the marker on disk and the timer active or the rollback under way,
\* for any number of operations one after the other, cut off anywhere, and any reboots
\* (armPendingFirewall, loadStagedRuleset, tp-firewall-guard).
THEOREM UnconfirmedRulesGuarded ==
  ASSUME ~OpsOverlap, ~GuardOverlaps, Plain
  PROVE  Spec => []UnconfirmedIsGuarded
<1>. DEFINE Inv == TypeInv /\ Alone /\ GuardedInv
<1>1. Init => Inv
  <2>1. Init => GuardedInv
    BY IdleFields DEF Init, GuardedInv, Covered, Undoing, Guarded
  <2>. QED
    BY <2>1, TypeInit, AloneInit
<1>2. Inv /\ [Next]_vars => Inv'
  BY TypeStep, AloneStep, GuardedStep
<1>3. Inv => UnconfirmedIsGuarded
  BY DEF GuardedInv, Covered, UnconfirmedIsGuarded
<1>. QED
  BY <1>1, <1>2, <1>3, PTL DEF Spec

(***************************************************************************)
(* A confirm promotes the ruleset it names.                                *)
(***************************************************************************)
\* With the operation under way at p: the staged documents are those of the ruleset the
\* marker names ...
Staged(p) ==
  marker # NoMarker =>
    /\ p # "mark" => pending[4] = marker.digest
    /\ p \notin {"stage", "mark"} /\ marker.v6 = "replace" => pending[6] = marker.digest

\* The operations that have failed.
Failures == {o \in Ops : op[o].pc = "done" /\ op[o].answer = "failed"}

\* ... that ruleset is in force, unless it is not yet loaded or being taken out, or the
\* apply that loaded it failed to hang the jump to it ...
InForce(p) ==
  marker # NoMarker /\ p \notin {"arm", "load4", "chains6", "drop4", "drop6", "clear"} =>
    kernel[4] = marker.digest \/ marker.by \in Failures

\* ... it was not rolled back, and is promoted only by the operation itself.
Unrecorded(p) ==
  marker # NoMarker =>
    /\ record = NoRules
    /\ p \notin {"arm", "load4", "clear", "forget6", "read6", "put6"} =>
         marker.digest \notin confirmed

\* The three together, for an operation at p.
Known(p) == Staged(p) /\ InForce(p) /\ Unrecorded(p)

\* The operation has promoted its ruleset and is clearing up.
Promoted(o) == /\ o \notin Offs /\ op[o].answer = "none"
               /\ op[o].pc \in {"forget6", "read6", "put6"} \cup ClearPc

\* What an operation under way knows.
Knows(o) ==
  /\ Known(op[o].pc)
  /\ op[o].pc \in {"stage", "mark"} => record = NoRules
  /\ op[o].pc = "mark" => pending[4] = op[o].digest
  /\ op[o].pc \in {"arm", "load4", "load6", "reread", "redoc", "remark"} =>
       marker # NoMarker /\ marker.digest = op[o].digest /\ marker.v6 = "keep"
  /\ op[o].pc \in {"redoc", "remark", "read4", "put4", "forget6", "read6", "put6"} =>
       op[o].mark = marker
  /\ op[o].pc \in {"arm", "load4"} => marker.by = o
  /\ op[o].pc = "remark" => (op[o].v6 = "replace" => pending[6] = op[o].digest)
  /\ op[o].pc \in {"read4", "put4", "forget6", "read6", "put6"} =>
       marker # NoMarker /\ marker.digest = op[o].digest
  /\ op[o].pc \in {"read6", "put6"} => marker.v6 = "replace"
  /\ op[o].pc \in {"put4", "put6"} => op[o].doc = op[o].digest
  /\ Promoted(o) => /\ durable[4] = op[o].digest
                    /\ kernel[4] = op[o].digest \/ op[o].mark.by \in Failures
  /\ Promoted(o) /\ op[o].pc = "clear" => op[o].mark = marker
  /\ op[o].pc \in ClearPc \ {"clear"} => marker = NoMarker
  /\ op[o].pc \in {"doc4", "hang4", "doc6", "hang6"} => op[o].mark = marker
  /\ op[o].pc = "hang4" /\ marker # NoMarker => op[o].doc = marker.digest

\* What holds between operations, with the guard asleep or at work.
Settled ==
  /\ guard.pc = "idle" => Known("idle")
  /\ Rolling => /\ marker # NoMarker /\ guard.digest = marker.digest
                /\ marker.digest \notin confirmed
  /\ guard.pc = "stop" => marker = NoMarker

\* The inductive invariant behind the three.
PromoteInv == /\ RollbackRecordIsTrue
              /\ UnderWay = {} => Settled
              /\ \A o \in UnderWay : Knows(o)

\* Enough for the step of an operation.
LEMMA PromoteKept ==
  ASSUME TypeInv, Alone, NEW o \in Ops, OpStep(o), RollbackRecordIsTrue',
         op'[o].pc \in Resting => Known("idle")',
         op'[o].pc \notin Resting => Knows(o)'
  PROVE  PromoteInv'
<1>1. o \in UnderWay /\ Others(o) /\ UNCHANGED guard
  BY OpSteps
<1>2. guard'.pc = "idle" /\ \A q \in Ops : q # o => op'[q].pc \in Resting
  BY <1>1, Solo
<1>3. CASE op'[o].pc \in Resting
  <2>1. UnderWay' = {}
    BY <1>2, <1>3 DEF UnderWay, Resting
  <2>. QED
    BY <1>2, <1>3, <2>1 DEF PromoteInv, Settled, Rolling
<1>4. CASE op'[o].pc \notin Resting
  <2>1. UnderWay' = {o}
    BY <1>2, <1>4 DEF UnderWay, Resting
  <2>. QED
    BY <1>4, <2>1 DEF PromoteInv
<1>. QED
  BY <1>3, <1>4

\* An operation that has failed takes no more steps.
LEMMA FailuresStay ==
  ASSUME TypeInv, NEW o \in Ops, OpStep(o)
  PROVE  Failures \subseteq Failures'
BY OpSteps DEF Failures, UnderWay, Others

\* ArmSupersedes keeps PromoteInv.
LEMMA PromoteArmSupersedes ==
  ASSUME TypeInv, Alone, PromoteInv, NEW o \in Ops, ArmSupersedes(o)
  PROVE  PromoteInv'
<1>1. OpStep(o) /\ Role(o) /\ RollbackRecordIsTrue
  BY DEF PromoteInv, TypeInv, OpStep, ApplyStep
<1>2. Knows(o)
  BY <1>1, OpSteps DEF PromoteInv
<1>3. FilesOK /\ KernelOK /\ MarkerOK /\ ConfirmedOK
  BY TypeParts DEF TypeInv
<1>6. Failures \subseteq Failures'
  BY <1>1, FailuresStay
<1>7. RollbackRecordIsTrue'
  BY <1>3, FirewallAssumption DEF ArmSupersedes, RollbackRecordIsTrue, ConfirmedOK, observed
<1>8. op'[o].pc \in Resting => Known("idle")'
  BY <1>2, <1>3, <1>6, OpArmSupersedes DEF Resting, Moved
<1>9. op'[o].pc \notin Resting => Knows(o)'
  BY <1>1, <1>2, <1>3, <1>6, OpArmSupersedes DEF ArmSupersedes, At, Knows, Known, Staged,
     InForce, Unrecorded, Promoted, ClearPc, Moved, host, observed
<1>. QED
  BY <1>1, <1>7, <1>8, <1>9, PromoteKept

\* ArmStages keeps PromoteInv.
LEMMA PromoteArmStages ==
  ASSUME TypeInv, Alone, PromoteInv, NEW o \in Ops, ArmStages(o)
  PROVE  PromoteInv'
<1>1. OpStep(o) /\ Role(o) /\ RollbackRecordIsTrue
  BY DEF PromoteInv, TypeInv, OpStep, ApplyStep
<1>2. Knows(o)
  BY <1>1, OpSteps DEF PromoteInv
<1>3. FilesOK /\ KernelOK /\ MarkerOK /\ ConfirmedOK
  BY TypeParts DEF TypeInv
<1>6. Failures \subseteq Failures'
  BY <1>1, FailuresStay
<1>7. RollbackRecordIsTrue'
  BY <1>1 DEF ArmStages, RollbackRecordIsTrue, observed
<1>8. op'[o].pc \in Resting => Known("idle")'
  BY <1>2, <1>3, <1>6, OpArmStages DEF Resting, Moved
<1>9. op'[o].pc \notin Resting => Knows(o)'
  BY <1>1, <1>2, <1>3, <1>6, OpArmStages DEF ArmStages, At, Knows, Known, Staged, InForce,
     Unrecorded, Promoted, ClearPc, Moved, Knowing, host, observed, FilesOK, Family
<1>. QED
  BY <1>1, <1>7, <1>8, <1>9, PromoteKept

\* ArmMarks keeps PromoteInv.
LEMMA PromoteArmMarks ==
  ASSUME TypeInv, Alone, PromoteInv, NEW o \in Ops, ArmMarks(o)
  PROVE  PromoteInv'
<1>1. OpStep(o) /\ Role(o) /\ RollbackRecordIsTrue
  BY DEF PromoteInv, TypeInv, OpStep, ApplyStep
<1>2. Knows(o)
  BY <1>1, OpSteps DEF PromoteInv
<1>3. FilesOK /\ KernelOK /\ MarkerOK /\ ConfirmedOK
  BY TypeParts DEF TypeInv
<1>6. Failures \subseteq Failures'
  BY <1>1, FailuresStay
<1>4. marker' # NoMarker /\ marker'.digest = op[o].digest /\ marker'.v6 = "keep"
  BY <1>1, MarkerFields DEF ArmMarks, Role, At, ArmPc
<1>7. RollbackRecordIsTrue'
  BY <1>1 DEF ArmMarks, RollbackRecordIsTrue, files, observed
<1>8. op'[o].pc \in Resting => Known("idle")'
  BY <1>2, <1>3, <1>6, OpArmMarks, <1>4 DEF Resting, Moved
<1>9. op'[o].pc \notin Resting => Knows(o)'
  BY <1>1, <1>2, <1>3, <1>6, OpArmMarks, <1>4 DEF ArmMarks, At, Knows, Known, Staged, InForce,
     Unrecorded, Promoted, ClearPc, Moved, Knowing, files
<1>. QED
  BY <1>1, <1>7, <1>8, <1>9, PromoteKept

\* ArmTimer keeps PromoteInv.
LEMMA PromoteArmTimer ==
  ASSUME TypeInv, Alone, PromoteInv, NEW o \in Ops, ArmTimer(o)
  PROVE  PromoteInv'
<1>1. OpStep(o) /\ Role(o) /\ RollbackRecordIsTrue
  BY DEF PromoteInv, TypeInv, OpStep, ApplyStep
<1>2. Knows(o)
  BY <1>1, OpSteps DEF PromoteInv
<1>3. FilesOK /\ KernelOK /\ MarkerOK /\ ConfirmedOK
  BY TypeParts DEF TypeInv
<1>6. Failures \subseteq Failures'
  BY <1>1, FailuresStay
<1>7. RollbackRecordIsTrue'
  BY <1>1 DEF ArmTimer, RollbackRecordIsTrue, files, observed
<1>8. op'[o].pc \in Resting => Known("idle")'
  BY <1>2, <1>3, <1>6, OpArmTimer DEF ArmTimer, Resting, Moved, GivesUp
<1>9. op'[o].pc \notin Resting => Knows(o)'
  BY <1>1, <1>2, <1>3, <1>6, OpArmTimer DEF ArmTimer, At, Knows, Known, Staged, InForce,
     Unrecorded, Promoted, ClearPc, Moved, GivesUp, Knowing, files
<1>. QED
  BY <1>1, <1>7, <1>8, <1>9, PromoteKept

\* Load4 keeps PromoteInv.
LEMMA PromoteLoad4 ==
  ASSUME TypeInv, Alone, PromoteInv, NEW o \in Ops, Load4(o)
  PROVE  PromoteInv'
<1>1. OpStep(o) /\ Role(o) /\ RollbackRecordIsTrue
  BY DEF PromoteInv, TypeInv, OpStep, ApplyStep
<1>2. Knows(o)
  BY <1>1, OpSteps DEF PromoteInv
<1>3. FilesOK /\ KernelOK /\ MarkerOK /\ ConfirmedOK
  BY TypeParts DEF TypeInv
<1>6. Failures \subseteq Failures'
  BY <1>1, FailuresStay
<1>4. Loads(4, op[o].digest) => /\ kernel'[4] = op[o].digest
                                   /\ kernel'[6] = kernel[6]
  BY LoadsTypes, OpFields, TypeParts DEF TypeInv, Family
<1>5. op'[o].pc = "done" /\ op'[o].answer = "failed" => o \in Failures'
  BY DEF Failures
<1>7. RollbackRecordIsTrue'
  BY <1>1 DEF Load4, RollbackRecordIsTrue, files, observed
<1>8. /\ op[o].pc = "load4" /\ UNCHANGED <<durable, pending, record, marker>>
      /\ marker # NoMarker /\ marker.by = o /\ marker.digest = op[o].digest
  BY <1>2 DEF Load4, At, Knows, files
<1>9. op'[o].pc \in Resting => Known("idle")'
  <2>. SUFFICES ASSUME op'[o].pc \in Resting PROVE Known("idle")'
    OBVIOUS
  <2>1. op'[o].pc = "done" /\ op'[o].answer = "failed" /\ confirmed' = confirmed \ {op[o].digest}
    BY OpLoad4 DEF Moved, GivesUp, Ended, Resting
  <2>. QED
    BY <1>2, <1>5, <1>8, <2>1 DEF Knows, Known, Staged, InForce, Unrecorded
<1>10. op'[o].pc \notin Resting => Knows(o)'
  <2>. SUFFICES ASSUME op'[o].pc \notin Resting PROVE Knows(o)'
    OBVIOUS
  <2>1. CASE Loads(4, op[o].digest) /\ confirmed' = confirmed \ {op[o].digest} /\ Moved(o, "load6")
    BY <1>1, <1>2, <1>4, <1>8, <2>1 DEF Knows, Known, Staged, InForce, Unrecorded, Promoted,
       ClearPc, Moved, Knowing
  <2>2. CASE UNCHANGED <<kernel, observed>> /\ GivesUp(o, "failed")
    BY <1>1, <1>2, <1>8, <2>2 DEF Knows, Known, Staged, InForce, Unrecorded, Promoted,
       ClearPc, GivesUp, Knowing, observed
  <2>. QED
    BY <2>1, <2>2, OpLoad4 DEF Ended, Resting
<1>. QED
  BY <1>1, <1>7, <1>9, <1>10, PromoteKept

\* Load6 keeps PromoteInv.
LEMMA PromoteLoad6 ==
  ASSUME TypeInv, Alone, PromoteInv, NEW o \in Ops, Load6(o)
  PROVE  PromoteInv'
<1>1. OpStep(o) /\ Role(o) /\ RollbackRecordIsTrue
  BY DEF PromoteInv, TypeInv, OpStep, ApplyStep
<1>2. Knows(o)
  BY <1>1, OpSteps DEF PromoteInv
<1>3. FilesOK /\ KernelOK /\ MarkerOK /\ ConfirmedOK
  BY TypeParts DEF TypeInv
<1>6. Failures \subseteq Failures'
  BY <1>1, FailuresStay
<1>4. Loads(6, op[o].digest) => /\ kernel'[6] = op[o].digest
                                   /\ kernel'[4] = kernel[4]
  BY LoadsTypes, OpFields, TypeParts DEF TypeInv, Family
<1>7. RollbackRecordIsTrue'
  BY <1>1 DEF Load6, RollbackRecordIsTrue, files
<1>8. op'[o].pc \in Resting => Known("idle")'
  BY <1>2, <1>3, <1>6, OpLoad6, <1>4 DEF Resting
<1>9. op'[o].pc \notin Resting => Knows(o)'
  BY <1>1, <1>2, <1>3, <1>6, OpLoad6, <1>4 DEF Load6, At, Knows, Known, Staged, InForce,
     Unrecorded, Promoted, ClearPc, files
<1>. QED
  BY <1>1, <1>7, <1>8, <1>9, PromoteKept

\* RecordReads keeps PromoteInv.
LEMMA PromoteRecordReads ==
  ASSUME TypeInv, Alone, PromoteInv, NEW o \in Ops, RecordReads(o)
  PROVE  PromoteInv'
<1>1. OpStep(o) /\ Role(o) /\ RollbackRecordIsTrue
  BY DEF PromoteInv, TypeInv, OpStep, ApplyStep
<1>2. Knows(o)
  BY <1>1, OpSteps DEF PromoteInv
<1>3. FilesOK /\ KernelOK /\ MarkerOK /\ ConfirmedOK
  BY TypeParts DEF TypeInv
<1>6. Failures \subseteq Failures'
  BY <1>1, FailuresStay
<1>7. RollbackRecordIsTrue'
  BY <1>1 DEF RecordReads, RollbackRecordIsTrue, files, observed
<1>8. op'[o].pc \in Resting => Known("idle")'
  BY <1>2, <1>3, <1>6, OpRecordReads DEF RecordReads, At, Knows, Resting, Noted
<1>9. op'[o].pc \notin Resting => Knows(o)'
  BY <1>1, <1>2, <1>3, <1>6, OpRecordReads DEF RecordReads, At, Knows, Known, Staged, InForce,
     Unrecorded, Promoted, ClearPc, Noted, files, host, observed
<1>. QED
  BY <1>1, <1>7, <1>8, <1>9, PromoteKept

\* RecordWrites6 keeps PromoteInv.
LEMMA PromoteRecordWrites6 ==
  ASSUME TypeInv, Alone, PromoteInv, NEW o \in Ops, RecordWrites6(o)
  PROVE  PromoteInv'
<1>1. OpStep(o) /\ Role(o) /\ RollbackRecordIsTrue
  BY DEF PromoteInv, TypeInv, OpStep, ApplyStep
<1>2. Knows(o)
  BY <1>1, OpSteps DEF PromoteInv
<1>3. FilesOK /\ KernelOK /\ MarkerOK /\ ConfirmedOK
  BY TypeParts DEF TypeInv
<1>6. Failures \subseteq Failures'
  BY <1>1, FailuresStay
<1>4. /\ pending'[4] = pending[4]
      /\ op[o].v6 = "replace" => pending'[6] = op[o].digest
  BY <1>3 DEF RecordWrites6, FilesOK, Family
<1>7. RollbackRecordIsTrue'
  BY <1>1 DEF RecordWrites6, RollbackRecordIsTrue, observed
<1>8. op'[o].pc \in Resting => Known("idle")'
  BY <1>2, <1>3, <1>6, OpRecordWrites6, <1>4 DEF Resting, Moved
<1>9. op'[o].pc \notin Resting => Knows(o)'
  BY <1>1, <1>2, <1>3, <1>6, OpRecordWrites6, <1>4 DEF RecordWrites6, At, Knows, Known, Staged,
     InForce, Unrecorded, Promoted, ClearPc, Moved, Knowing, host, observed
<1>. QED
  BY <1>1, <1>7, <1>8, <1>9, PromoteKept

\* RecordMarks keeps PromoteInv.
LEMMA PromoteRecordMarks ==
  ASSUME TypeInv, Alone, PromoteInv, NEW o \in Ops, RecordMarks(o)
  PROVE  PromoteInv'
<1>1. OpStep(o) /\ Role(o) /\ RollbackRecordIsTrue
  BY DEF PromoteInv, TypeInv, OpStep, ApplyStep
<1>2. Knows(o)
  BY <1>1, OpSteps DEF PromoteInv
<1>3. FilesOK /\ KernelOK /\ MarkerOK /\ ConfirmedOK
  BY TypeParts DEF TypeInv
<1>6. Failures \subseteq Failures'
  BY <1>1, FailuresStay
<1>4. marker' # NoMarker /\ marker'.digest = op[o].digest /\ marker'.v6 = op[o].v6
  <2>1. op[o].mark \in Marker /\ op[o].v6 \in {"keep", "replace", "forget"}
    BY <1>2, OpFields, TypeParts DEF RecordMarks, At, Knows, TypeInv
  <2>2. marker' = [op[o].mark EXCEPT !.v6 = op[o].v6]
    BY DEF RecordMarks
  <2>3. op[o].mark.digest = op[o].digest
    BY <1>2 DEF RecordMarks, At, Knows
  <2>4. marker' \in Marker /\ marker'.digest = op[o].mark.digest /\ marker'.v6 = op[o].v6
    BY <2>1, <2>2, RemarkTypes
  <2>. QED
    BY <2>3, <2>4, MarkerFields
<1>7. RollbackRecordIsTrue'
  BY <1>1 DEF RecordMarks, RollbackRecordIsTrue, files, observed
<1>8. op'[o].pc \in Resting => Known("idle")'
  BY <1>2, <1>3, <1>6, OpRecordMarks, <1>4 DEF RecordMarks, At, Knows, Known, Staged, InForce,
     Unrecorded, files, observed
<1>9. op'[o].pc \notin Resting => Knows(o)'
  BY <1>1, <1>2, <1>3, <1>6, OpRecordMarks, <1>4 DEF RecordMarks, At, Knows, Known, Staged,
     InForce, Unrecorded, Promoted, ClearPc, Moved, Ended, files, observed
<1>. QED
  BY <1>1, <1>7, <1>8, <1>9, PromoteKept

\* Verifies keeps PromoteInv.
LEMMA PromoteVerifies ==
  ASSUME TypeInv, Alone, PromoteInv, NEW o \in Ops, Verifies(o)
  PROVE  PromoteInv'
<1>1. OpStep(o) /\ Role(o) /\ RollbackRecordIsTrue
  BY DEF PromoteInv, TypeInv, OpStep, ApplyStep
<1>2. Knows(o)
  BY <1>1, OpSteps DEF PromoteInv
<1>3. FilesOK /\ KernelOK /\ MarkerOK /\ ConfirmedOK
  BY TypeParts DEF TypeInv
<1>6. Failures \subseteq Failures'
  BY <1>1, FailuresStay
<1>7. RollbackRecordIsTrue'
  BY <1>1 DEF Verifies, RollbackRecordIsTrue, files, observed
<1>8. op'[o].pc \in Resting => Known("idle")'
  BY <1>2, <1>3, <1>6, OpVerifies DEF Verifies, At, Knows, Known, Staged, InForce, Unrecorded,
     files, host, observed
<1>9. op'[o].pc \notin Resting => Knows(o)'
  BY <1>1, <1>2, <1>3, <1>6, OpVerifies DEF Verifies, At, Knows, Known, Staged, InForce,
     Unrecorded, Promoted, ClearPc, Moved, Ended, files, host, observed
<1>. QED
  BY <1>1, <1>7, <1>8, <1>9, PromoteKept

\* ConfirmChecks keeps PromoteInv.
LEMMA PromoteConfirmChecks ==
  ASSUME TypeInv, Alone, PromoteInv, NEW o \in Ops, ConfirmChecks(o)
  PROVE  PromoteInv'
<1>1. OpStep(o) /\ Role(o) /\ RollbackRecordIsTrue
  BY DEF PromoteInv, TypeInv, OpStep, ConfirmStep
<1>2. Knows(o)
  BY <1>1, OpSteps DEF PromoteInv
<1>3. FilesOK /\ KernelOK /\ MarkerOK /\ ConfirmedOK
  BY TypeParts DEF TypeInv
<1>6. Failures \subseteq Failures'
  BY <1>1, FailuresStay
<1>7. RollbackRecordIsTrue'
  BY <1>1 DEF ConfirmChecks, RollbackRecordIsTrue, files, observed
<1>8. op'[o].pc \in Resting => Known("idle")'
  BY <1>2, <1>3, <1>6, OpConfirmChecks DEF ConfirmChecks, At, Knows, Known, Staged, InForce,
     Unrecorded, files, observed
<1>9. op'[o].pc \notin Resting => Knows(o)'
  BY <1>1, <1>2, <1>3, <1>6, OpConfirmChecks DEF ConfirmChecks, At, Knows, Known, Staged,
     InForce, Unrecorded, Promoted, ClearPc, Noted, Ended, files, observed
<1>. QED
  BY <1>1, <1>7, <1>8, <1>9, PromoteKept

\* ConfirmReads4 keeps PromoteInv.
LEMMA PromoteConfirmReads4 ==
  ASSUME TypeInv, Alone, PromoteInv, NEW o \in Ops, ConfirmReads4(o)
  PROVE  PromoteInv'
<1>1. OpStep(o) /\ Role(o) /\ RollbackRecordIsTrue
  BY DEF PromoteInv, TypeInv, OpStep, ConfirmStep
<1>2. Knows(o)
  BY <1>1, OpSteps DEF PromoteInv
<1>3. FilesOK /\ KernelOK /\ MarkerOK /\ ConfirmedOK
  BY TypeParts DEF TypeInv
<1>6. Failures \subseteq Failures'
  BY <1>1, FailuresStay
<1>4. marker # NoMarker => marker.digest # NoRules
  BY <1>3, MarkerFields, FirewallAssumption DEF MarkerOK
<1>7. RollbackRecordIsTrue'
  BY <1>1 DEF ConfirmReads4, RollbackRecordIsTrue, files, observed
<1>8. op'[o].pc \in Resting => Known("idle")'
  BY <1>2, <1>3, <1>6, OpConfirmReads4, <1>4 DEF ConfirmReads4, At, Knows, Known, Staged,
     Resting, Read
<1>9. op'[o].pc \notin Resting => Knows(o)'
  BY <1>1, <1>2, <1>3, <1>6, OpConfirmReads4, <1>4 DEF ConfirmReads4, At, Knows, Known, Staged,
     InForce, Unrecorded, Promoted, ClearPc, Read, files, host, observed
<1>. QED
  BY <1>1, <1>7, <1>8, <1>9, PromoteKept

\* Promotes4 keeps PromoteInv.
LEMMA PromotePromotes4 ==
  ASSUME TypeInv, Alone, PromoteInv, NEW o \in Ops, Promotes4(o)
  PROVE  PromoteInv'
<1>1. OpStep(o) /\ Role(o) /\ RollbackRecordIsTrue
  BY DEF PromoteInv, TypeInv, OpStep, ConfirmStep
<1>2. Knows(o)
  BY <1>1, OpSteps DEF PromoteInv
<1>3. FilesOK /\ KernelOK /\ MarkerOK /\ ConfirmedOK
  BY TypeParts DEF TypeInv
<1>6. Failures \subseteq Failures'
  BY <1>1, FailuresStay
<1>7. RollbackRecordIsTrue'
  <2>1. record = NoRules /\ op[o].digest \in Ruleset
    BY <1>1, <1>2 DEF Promotes4, At, Knows, Known, Unrecorded, Role, ConfirmPc
  <2>. QED
    BY <1>3, <2>1, FirewallAssumption DEF Promotes4, RollbackRecordIsTrue, ConfirmedOK
<1>8. op'[o].pc \in Resting => Known("idle")'
  BY <1>2, <1>3, <1>6, OpPromotes4 DEF Resting, Moved
<1>9. op'[o].pc \notin Resting => Knows(o)'
  BY <1>1, <1>2, <1>3, <1>6, OpPromotes4 DEF Promotes4, At, Knows, Known, Staged, InForce,
     Unrecorded, ClearPc, Moved, Knowing, host, FilesOK, Family
<1>. QED
  BY <1>1, <1>7, <1>8, <1>9, PromoteKept

\* Forgets6 keeps PromoteInv.
LEMMA PromoteForgets6 ==
  ASSUME TypeInv, Alone, PromoteInv, NEW o \in Ops, Forgets6(o)
  PROVE  PromoteInv'
<1>1. OpStep(o) /\ Role(o) /\ RollbackRecordIsTrue
  BY DEF PromoteInv, TypeInv, OpStep, ConfirmStep
<1>2. Knows(o)
  BY <1>1, OpSteps DEF PromoteInv
<1>3. FilesOK /\ KernelOK /\ MarkerOK /\ ConfirmedOK
  BY TypeParts DEF TypeInv
<1>6. Failures \subseteq Failures'
  BY <1>1, FailuresStay
<1>7. RollbackRecordIsTrue'
  BY <1>1 DEF Forgets6, RollbackRecordIsTrue, observed
<1>8. op'[o].pc \in Resting => Known("idle")'
  BY <1>2, <1>3, <1>6, OpForgets6 DEF Resting, Moved
<1>9. op'[o].pc \notin Resting => Knows(o)'
  BY <1>1, <1>2, <1>3, <1>6, OpForgets6 DEF Forgets6, At, Knows, Known, Staged, InForce,
     Unrecorded, Promoted, Moved, Knowing, host
<1>. QED
  BY <1>1, <1>7, <1>8, <1>9, PromoteKept

\* ConfirmReads6 keeps PromoteInv.
LEMMA PromoteConfirmReads6 ==
  ASSUME TypeInv, Alone, PromoteInv, NEW o \in Ops, ConfirmReads6(o)
  PROVE  PromoteInv'
<1>1. OpStep(o) /\ Role(o) /\ RollbackRecordIsTrue
  BY DEF PromoteInv, TypeInv, OpStep, ConfirmStep
<1>2. Knows(o)
  BY <1>1, OpSteps DEF PromoteInv
<1>3. FilesOK /\ KernelOK /\ MarkerOK /\ ConfirmedOK
  BY TypeParts DEF TypeInv
<1>6. Failures \subseteq Failures'
  BY <1>1, FailuresStay
<1>4. marker # NoMarker => marker.digest # NoRules
  BY <1>3, MarkerFields, FirewallAssumption DEF MarkerOK
<1>7. RollbackRecordIsTrue'
  BY <1>1 DEF ConfirmReads6, RollbackRecordIsTrue, files, observed
<1>8. op'[o].pc \in Resting => Known("idle")'
  BY <1>2, <1>3, <1>6, OpConfirmReads6, <1>4 DEF ConfirmReads6, At, Knows, Known, Staged,
     Resting, Read
<1>9. op'[o].pc \notin Resting => Knows(o)'
  BY <1>1, <1>2, <1>3, <1>6, OpConfirmReads6, <1>4 DEF ConfirmReads6, At, Knows, Known, Staged,
     InForce, Unrecorded, Promoted, ClearPc, Read, files, host
<1>. QED
  BY <1>1, <1>7, <1>8, <1>9, PromoteKept

\* Promotes6 keeps PromoteInv.
LEMMA PromotePromotes6 ==
  ASSUME TypeInv, Alone, PromoteInv, NEW o \in Ops, Promotes6(o)
  PROVE  PromoteInv'
<1>1. OpStep(o) /\ Role(o) /\ RollbackRecordIsTrue
  BY DEF PromoteInv, TypeInv, OpStep, ConfirmStep
<1>2. Knows(o)
  BY <1>1, OpSteps DEF PromoteInv
<1>3. FilesOK /\ KernelOK /\ MarkerOK /\ ConfirmedOK
  BY TypeParts DEF TypeInv
<1>6. Failures \subseteq Failures'
  BY <1>1, FailuresStay
<1>7. RollbackRecordIsTrue'
  BY <1>1 DEF Promotes6, RollbackRecordIsTrue, observed
<1>8. op'[o].pc \in Resting => Known("idle")'
  BY <1>2, <1>3, <1>6, OpPromotes6 DEF Resting, Moved
<1>9. op'[o].pc \notin Resting => Knows(o)'
  BY <1>1, <1>2, <1>3, <1>6, OpPromotes6 DEF Promotes6, At, Knows, Known, Staged, InForce,
     Unrecorded, Promoted, Moved, Knowing, host, FilesOK, Family
<1>. QED
  BY <1>1, <1>7, <1>8, <1>9, PromoteKept

\* ClearsMarker keeps PromoteInv.
LEMMA PromoteClearsMarker ==
  ASSUME TypeInv, Alone, PromoteInv, NEW o \in Ops, ClearsMarker(o)
  PROVE  PromoteInv'
<1>1. OpStep(o) /\ Role(o) /\ RollbackRecordIsTrue
  BY DEF PromoteInv, TypeInv, OpStep, ClearStep
<1>2. Knows(o)
  BY <1>1, OpSteps DEF PromoteInv
<1>3. FilesOK /\ KernelOK /\ MarkerOK /\ ConfirmedOK
  BY TypeParts DEF TypeInv
<1>6. Failures \subseteq Failures'
  BY <1>1, FailuresStay
<1>7. RollbackRecordIsTrue'
  BY <1>1 DEF ClearsMarker, RollbackRecordIsTrue, files, observed
<1>8. op'[o].pc \in Resting => Known("idle")'
  BY <1>2, <1>3, <1>6, OpClearsMarker DEF ClearsMarker, Known, Staged, InForce, Unrecorded
<1>9. op'[o].pc \notin Resting => Knows(o)'
  BY <1>1, <1>2, <1>3, <1>6, OpClearsMarker DEF ClearsMarker, At, Knows, Known, Staged, InForce,
     Unrecorded, Promoted, ClearPc, Moved, Knowing, files
<1>. QED
  BY <1>1, <1>7, <1>8, <1>9, PromoteKept

\* Clears4 keeps PromoteInv.
LEMMA PromoteClears4 ==
  ASSUME TypeInv, Alone, PromoteInv, NEW o \in Ops, Clears4(o)
  PROVE  PromoteInv'
<1>1. OpStep(o) /\ Role(o) /\ RollbackRecordIsTrue
  BY DEF PromoteInv, TypeInv, OpStep, ClearStep
<1>2. Knows(o)
  BY <1>1, OpSteps DEF PromoteInv
<1>3. FilesOK /\ KernelOK /\ MarkerOK /\ ConfirmedOK
  BY TypeParts DEF TypeInv
<1>6. Failures \subseteq Failures'
  BY <1>1, FailuresStay
<1>7. RollbackRecordIsTrue'
  BY <1>1 DEF Clears4, RollbackRecordIsTrue, observed
<1>8. op'[o].pc \in Resting => Known("idle")'
  BY <1>2, <1>3, <1>6, OpClears4 DEF Resting, Moved
<1>9. op'[o].pc \notin Resting => Knows(o)'
  BY <1>1, <1>2, <1>3, <1>6, OpClears4 DEF Clears4, At, Knows, Known, Staged, InForce,
     Unrecorded, Promoted, ClearPc, Moved, Knowing, host
<1>. QED
  BY <1>1, <1>7, <1>8, <1>9, PromoteKept

\* Clears6 keeps PromoteInv.
LEMMA PromoteClears6 ==
  ASSUME TypeInv, Alone, PromoteInv, NEW o \in Ops, Clears6(o)
  PROVE  PromoteInv'
<1>1. OpStep(o) /\ Role(o) /\ RollbackRecordIsTrue
  BY DEF PromoteInv, TypeInv, OpStep, ClearStep
<1>2. Knows(o)
  BY <1>1, OpSteps DEF PromoteInv
<1>3. FilesOK /\ KernelOK /\ MarkerOK /\ ConfirmedOK
  BY TypeParts DEF TypeInv
<1>6. Failures \subseteq Failures'
  BY <1>1, FailuresStay
<1>7. RollbackRecordIsTrue'
  BY <1>1 DEF Clears6, RollbackRecordIsTrue, observed
<1>8. op'[o].pc \in Resting => Known("idle")'
  BY <1>2, <1>3, <1>6, OpClears6 DEF Clears6, At, Knows, Known, Staged, InForce, Unrecorded,
     ClearPc, host
<1>9. op'[o].pc \notin Resting => Knows(o)'
  BY <1>1, <1>2, <1>3, <1>6, OpClears6 DEF Clears6, At, Knows, Known, Staged, InForce,
     Unrecorded, Promoted, ClearPc, Moved, Ended, Knowing, host
<1>. QED
  BY <1>1, <1>7, <1>8, <1>9, PromoteKept

\* Disarms keeps PromoteInv.
LEMMA PromoteDisarms ==
  ASSUME TypeInv, Alone, PromoteInv, NEW o \in Ops, Disarms(o)
  PROVE  PromoteInv'
<1>1. OpStep(o) /\ Role(o) /\ RollbackRecordIsTrue
  BY DEF PromoteInv, TypeInv, OpStep, ClearStep
<1>2. Knows(o)
  BY <1>1, OpSteps DEF PromoteInv
<1>3. FilesOK /\ KernelOK /\ MarkerOK /\ ConfirmedOK
  BY TypeParts DEF TypeInv
<1>6. Failures \subseteq Failures'
  BY <1>1, FailuresStay
<1>7. RollbackRecordIsTrue'
  BY <1>1 DEF Disarms, RollbackRecordIsTrue, files, observed
<1>8. op'[o].pc \in Resting => Known("idle")'
  BY <1>2, <1>3, <1>6, OpDisarms DEF Disarms, At, Knows, Known, Staged, InForce, Unrecorded, ClearPc
<1>9. op'[o].pc \notin Resting => Knows(o)'
  BY <1>1, <1>2, <1>3, <1>6, OpDisarms DEF Disarms, At, Knows, Known, Staged, InForce,
     Unrecorded, Promoted, ClearPc, Moved, Ended, Knowing, files
<1>. QED
  BY <1>1, <1>7, <1>8, <1>9, PromoteKept

\* Unrecords keeps PromoteInv.
LEMMA PromoteUnrecords ==
  ASSUME TypeInv, Alone, PromoteInv, NEW o \in Ops, Unrecords(o)
  PROVE  PromoteInv'
<1>1. OpStep(o) /\ Role(o) /\ RollbackRecordIsTrue
  BY DEF PromoteInv, TypeInv, OpStep, ClearStep
<1>2. Knows(o)
  BY <1>1, OpSteps DEF PromoteInv
<1>3. FilesOK /\ KernelOK /\ MarkerOK /\ ConfirmedOK
  BY TypeParts DEF TypeInv
<1>6. Failures \subseteq Failures'
  BY <1>1, FailuresStay
<1>7. RollbackRecordIsTrue'
  BY <1>3, FirewallAssumption DEF Unrecords, RollbackRecordIsTrue, ConfirmedOK, observed
<1>8. op'[o].pc \in Resting => Known("idle")'
  BY <1>2, <1>3, <1>6, OpUnrecords DEF Unrecords, At, Knows, Known, Staged, InForce, Unrecorded,
     ClearPc, host
<1>9. op'[o].pc \notin Resting => Knows(o)'
  BY <1>1, <1>2, <1>3, <1>6, OpUnrecords DEF Unrecords, At, Knows, Known, Staged, InForce,
     Unrecorded, Promoted, ClearPc, Moved, host
<1>. QED
  BY <1>1, <1>7, <1>8, <1>9, PromoteKept

\* RemovesChains keeps PromoteInv.
LEMMA PromoteRemovesChains ==
  ASSUME TypeInv, Alone, PromoteInv, NEW o \in Ops, RemovesChains(o)
  PROVE  PromoteInv'
<1>1. OpStep(o) /\ Role(o) /\ RollbackRecordIsTrue
  BY DEF PromoteInv, TypeInv, OpStep, OtherStep
<1>2. Knows(o)
  BY <1>1, OpSteps DEF PromoteInv
<1>3. FilesOK /\ KernelOK /\ MarkerOK /\ ConfirmedOK
  BY TypeParts DEF TypeInv
<1>6. Failures \subseteq Failures'
  BY <1>1, FailuresStay
<1>4. At(o, "chains6") \/ At(o, "chains4")
  BY DEF RemovesChains
<1>7. RollbackRecordIsTrue'
  BY <1>1 DEF RemovesChains, RollbackRecordIsTrue, files
<1>8. op'[o].pc \in Resting => Known("idle")'
  BY <1>2, <1>3, <1>6, OpRemovesChains, <1>4 DEF Resting, Moved
<1>9. op'[o].pc \notin Resting => Knows(o)'
  BY <1>1, <1>2, <1>3, <1>6, OpRemovesChains, <1>4 DEF RemovesChains, At, Knows, Known, Staged,
     InForce, Unrecorded, Promoted, ClearPc, Moved, files
<1>. QED
  BY <1>1, <1>7, <1>8, <1>9, PromoteKept

\* DropsDurable keeps PromoteInv.
LEMMA PromoteDropsDurable ==
  ASSUME TypeInv, Alone, PromoteInv, NEW o \in Ops, DropsDurable(o)
  PROVE  PromoteInv'
<1>1. OpStep(o) /\ Role(o) /\ RollbackRecordIsTrue
  BY DEF PromoteInv, TypeInv, OpStep, OtherStep
<1>2. Knows(o)
  BY <1>1, OpSteps DEF PromoteInv
<1>3. FilesOK /\ KernelOK /\ MarkerOK /\ ConfirmedOK
  BY TypeParts DEF TypeInv
<1>6. Failures \subseteq Failures'
  BY <1>1, FailuresStay
<1>7. RollbackRecordIsTrue'
  BY <1>1 DEF DropsDurable, RollbackRecordIsTrue, observed
<1>8. op'[o].pc \in Resting => Known("idle")'
  BY <1>2, <1>3, <1>6, OpDropsDurable DEF Resting, Moved
<1>9. op'[o].pc \notin Resting => Knows(o)'
  BY <1>1, <1>2, <1>3, <1>6, OpDropsDurable DEF DropsDurable, At, Knows, Known, Staged, InForce,
     Unrecorded, Promoted, ClearPc, Role, OffPc, Moved, host, observed
<1>. QED
  BY <1>1, <1>7, <1>8, <1>9, PromoteKept

\* RehangStarts keeps PromoteInv.
LEMMA PromoteRehangStarts ==
  ASSUME TypeInv, Alone, PromoteInv, NEW o \in Ops, RehangStarts(o)
  PROVE  PromoteInv'
<1>1. OpStep(o) /\ Role(o) /\ RollbackRecordIsTrue
  BY DEF PromoteInv, TypeInv, OpStep, OtherStep
<1>2. Knows(o)
  BY <1>1, OpSteps DEF PromoteInv
<1>3. FilesOK /\ KernelOK /\ MarkerOK /\ ConfirmedOK
  BY TypeParts DEF TypeInv
<1>6. Failures \subseteq Failures'
  BY <1>1, FailuresStay
<1>7. RollbackRecordIsTrue'
  BY <1>1 DEF RehangStarts, RollbackRecordIsTrue, files, observed
<1>8. op'[o].pc \in Resting => Known("idle")'
  BY <1>2, <1>3, <1>6, OpRehangStarts DEF Resting, Noted
<1>9. op'[o].pc \notin Resting => Knows(o)'
  BY <1>1, <1>2, <1>3, <1>6, OpRehangStarts DEF RehangStarts, At, Knows, Known, Staged, InForce,
     Unrecorded, Promoted, ClearPc, Noted, files, host, observed
<1>. QED
  BY <1>1, <1>7, <1>8, <1>9, PromoteKept

\* RehangReads keeps PromoteInv.
LEMMA PromoteRehangReads ==
  ASSUME TypeInv, Alone, PromoteInv, NEW o \in Ops, RehangReads(o)
  PROVE  PromoteInv'
<1>1. OpStep(o) /\ Role(o) /\ RollbackRecordIsTrue
  BY DEF PromoteInv, TypeInv, OpStep, OtherStep
<1>2. Knows(o)
  BY <1>1, OpSteps DEF PromoteInv
<1>3. FilesOK /\ KernelOK /\ MarkerOK /\ ConfirmedOK
  BY TypeParts DEF TypeInv
<1>6. Failures \subseteq Failures'
  BY <1>1, FailuresStay
<1>4. op[o].mark # NoMarker => ForwardDocument(op[o].mark, 4) = pending[4]
  BY DEF ForwardDocument
<1>7. RollbackRecordIsTrue'
  BY <1>1 DEF RehangReads, RollbackRecordIsTrue, files, observed
<1>8. op'[o].pc \in Resting => Known("idle")'
  BY <1>2, <1>3, <1>6, OpRehangReads, <1>4 DEF Resting, Read
<1>9. op'[o].pc \notin Resting => Knows(o)'
  BY <1>1, <1>2, <1>3, <1>6, OpRehangReads, <1>4 DEF RehangReads, At, Knows, Known, Staged,
     InForce, Unrecorded, Promoted, ClearPc, Read, files, host, observed
<1>. QED
  BY <1>1, <1>7, <1>8, <1>9, PromoteKept

\* RehangLoads keeps PromoteInv.
LEMMA PromoteRehangLoads ==
  ASSUME TypeInv, Alone, PromoteInv, NEW o \in Ops, RehangLoads(o)
  PROVE  PromoteInv'
<1>1. OpStep(o) /\ Role(o) /\ RollbackRecordIsTrue
  BY DEF PromoteInv, TypeInv, OpStep, OtherStep
<1>2. Knows(o)
  BY <1>1, OpSteps DEF PromoteInv
<1>3. FilesOK /\ KernelOK /\ MarkerOK /\ ConfirmedOK
  BY TypeParts DEF TypeInv
<1>6. Failures \subseteq Failures'
  BY <1>1, FailuresStay
<1>4. PICK f \in Family : /\ (f = 4 /\ At(o, "hang4")) \/ (f = 6 /\ At(o, "hang6"))
                          /\ Loads(f, op[o].doc) \/ UNCHANGED <<kernel, provisional>>
  BY DEF RehangLoads
<1>5. kernel'[4] = kernel[4] \/ (At(o, "hang4") /\ kernel'[4] = op[o].doc)
  BY <1>4, LoadsTypes, OpFields, TypeParts DEF TypeInv, Family
<1>7. RollbackRecordIsTrue'
  BY <1>1 DEF RehangLoads, RollbackRecordIsTrue, files
<1>8. op'[o].pc \in Resting => Known("idle")'
  BY <1>2, <1>3, <1>6, OpRehangLoads, <1>5 DEF RehangLoads, At, Knows, Known, Staged, InForce,
     Unrecorded, files
<1>9. op'[o].pc \notin Resting => Knows(o)'
  BY <1>1, <1>2, <1>3, <1>6, OpRehangLoads, <1>5 DEF RehangLoads, At, Knows, Known, Staged,
     InForce, Unrecorded, Promoted, ClearPc, Moved, Ended, Knowing, files
<1>. QED
  BY <1>1, <1>7, <1>8, <1>9, PromoteKept

\* The guard rolls back only what is pending and was not promoted.
LEMMA PromoteGuard ==
  ASSUME ~GuardOverlaps, TypeInv, Alone, PromoteInv, GuardStep
  PROVE  PromoteInv'
<1>1. UnderWay = {} /\ UNCHANGED op
  BY GuardSteps
<1>2. UnderWay' = {}
  BY <1>1 DEF UnderWay
<1>3. Settled /\ RollbackRecordIsTrue /\ GuardOK /\ ConfirmedOK
  BY <1>1, TypeParts DEF PromoteInv, TypeInv
<1>4. GuardWakes => Settled' /\ RollbackRecordIsTrue'
  BY <1>1, <1>3 DEF GuardWakes, Settled, Known, Staged, InForce, Failures, Unrecorded, Rolling,
     RollbackRecordIsTrue, files, observed
<1>5. ASSUME NEW f \in Family, GuardOpens(f) \/ GuardRestores(f)
      PROVE  Settled' /\ RollbackRecordIsTrue'
  BY <1>3, <1>5 DEF GuardOpens, GuardRestores, GuardAt, GuardOK, Settled, Rolling,
     RollbackRecordIsTrue, files
<1>6. GuardRecords => Settled' /\ RollbackRecordIsTrue'
  BY <1>3 DEF GuardRecords, GuardAt, Settled, Rolling, RollbackRecordIsTrue, host, observed
<1>7. GuardRemovesDocuments => Settled' /\ RollbackRecordIsTrue'
  BY <1>3 DEF GuardRemovesDocuments, GuardAt, Settled, Rolling, RollbackRecordIsTrue, host,
     observed
<1>8. GuardRemovesMarker => Settled' /\ RollbackRecordIsTrue'
  BY <1>3 DEF GuardRemovesMarker, GuardAt, Settled, Rolling, RollbackRecordIsTrue, files,
     observed
<1>9. GuardStopsTimer => Settled' /\ RollbackRecordIsTrue'
  BY <1>1, <1>3 DEF GuardStopsTimer, Settled, Known, Staged, InForce, Failures, Unrecorded,
     Rolling, RollbackRecordIsTrue, files, observed
<1>. QED
  BY <1>2, <1>4, <1>5, <1>6, <1>7, <1>8, <1>9 DEF GuardStep, PromoteInv

\* No step breaks PromoteInv.
LEMMA PromoteStep ==
  ASSUME ~OpsOverlap, ~GuardOverlaps, MaxDeaths = 0, TypeInv, Alone, PromoteInv, [Next]_vars
  PROVE  PromoteInv'
<1>1. CASE UNCHANGED vars \/ Idle
  BY <1>1 DEF PromoteInv, Settled, Knows, Known, Staged, InForce, Unrecorded, Promoted,
     Failures, Rolling, RollbackRecordIsTrue, UnderWay, vars, files, host, observed, Idle
<1>2. ASSUME NEW o \in Ops, Start(o) PROVE PromoteInv'
  <2>1. UnderWay = {} /\ guard.pc = "idle" /\ Known("idle") /\ RollbackRecordIsTrue
    BY <1>2 DEF Start, PromoteInv, Settled
  <2>2. /\ op'[o].pc \in {"supersede", "check", "chains4", "rehang"}
        /\ \A q \in Ops : q # o => op'[q] = op[q]
    BY <1>2, OpStart DEF Others
  <2>3. UnderWay' = {o}
    BY <2>1, <2>2 DEF UnderWay
  <2>6. Failures \subseteq Failures'
    BY <1>2, <2>2 DEF Start, At, Failures
  <2>4. Knows(o)'
    BY <1>2, <2>1, <2>2, <2>6 DEF Start, Knows, Known, Staged, InForce, Unrecorded, Promoted,
       ClearPc, files, host, observed
  <2>5. RollbackRecordIsTrue'
    BY <1>2, <2>1 DEF Start, RollbackRecordIsTrue, files, observed
  <2>. QED
    BY <2>3, <2>4, <2>5 DEF PromoteInv
<1>3. ASSUME NEW o \in Ops, WindowEnds(o) PROVE PromoteInv'
  BY <1>3 DEF WindowEnds, PromoteInv, Settled, Knows, Known, Staged, InForce, Unrecorded,
     Promoted, Failures, Rolling, RollbackRecordIsTrue, UnderWay, files, host, observed
<1>4. ASSUME NEW o \in Ops, Dies(o) PROVE FALSE
  BY <1>4, TypeParts DEF Dies, TypeInv, CountOK
<1>5. ASSUME NEW o \in Ops, ApplyStep(o) PROVE PromoteInv'
  BY <1>5, PromoteArmSupersedes, PromoteArmStages, PromoteArmMarks, PromoteArmTimer,
     PromoteLoad4,
     PromoteLoad6, PromoteRecordReads, PromoteRecordWrites6, PromoteRecordMarks, PromoteVerifies
     DEF ApplyStep
<1>6. ASSUME NEW o \in Ops, ConfirmStep(o) PROVE PromoteInv'
  BY <1>6, PromoteConfirmChecks, PromoteConfirmReads4, PromotePromotes4, PromoteForgets6,
     PromoteConfirmReads6, PromotePromotes6 DEF ConfirmStep
<1>7. ASSUME NEW o \in Ops, ClearStep(o) PROVE PromoteInv'
  BY <1>7, PromoteClearsMarker, PromoteClears4, PromoteClears6, PromoteDisarms,
     PromoteUnrecords
     DEF ClearStep
<1>8. ASSUME NEW o \in Ops, OtherStep(o) PROVE PromoteInv'
  BY <1>8, PromoteRemovesChains, PromoteDropsDurable, PromoteRehangStarts, PromoteRehangReads,
     PromoteRehangLoads DEF OtherStep
<1>9. CASE GuardStep
  BY <1>9, PromoteGuard
<1>10. CASE Reboot
  <2>1. UnderWay' = {}
    BY <1>10, OpReboot DEF UnderWay
  <2>2. Settled' /\ RollbackRecordIsTrue'
    BY <1>10 DEF Reboot, PromoteInv, Settled, Known, Staged, InForce, Unrecorded, Rolling,
       RollbackRecordIsTrue
  <2>. QED
    BY <2>1, <2>2 DEF PromoteInv
<1>. QED
  BY <1>1, <1>2, <1>3, <1>4, <1>5, <1>6, <1>7, <1>8, <1>9, <1>10 DEF Next, OpStep

\* PromoteInv holds at the beginning.
LEMMA PromoteInit == Init => PromoteInv
<1>. SUFFICES ASSUME Init PROVE PromoteInv
  OBVIOUS
<1>1. UnderWay = {}
  BY IdleFields DEF Init, UnderWay
<1>2. Settled /\ RollbackRecordIsTrue
  BY DEF Init, Settled, Known, Staged, InForce, Unrecorded, Rolling, RollbackRecordIsTrue
<1>. QED
  BY <1>1, <1>2 DEF PromoteInv

\* Only promoteDurable and the removal of the firewall write a durable document.
LEMMA DurableWrites ==
  ASSUME TypeInv, [Next]_vars
  PROVE  \/ UNCHANGED durable
         \/ \E o \in Ops : Promotes4(o) \/ Forgets6(o) \/ Promotes6(o) \/ DropsDurable(o)
<1>1. CASE UNCHANGED vars \/ Idle \/ Reboot
  BY <1>1 DEF vars, files, Idle, Reboot
<1>2. CASE GuardStep
  BY <1>2 DEF GuardStep, GuardWakes, GuardOpens, GuardRestores, GuardRecords,
     GuardRemovesDocuments, GuardRemovesMarker, GuardStopsTimer, files
<1>3. ASSUME NEW o \in Ops, Start(o) \/ WindowEnds(o) \/ Dies(o) PROVE UNCHANGED durable
  BY <1>3 DEF Start, WindowEnds, Dies, files
<1>4. ASSUME NEW o \in Ops, ApplyStep(o) PROVE UNCHANGED durable
  BY <1>4 DEF ApplyStep, ArmSupersedes, ArmStages, ArmMarks, ArmTimer, Load4, Load6,
     RecordReads, RecordWrites6, RecordMarks, Verifies, files
<1>5. ASSUME NEW o \in Ops, ConfirmChecks(o) \/ ConfirmReads4(o) \/ ConfirmReads6(o) \/ ClearStep(o)
      PROVE  UNCHANGED durable
  BY <1>5 DEF ConfirmChecks, ConfirmReads4, ConfirmReads6, ClearStep, ClearsMarker,
     Clears4, Clears6, Disarms, Unrecords, files
<1>6. ASSUME NEW o \in Ops, RemovesChains(o) \/ RehangStarts(o) \/ RehangReads(o) \/ RehangLoads(o)
      PROVE  UNCHANGED durable
  BY <1>6 DEF RemovesChains, RehangStarts, RehangReads, RehangLoads, files
<1>. QED
  BY <1>1, <1>2, <1>3, <1>4, <1>5, <1>6 DEF Next, OpStep, ConfirmStep, OtherStep

\* A durable document becomes the ruleset of the confirm that writes it.
LEMMA PromotesNamed ==
  ASSUME TypeInv, Alone, PromoteInv, [Next]_vars
  PROVE  \A f \in Family : durable'[f] \notin {durable[f], NoRules} =>
           \E o \in Ops : /\ op[o].pc \in {"put4", "put6"} /\ op'[o].pc # op[o].pc
                          /\ op[o].digest = durable'[f]
<1>. SUFFICES ASSUME NEW f \in Family, durable'[f] \notin {durable[f], NoRules}
              PROVE  \E o \in Ops : /\ op[o].pc \in {"put4", "put6"} /\ op'[o].pc # op[o].pc
                                    /\ op[o].digest = durable'[f]
  OBVIOUS
<1>1. FilesOK
  BY TypeParts DEF TypeInv
<1>2. PICK o \in Ops : Promotes4(o) \/ Forgets6(o) \/ Promotes6(o) \/ DropsDurable(o)
  BY DurableWrites
<1>3. ~Forgets6(o) /\ ~DropsDurable(o)
  BY <1>1 DEF Forgets6, DropsDurable, FilesOK
<1>4. Knows(o)
  BY <1>2, <1>3 DEF PromoteInv, UnderWay, Promotes4, Promotes6, At
<1>5. CASE Promotes4(o)
  <2>1. durable'[f] = op[o].doc /\ op[o].doc = op[o].digest
    BY <1>1, <1>4, <1>5 DEF Promotes4, At, Knows, FilesOK
  <2>2. op[o].pc = "put4" /\ op'[o].pc # "put4"
    BY <1>5, OpPromotes4 DEF Promotes4, At, Moved
  <2>. QED
    BY <2>1, <2>2
<1>6. CASE Promotes6(o)
  <2>1. durable'[f] = op[o].doc /\ op[o].doc = op[o].digest
    BY <1>1, <1>4, <1>6 DEF Promotes6, At, Knows, FilesOK
  <2>2. op[o].pc = "put6" /\ op'[o].pc # "put6"
    BY <1>6, OpPromotes6 DEF Promotes6, At, Moved
  <2>. QED
    BY <2>1, <2>2
<1>. QED
  BY <1>2, <1>3, <1>5, <1>6

\* Only the last step of a confirm answers "confirmed".
LEMMA AnswersConfirmed ==
  ASSUME TypeInv, [Next]_vars, NEW o \in Ops,
         op'[o].answer = "confirmed", op[o].answer # "confirmed"
  PROVE  Unrecords(o) /\ o \notin Offs
<1>1. ~(UNCHANGED vars) /\ ~Idle /\ ~GuardStep
  <2>1. UNCHANGED vars \/ Idle => UNCHANGED op
    BY DEF vars, Idle
  <2>2. GuardStep => UNCHANGED op
    BY DEF GuardStep, GuardWakes, GuardOpens, GuardRestores, GuardRecords,
       GuardRemovesDocuments, GuardRemovesMarker, GuardStopsTimer
  <2>. QED
    BY <2>1, <2>2
<1>2. ~Reboot
  BY OpReboot
<1>3. PICK q \in Ops : Start(q) \/ OpStep(q) \/ WindowEnds(q) \/ Dies(q)
  BY <1>1, <1>2 DEF Next
<1>4. ~WindowEnds(q)
  BY DEF WindowEnds
<1>5. q = o
  BY <1>3, <1>4, OpStart, OpSteps, OpDies DEF Others
<1>6. ~Start(o) /\ ~Dies(o)
  BY OpStart, OpDies
<1>7. ~ApplyStep(o)
  BY OpArmSupersedes, OpArmStages, OpArmMarks, OpArmTimer, OpLoad4, OpLoad6, OpRecordReads,
     OpRecordWrites6, OpRecordMarks, OpVerifies DEF ApplyStep, Moved, GivesUp, Noted, Ended
<1>8. ~ConfirmStep(o)
  BY OpConfirmChecks, OpConfirmReads4, OpPromotes4, OpForgets6, OpConfirmReads6, OpPromotes6
     DEF ConfirmStep, Moved, Noted, Read, Ended
<1>9. ~OtherStep(o)
  BY OpRemovesChains, OpDropsDurable, OpRehangStarts, OpRehangReads, OpRehangLoads
     DEF OtherStep, Moved, Noted, Read, Ended
<1>10. ~(ClearsMarker(o) \/ Clears4(o) \/ Clears6(o) \/ Disarms(o))
  BY OpClearsMarker, OpClears4, OpClears6, OpDisarms DEF Moved, Ended
<1>11. Unrecords(o)
  BY <1>3, <1>4, <1>5, <1>6, <1>7, <1>8, <1>9, <1>10 DEF OpStep, ClearStep
<1>. QED
  BY <1>11, OpUnrecords DEF Moved

\* When it does, the ruleset is durable, and in force unless its apply had failed.
LEMMA ConfirmedLive ==
  ASSUME TypeInv, PromoteInv, [Next]_vars, NEW o \in Ops,
         op'[o].answer = "confirmed", op[o].answer # "confirmed"
  PROVE  /\ durable[4] = op[o].digest
         /\ kernel[4] = op[o].digest \/ op[op[o].mark.by].answer = "failed"
<1>1. Unrecords(o) /\ o \notin Offs
  BY AnswersConfirmed
<1>2. Knows(o) /\ Role(o)
  BY <1>1 DEF PromoteInv, TypeInv, UnderWay, Unrecords, At
<1>. QED
  BY <1>1, <1>2 DEF Unrecords, At, Knows, Promoted, ClearPc, Role, Refused, Failures

\* The inductive invariant of the three theorems below.
LEMMA PromoteInvariance ==
  ASSUME ~OpsOverlap, ~GuardOverlaps, MaxDeaths = 0
  PROVE  Spec => [](TypeInv /\ Alone /\ PromoteInv)
<1>1. Init => TypeInv /\ Alone /\ PromoteInv
  BY TypeInit, AloneInit, PromoteInit
<1>2. TypeInv /\ Alone /\ PromoteInv /\ [Next]_vars => (TypeInv /\ Alone /\ PromoteInv)'
  BY TypeStep, AloneStep, PromoteStep
<1>. QED
  BY <1>1, <1>2, PTL DEF Spec

\* A rollback is never on record for a ruleset that was promoted and has not been loaded
\* again since, for any number of operations one after the other that are not cut off, in
\* whatever order rulesets are applied over pending ones, refused, confirmed, rolled back,
\* re-hung or taken out, and with any reboots (armPendingFirewall, confirmPendingFirewall).
THEOREM RecordIsTrue ==
  ASSUME ~OpsOverlap, ~GuardOverlaps, MaxDeaths = 0
  PROVE  Spec => []RollbackRecordIsTrue
<1>1. PromoteInv => RollbackRecordIsTrue
  BY DEF PromoteInv
<1>. QED
  BY <1>1, PromoteInvariance, PTL

\* "Promote the pending ruleset named by digest": under the same assumptions a durable
\* document only ever becomes the ruleset that the confirm writing it was asked for.
THEOREM PromotesNamedRuleset ==
  ASSUME ~OpsOverlap, ~GuardOverlaps, MaxDeaths = 0
  PROVE  Spec => PromotesWhatWasNamed
<1>1. TypeInv /\ Alone /\ PromoteInv /\ [Next]_vars =>
        [\A f \in Family : durable'[f] \notin {durable[f], NoRules} =>
           \E o \in Ops : /\ op[o].pc \in {"put4", "put6"} /\ op'[o].pc # op[o].pc
                          /\ op[o].digest = durable'[f]]_vars
  BY PromotesNamed
<1>. QED
  BY <1>1, PromoteInvariance, PTL DEF Spec, PromotesWhatWasNamed

\* Under the same assumptions a confirm answers "confirmed" only for rules that are
\* durable right then and in force, unless the apply that loaded them had answered that
\* it failed (ensureJump refused after restoreDocument).
THEOREM ConfirmedRulesLive ==
  ASSUME ~OpsOverlap, ~GuardOverlaps, MaxDeaths = 0
  PROVE  Spec => ConfirmedIsLive
<1>1. TypeInv /\ Alone /\ PromoteInv /\ [Next]_vars =>
        [\A o \in Ops : op'[o].answer = "confirmed" /\ op[o].answer # "confirmed" =>
           /\ durable[4] = op[o].digest
           /\ kernel[4] = op[o].digest \/ op[op[o].mark.by].answer = "failed"]_vars
  BY ConfirmedLive
<1>. QED
  BY <1>1, PromoteInvariance, PTL DEF Spec, ConfirmedIsLive
=============================================================================
