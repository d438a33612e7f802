---------------------- MODULE CommandOutboxTypeProofs ----------------------
(***************************************************************************)
(* Type correctness of CommandOutbox, for every set of commands and every  *)
(* bound, and what its helpers return.                                     *)
(***************************************************************************)
EXTENDS CommandOutbox, FiniteSetTheorems, SequenceTheorems, TLAPS

\* The frames of any set of outcomes can be counted.
LEMMA MessagesFinite ==
  \A S \in SUBSET (Cmd \X Outcome) : IsFiniteSet(S) /\ Cardinality(S) \in Nat
<1>1. IsFiniteSet(Run)
  BY FS_Interval, OutboxAssumption DEF Run
<1>. DEFINE H == {HandlerOutcome(r) : r \in Run}
            f == [r \in Run |-> HandlerOutcome(r)]
<1>2. f \in Surjection(Run, H)
  BY DEF Surjection
<1>3. IsFiniteSet(H)
  BY <1>1, <1>2, FS_Surjection
<1>4. IsFiniteSet(Outcome)
  BY <1>3, FS_Union, FS_Singleton DEF Outcome
<1>5. IsFiniteSet(Cmd \X Outcome)
  BY <1>4, FS_Product, OutboxAssumption
<1>. QED
  BY <1>5, FS_Subset, FS_CardinalityType

\* Capped keeps a count within the burst bound.
LEMMA CappedType ==
  ASSUME NEW n \in Nat
  PROVE  Capped(n) \in 0 .. BurstMax
BY OutboxAssumption DEF Capped

\* An outcome is neither "nothing" nor the bare mark of an accepted command.
LEMMA OutcomeDistinct ==
  /\ Interrupted \in Outcome
  /\ \A r \in Run : HandlerOutcome(r) \in Outcome
  /\ NoOutcome \notin Outcome /\ Accepted # NoOutcome
  /\ \A e \in Entry : OrphanReply(e) \in Outcome
BY DEF Outcome, Interrupted, HandlerOutcome, NoOutcome, Accepted, OrphanReply,
       IsJournaledOutcome

\* What Send puts in its four variables, for well-typed frames.
LEMMA SendType ==
  ASSUME TypeOK, NEW msgs \in SUBSET (Cmd \X Outcome), Send(msgs)
  PROVE  /\ wire' \subseteq Cmd \X Outcome /\ sent' \subseteq Cmd
         /\ sentOn' \in [Cmd -> {"no", "fresh", "old"}]
         /\ used' \in 0 .. BurstMax
<1>1. used + Cardinality(msgs) \in Nat
  BY MessagesFinite DEF TypeOK
<1>2. used' \in 0 .. BurstMax
  BY <1>1, CappedType DEF Send
<1>. QED
  BY <1>2 DEF Send, TypeOK

\* The kept outcomes of a map are well-typed frames.
LEMMA KeptMessages ==
  ASSUME NEW m \in [Cmd -> {NoOutcome} \cup Outcome], NEW S \in SUBSET Kept(m)
  PROVE  {<<c, m[c]>> : c \in S} \in SUBSET (Cmd \X Outcome)
BY DEF Kept

\* So are the ones a resend picks.
LEMMA ResendableType ==
  ASSUME TypeOK, NEW D, NEW S \in Resendable(unacked, D)
  PROVE  S \in SUBSET (Cmd \X Outcome)
<1>. DEFINE msgs == {<<c, unacked[c]>> : c \in Kept(unacked) \cap D}
<1>1. S = {} \/ S \in SUBSET msgs
  BY DEF Resendable, Paced
<1>2. msgs \in SUBSET (Cmd \X Outcome)
  BY KeptMessages DEF TypeOK
<1>. QED
  BY <1>1, <1>2

\* FlushHeld keeps the types of what it changes.
LEMMA FlushHeldType ==
  ASSUME TypeOK, NEW m \in [Cmd -> {NoOutcome} \cup Outcome],
         NEW S \in SUBSET Kept(m), FlushHeld(m, S)
  PROVE  /\ wire' \subseteq Cmd \X Outcome /\ sent' \subseteq Cmd
         /\ sentOn' \in [Cmd -> {"no", "fresh", "old"}]
         /\ used' \in 0 .. BurstMax
         /\ held' \in [Cmd -> {NoOutcome} \cup Outcome]
         /\ removing' \subseteq Cmd
<1>. DEFINE new == {d \in S : sentOn[d] = "no"}
<1>1. {<<c, m[c]>> : c \in new} \in SUBSET (Cmd \X Outcome)
  BY KeptMessages
<1>2. Send({<<c, m[c]>> : c \in new})
  BY DEF FlushHeld
<1>3. /\ held' \in [Cmd -> {NoOutcome} \cup Outcome]
      /\ removing' \subseteq Cmd
  BY DEF FlushHeld, Without, TypeOK, Kept
<1>. QED
  BY <1>1, <1>2, <1>3, SendType

\* A write of either chain that lands keeps the types.
LEMMA WriterDoneType ==
  ASSUME TypeOK, NEW c \in Cmd, NEW w \in Writer, WriterDone(c, w)
  PROVE  /\ journal' \in [Cmd -> Entry]
         /\ task' \in [Cmd -> [Run -> TaskPc]]
         /\ attach' \in [Attaches -> AttachState]
<1>1. Written(w) \in Entry
  BY DEF Written, Writer, Entry, Outcome
<1>2. journal' \in [Cmd -> Entry]
  BY <1>1 DEF WriterDone, TypeOK
<1>3. w.by \in {"mark", "deliver"} => w.run \in Run
  BY DEF Writer
<1>4. w.by = "orphan" => w.att \in Attaches
  BY DEF Writer
<1>5. task' \in [Cmd -> [Run -> TaskPc]]
  <2>. DEFINE pc == IF w.by = "mark" THEN "marked" ELSE "stored"
  <2>1. \/ task' = task
        \/ w.by \in {"mark", "deliver"} /\ task' = [task EXCEPT ![c][w.run] = pc]
    BY DEF WriterDone
  <2>2. pc \in TaskPc
    BY DEF TaskPc
  <2>. HIDE DEF pc
  <2>3. ASSUME NEW q \in Run, task' = [task EXCEPT ![c][q] = pc]
        PROVE  task' \in [Cmd -> [Run -> TaskPc]]
    BY <2>2, <2>3 DEF TypeOK
  <2>. QED
    BY <1>3, <2>1, <2>3 DEF TypeOK
<1>6. attach' \in [Attaches -> AttachState]
  <2>. DEFINE r == [attach[w.att] EXCEPT !.wait = @ \ {c}]
  <2>1. attach' = attach \/ (w.by = "orphan" /\ attach' = [attach EXCEPT ![w.att] = r])
    BY DEF WriterDone
  <2>2. CASE w.by = "orphan"
    <3>1. attach[w.att] \in AttachState
      BY <1>4, <2>2 DEF TypeOK
    <3>2. r \in AttachState
      BY <3>1 DEF AttachState
    <3>. HIDE DEF r
    <3>. QED
      BY <1>4, <2>1, <2>2, <3>2 DEF TypeOK
  <2>. QED
    BY <2>1, <2>2 DEF TypeOK
<1>. QED
  BY <1>2, <1>5, <1>6

\* Acknowledge keeps the types of what it changes.
LEMMA AcknowledgeType ==
  ASSUME TypeOK, NEW S \in SUBSET Cmd, Acknowledge(S)
  PROVE  /\ held' \in [Cmd -> {NoOutcome} \cup Outcome]
         /\ unacked' \in [Cmd -> {NoOutcome} \cup Outcome]
         /\ chain' \in [Cmd -> Seq(Writer)] /\ cut' \in [Cmd -> Seq(Writer)]
         /\ removing' \subseteq Cmd
<1>1. \A c \in Cmd : cut[c] \o chain[c] \in Seq(Writer)
  BY ConcatProperties DEF TypeOK
<1>2. chain' \in [Cmd -> Seq(Writer)]
  BY DEF Acknowledge, TypeOK
<1>3. cut' \in [Cmd -> Seq(Writer)]
  BY <1>1 DEF Acknowledge, TypeOK
<1>. QED
  BY <1>2, <1>3 DEF Acknowledge, Without, TypeOK

\* The initial states are well typed.
LEMMA InitType == Init => TypeOK
<1>1. IdleAttach \in AttachState
  BY DEF IdleAttach, AttachState, AttachPc, Entry
<1>2. Init => /\ chain \in [Cmd -> Seq(Writer)] /\ cut \in [Cmd -> Seq(Writer)]
              /\ task \in [Cmd -> [Run -> TaskPc]]
              /\ attach \in [Attaches -> AttachState]
              /\ journal \in [Cmd -> Entry]
  BY <1>1, EmptySeq DEF Init, TaskPc, Entry
<1>3. 0 \in 0 .. BurstMax /\ 0 \in 0 .. MaxCrashes
  BY OutboxAssumption
<1>. QED
  BY <1>2, <1>3 DEF Init, TypeOK

\* Dispatch and the steps of a task keep the types.
LEMMA TaskStepType ==
  ASSUME TypeOK, NEW c \in Cmd,
         Dispatch(c) \/ EvictSeen(c) \/ TaskStep(c) \/ AckArrives(c)
  PROVE  TypeOK'
<1>1. CASE Dispatch(c)
  <2>1. CASE AnswerRepeated(c)
    <3>. DEFINE kept == IF held[c] # NoOutcome THEN held[c] ELSE unacked[c]
                msgs == IF link = "open" THEN {<<c, kept>>} ELSE {}
    <3>1. CASE c \notin running /\ kept # NoOutcome
      <4>1. msgs \in SUBSET (Cmd \X Outcome)
        BY <3>1 DEF TypeOK
      <4>2. Send(msgs)
        BY <2>1, <3>1 DEF AnswerRepeated, SendLive
      <4>. QED
        BY <1>1, <2>1, <4>1, <4>2, SendType DEF Dispatch, AnswerRepeated, TypeOK
    <3>2. CASE ~(c \notin running /\ kept # NoOutcome)
      BY <1>1, <2>1, <3>2 DEF Dispatch, AnswerRepeated, TypeOK
    <3>. QED BY <3>1, <3>2
  <2>2. CASE MarkInFlight(c)
    <3>1. PICK r \in Run :
            /\ running' = running \cup {c}
            /\ task' = [task EXCEPT ![c][r] = "marking"]
            /\ chain' = [chain EXCEPT ![c] = Append(@, [by |-> "mark", run |-> r])]
            /\ UNCHANGED <<wire, sent, sentOn, used>>
      BY <2>2 DEF MarkInFlight
    <3>2. [by |-> "mark", run |-> r] \in Writer
      BY DEF Writer
    <3>3. chain' \in [Cmd -> Seq(Writer)]
      BY <3>1, <3>2 DEF TypeOK
    <3>4. task' \in [Cmd -> [Run -> TaskPc]]
      BY <3>1 DEF TypeOK, TaskPc
    <3>. QED
      BY <1>1, <3>1, <3>3, <3>4 DEF Dispatch, TypeOK
  <2>. QED BY <1>1, <2>1, <2>2 DEF Dispatch
<1>2. CASE EvictSeen(c)
  BY <1>2 DEF EvictSeen, TypeOK, work, world
<1>3. CASE WriteLands(c)
  <2>1. CASE /\ chain[c] # <<>>
             /\ WriterDone(c, Head(chain[c]))
             /\ chain' = [chain EXCEPT ![c] = Tail(@)]
             /\ UNCHANGED cut
    <3>1. Head(chain[c]) \in Writer /\ Tail(chain[c]) \in Seq(Writer)
      BY <2>1, HeadTailProperties DEF TypeOK
    <3>2. chain' \in [Cmd -> Seq(Writer)]
      BY <2>1, <3>1 DEF TypeOK
    <3>. QED
      BY <1>3, <2>1, <3>1, <3>2, WriterDoneType DEF WriteLands, TypeOK, memory, world
  <2>2. CASE /\ cut[c] # <<>>
             /\ WriterDone(c, Head(cut[c]))
             /\ cut' = [cut EXCEPT ![c] = Tail(@)]
             /\ UNCHANGED chain
    <3>1. Head(cut[c]) \in Writer /\ Tail(cut[c]) \in Seq(Writer)
      BY <2>2, HeadTailProperties DEF TypeOK
    <3>2. cut' \in [Cmd -> Seq(Writer)]
      BY <2>2, <3>1 DEF TypeOK
    <3>. QED
      BY <1>3, <2>2, <3>1, <3>2, WriterDoneType DEF WriteLands, TypeOK, memory, world
  <2>. QED BY <1>3, <2>1, <2>2 DEF WriteLands
<1>4. CASE RemoveLands(c)
  BY <1>4 DEF RemoveLands, TypeOK, memory, world, Entry
<1>5. ASSUME NEW r \in Run, StartHandler(c, r) PROVE TypeOK'
  <2>1. task' \in [Cmd -> [Run -> TaskPc]]
    BY <1>5 DEF StartHandler, TypeOK, TaskPc
  <2>. QED
    BY <1>5, <2>1 DEF StartHandler, TypeOK, memory, world
<1>6. ASSUME NEW r \in Run, Finish(c, r) PROVE TypeOK'
  <2>1. task' \in [Cmd -> [Run -> TaskPc]]
    BY <1>6 DEF Finish, TypeOK, TaskPc
  <2>2. [by |-> "deliver", run |-> r] \in Writer
    BY DEF Writer
  <2>3. chain' \in [Cmd -> Seq(Writer)]
    BY <1>6, <2>2 DEF Finish, TypeOK
  <2>. QED
    BY <1>6, <2>1, <2>3 DEF Finish, TypeOK, world
<1>7. ASSUME NEW r \in Run, Deliver(c, r) PROVE TypeOK'
  <2>. DEFINE o == HandlerOutcome(r)
              msgs == IF link = "open" THEN {<<c, o>>} ELSE {}
  <2>1. o \in Outcome
    BY OutcomeDistinct
  <2>2. task' \in [Cmd -> [Run -> TaskPc]]
    BY <1>7 DEF Deliver, TypeOK, TaskPc
  <2>3. Send(msgs) /\ msgs \in SUBSET (Cmd \X Outcome)
    BY <1>7, <2>1 DEF Deliver, SendLive
  <2>4. /\ unacked' \in [Cmd -> {NoOutcome} \cup Outcome]
        /\ held' \in [Cmd -> {NoOutcome} \cup Outcome]
        /\ removing' \subseteq Cmd /\ timer' \in BOOLEAN
    BY <1>7, <2>1 DEF Deliver, ScheduleResend, TypeOK
  <2>. QED
    BY <1>7, <2>2, <2>3, <2>4, SendType DEF Deliver, TypeOK
<1>8. CASE AckArrives(c)
  BY <1>8, AcknowledgeType DEF AckArrives, TypeOK
<1>. QED
  BY <1>1, <1>2, <1>3, <1>4, <1>5, <1>6, <1>7, <1>8 DEF TaskStep

\* The timer and the socket keep the types.
LEMMA SessionStepType ==
  ASSUME TypeOK,
         \/ Tick \/ ResendTimer \/ BeginClose \/ Close \/ Crash
         \/ \E p \in PeerKinds : SessionOpen(p)
         \/ \E c \in Cmd, o \in Outcome : PanelStores(c, o)
  PROVE  TypeOK'
<1>0. \A a \in Attaches : [attach[a] EXCEPT !.live = FALSE] \in AttachState
  <2>. SUFFICES ASSUME NEW a \in Attaches
                PROVE  [attach[a] EXCEPT !.live = FALSE] \in AttachState
    OBVIOUS
  <2>1. attach[a] \in AttachState
    BY DEF TypeOK
  <2>. QED
    BY <2>1 DEF AttachState
<1>1. CASE Tick
  <2>1. 0 \in 0 .. BurstMax
    BY OutboxAssumption
  <2>. QED
    BY <1>1, <2>1 DEF Tick, TypeOK, work, world
<1>2. CASE ResendTimer
  <2>1. CASE keepsUntilAck
    <3>1. PICK S \in Resendable(unacked, {c \in Cmd : sentOn[c] # "fresh"}) :
            Send(S) /\ UNCHANGED <<held, removing>>
      BY <1>2, <2>1 DEF ResendTimer
    <3>2. S \in SUBSET (Cmd \X Outcome)
      BY ResendableType
    <3>. QED
      BY <1>2, <3>1, <3>2, SendType DEF ResendTimer, TypeOK
  <2>2. CASE ~keepsUntilAck
    <3>1. PICK S \in Flushable(held) : FlushHeld(held, S)
      BY <1>2, <2>2 DEF ResendTimer
    <3>2. S \in SUBSET Kept(held)
      BY <3>1 DEF Flushable
    <3>. QED
      BY <1>2, <3>1, <3>2, FlushHeldType DEF ResendTimer, TypeOK
  <2>. QED BY <2>1, <2>2
<1>3. CASE BeginClose
  BY <1>0, <1>3 DEF BeginClose, AttachSocketGone, TypeOK, memory
<1>4. CASE Close
  BY <1>0, <1>4 DEF Close, AttachSocketGone, TypeOK
<1>5. CASE Crash
  <2>1. /\ chain' \in [Cmd -> Seq(Writer)] /\ cut' \in [Cmd -> Seq(Writer)]
    BY <1>5, EmptySeq DEF Crash
  <2>2. IdleAttach \in AttachState
    BY DEF IdleAttach, AttachState, AttachPc, Entry
  <2>3. attach' \in [Attaches -> AttachState]
    BY <1>5, <2>2 DEF Crash
  <2>4. task' \in [Cmd -> [Run -> TaskPc]]
    BY <1>5 DEF Crash, TypeOK, TaskPc
  <2>5. used' \in 0 .. BurstMax /\ crashes' \in 0 .. MaxCrashes
    BY <1>5, OutboxAssumption DEF Crash, TypeOK
  <2>. QED
    BY <1>5, <2>1, <2>3, <2>4, <2>5 DEF Crash, TypeOK
<1>6. ASSUME NEW p \in PeerKinds, SessionOpen(p) PROVE TypeOK'
  <2>. DEFINE kept == Messages(unacked) \cup Messages(held)
  <2>1. PICK S \in SUBSET kept :
          /\ Cardinality(S) = Capped(Cardinality(kept))
          /\ wire' = S
          /\ sent' = sent \cup {m[1] : m \in S}
          /\ sentOn' = [c \in Cmd |-> IF \E m \in S : m[1] = c THEN "fresh" ELSE "no"]
          /\ used' = Cardinality(S)
    BY <1>6 DEF SessionOpen
  <2>2. kept \in SUBSET (Cmd \X Outcome)
    BY DEF Messages, Kept, TypeOK
  <2>. HIDE DEF kept
  <2>3. used' \in 0 .. BurstMax
    BY <2>1, <2>2, MessagesFinite, CappedType
  <2>4. wire' \subseteq Cmd \X Outcome /\ sent' \subseteq Cmd
    BY <2>1, <2>2 DEF TypeOK
  <2>. QED
    BY <1>6, <2>1, <2>3, <2>4 DEF SessionOpen, ScheduleResend, TypeOK, work
<1>7. ASSUME NEW c \in Cmd, NEW o \in Outcome, PanelStores(c, o) PROVE TypeOK'
  BY <1>7 DEF PanelStores, TypeOK, memory, work
<1>. QED
  BY <1>1, <1>2, <1>3, <1>4, <1>5, <1>6, <1>7

\* An attach step that replaces one attach record by a well-typed one keeps
\* the type of attach.
LEMMA AttachUpdateType ==
  ASSUME TypeOK, NEW a \in Attaches, NEW r \in AttachState,
         attach' = [attach EXCEPT ![a] = r]
  PROVE  attach' \in [Attaches -> AttachState]
BY DEF TypeOK

\* The steps of an attach keep the types.
LEMMA AttachStepType ==
  ASSUME TypeOK, NEW a \in Attaches, AttachStep(a)
  PROVE  TypeOK'
<1>a. attach[a] \in AttachState
  BY DEF TypeOK
<1>b. IdleAttach \in AttachState
  BY DEF IdleAttach, AttachState, AttachPc, Entry
<1>1. CASE AttachFrame(a)
  <2>1. CASE panel = "recovers"
    <3>. DEFINE r == [IdleAttach EXCEPT !.pc = "clearing", !.live = (link = "open")]
    <3>1. r \in AttachState
      BY <1>b DEF AttachState, AttachPc
    <3>2. /\ attach' = [attach EXCEPT ![a] = r]
          /\ unacked' \in [Cmd -> {NoOutcome} \cup Outcome]
          /\ held' \in [Cmd -> {NoOutcome} \cup Outcome]
          /\ UNCHANGED <<wire, sent, sentOn, used, removing>>
      BY <1>1, <2>1 DEF AttachFrame, TypeOK
    <3>. HIDE DEF r
    <3>. QED
      BY <1>1, <3>1, <3>2, AttachUpdateType DEF AttachFrame, TypeOK
  <2>2. CASE panel = "older"
    <3>. DEFINE all == [c \in Cmd |-> IF unacked[c] # NoOutcome THEN unacked[c] ELSE held[c]]
                r(S) == [IdleAttach EXCEPT !.pc = "clearing", !.live = (link = "open"), !.clear = S]
    <3>1. all \in [Cmd -> {NoOutcome} \cup Outcome]
      BY DEF TypeOK
    <3>2. PICK S \in Flushable(all) :
            FlushHeld(all, S) /\ attach' = [attach EXCEPT ![a] = r(S)]
      BY <1>1, <2>2 DEF AttachFrame
    <3>. HIDE DEF all
    <3>3. S \in SUBSET Kept(all) /\ S \in SUBSET Cmd
      BY <3>2 DEF Flushable, Kept
    <3>4. r(S) \in AttachState
      BY <1>b, <3>3 DEF AttachState, AttachPc
    <3>. HIDE DEF r
    <3>5. attach' \in [Attaches -> AttachState]
      BY <3>2, <3>4, AttachUpdateType
    <3>6. unacked' \in [Cmd -> {NoOutcome} \cup Outcome]
      BY <1>1, <2>2 DEF AttachFrame
    <3>. QED
      BY <1>1, <3>1, <3>2, <3>3, <3>5, <3>6, FlushHeldType DEF AttachFrame, TypeOK
  <2>. QED BY <1>1, <2>1, <2>2 DEF AttachFrame
<1>2. CASE AttachCleared(a)
  <2>1. [IdleAttach EXCEPT !.pc = "listing"] \in AttachState
    BY <1>b DEF AttachState, AttachPc
  <2>2. attach' \in [Attaches -> AttachState]
    BY <1>2, <1>b, <2>1 DEF AttachCleared, TypeOK
  <2>. QED
    BY <1>2, <2>2 DEF AttachCleared, TypeOK, memory, world
<1>3. CASE AttachLists(a)
  <2>. DEFINE r == [attach[a] EXCEPT !.pc = "filtering", !.ids = Kept(journal)]
  <2>1. r \in AttachState
    BY <1>a DEF AttachState, AttachPc, Kept
  <2>2. attach' = [attach EXCEPT ![a] = r]
    BY <1>3 DEF AttachLists
  <2>. HIDE DEF r
  <2>. QED
    BY <1>3, <2>1, <2>2, AttachUpdateType DEF AttachLists, TypeOK, memory, world
<1>4. CASE AttachFilters(a)
  <2>. DEFINE r == [attach[a] EXCEPT !.pc = "reading", !.ids = {c \in @ : ~Known(c)}]
  <2>1. r \in AttachState
    BY <1>a DEF AttachState, AttachPc
  <2>2. attach' = [attach EXCEPT ![a] = r]
    BY <1>4 DEF AttachFilters
  <2>. HIDE DEF r
  <2>. QED
    BY <1>4, <2>1, <2>2, AttachUpdateType DEF AttachFilters, TypeOK, memory, world
<1>5. CASE AttachReads(a)
  <2>. DEFINE e == [c \in Cmd |-> IF c \in attach[a].ids THEN journal[c] ELSE NoOutcome]
              r == [attach[a] EXCEPT !.pc = "applying", !.entries = e]
  <2>1. e \in [Cmd -> Entry]
    BY DEF TypeOK, Entry
  <2>2. attach' = [attach EXCEPT ![a] = r]
    BY <1>5 DEF AttachReads
  <2>. HIDE DEF e
  <2>3. r \in AttachState
    BY <1>a, <2>1 DEF AttachState, AttachPc
  <2>. HIDE DEF r
  <2>. QED
    BY <1>5, <2>2, <2>3, AttachUpdateType DEF AttachReads, TypeOK, memory, world
<1>6. CASE AttachApplies(a)
  <2>. DEFINE ids == attach[a].ids
              entries == attach[a].entries
              reply(m) == [c \in Cmd |-> IF c \in ids THEN OrphanReply(entries[c]) ELSE m[c]]
              rewrite == {c \in ids : ~IsJournaledOutcome(entries[c])}
  <2>1. ids \in SUBSET Cmd /\ entries \in [Cmd -> Entry]
    BY <1>a DEF AttachState
  <2>2. ASSUME NEW m \in [Cmd -> {NoOutcome} \cup Outcome]
        PROVE  reply(m) \in [Cmd -> {NoOutcome} \cup Outcome]
    BY <2>1, OutcomeDistinct
  <2>3. CASE recovers
    <3>. DEFINE r == [IdleAttach EXCEPT !.pc = "settling", !.wait = rewrite]
    <3>1. r \in AttachState
      BY <1>b, <2>1 DEF AttachState, AttachPc
    <3>2. /\ unacked' = reply(unacked)
          /\ chain' = [c \in Cmd |-> IF c \in rewrite
                                     THEN Append(chain[c], [by |-> "orphan", att |-> a])
                                     ELSE chain[c]]
          /\ attach' = [attach EXCEPT ![a] = r]
          /\ UNCHANGED <<held, wire, sent, sentOn, used, removing>>
      BY <1>6, <2>3 DEF AttachApplies
    <3>3. [by |-> "orphan", att |-> a] \in Writer
      BY DEF Writer
    <3>4. chain' \in [Cmd -> Seq(Writer)]
      BY <3>2, <3>3 DEF TypeOK
    <3>5. unacked' \in [Cmd -> {NoOutcome} \cup Outcome]
      BY <2>2, <3>2 DEF TypeOK
    <3>. HIDE DEF r, reply, rewrite
    <3>. QED
      BY <1>6, <3>1, <3>2, <3>4, <3>5, AttachUpdateType DEF AttachApplies, TypeOK
  <2>4. CASE ~recovers
    <3>. DEFINE m == reply(held)
                r(S) == [IdleAttach EXCEPT !.pc = "settling", !.clear = S]
    <3>1. m \in [Cmd -> {NoOutcome} \cup Outcome]
      BY <2>2 DEF TypeOK
    <3>2. PICK S \in Flushable(m) :
            FlushHeld(m, S) /\ attach' = [attach EXCEPT ![a] = r(S)]
      BY <1>6, <2>4 DEF AttachApplies
    <3>3. UNCHANGED <<unacked, chain>>
      BY <1>6, <2>4 DEF AttachApplies
    <3>. HIDE DEF m
    <3>4. S \in SUBSET Kept(m) /\ S \in SUBSET Cmd
      BY <3>2 DEF Flushable, Kept
    <3>5. r(S) \in AttachState
      BY <1>b, <3>4 DEF AttachState, AttachPc
    <3>. HIDE DEF r
    <3>6. attach' \in [Attaches -> AttachState]
      BY <3>2, <3>5, AttachUpdateType
    <3>. QED
      BY <1>6, <3>1, <3>2, <3>3, <3>4, <3>6, FlushHeldType DEF AttachApplies, TypeOK
  <2>. QED BY <2>3, <2>4
<1>7. CASE AttachPrunes(a)
  <2>1. PICK drop \in SUBSET Kept(unacked) :
          /\ Acknowledge(drop)
          /\ dropped' = dropped \cup (drop \ running)
          /\ attach' = [attach EXCEPT ![a] = [attach[a] EXCEPT !.pc = "resending",
                                                             !.clear = drop \ running]]
    BY <1>7 DEF AttachPrunes
  <2>. DEFINE r == [attach[a] EXCEPT !.pc = "resending", !.clear = drop \ running]
  <2>2. drop \in SUBSET Cmd
    BY <2>1 DEF Kept
  <2>3. r \in AttachState
    BY <1>a, <2>2 DEF AttachState, AttachPc
  <2>4. attach' = [attach EXCEPT ![a] = r]
    BY <2>1
  <2>. HIDE DEF r
  <2>. QED
    BY <1>7, <2>1, <2>2, <2>3, <2>4, AttachUpdateType, AcknowledgeType
    DEF AttachPrunes, TypeOK, world
<1>8. CASE AttachResends(a)
  <2>1. PICK S \in Resendable(unacked, {c \in Cmd : sentOn[c] = "no"}) : Send(S)
    BY <1>8 DEF AttachResends
  <2>2. S \in SUBSET (Cmd \X Outcome)
    BY ResendableType
  <2>3. attach' \in [Attaches -> AttachState]
    BY <1>8, <1>b, AttachUpdateType DEF AttachResends
  <2>. QED
    BY <1>8, <2>1, <2>2, <2>3, SendType DEF AttachResends, ScheduleResend, TypeOK
<1>. QED
  BY <1>1, <1>2, <1>3, <1>4, <1>5, <1>6, <1>7, <1>8 DEF AttachStep

\* Every step keeps the types.
LEMMA NextType == TypeOK /\ [Next]_vars => TypeOK'
<1>. SUFFICES ASSUME TypeOK, [Next]_vars PROVE TypeOK'
  OBVIOUS
<1>1. CASE UNCHANGED vars
  BY <1>1 DEF vars, memory, work, world, TypeOK
<1>2. CASE Next
  BY <1>2, TaskStepType, SessionStepType, AttachStepType DEF Next
<1>. QED BY <1>1, <1>2

\* The outbox never leaves its types, whatever crashes, sockets and control
\* planes do: in particular only a proper outcome, never a bare mark of the
\* journal, is kept or put on a socket (orphanReply).
THEOREM TypeCorrect == Spec => []TypeOK
BY InitType, NextType, PTL DEF Spec
=============================================================================
