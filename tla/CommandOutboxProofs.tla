------------------------ MODULE CommandOutboxProofs ------------------------
(***************************************************************************)
(* Safety of CommandOutbox, for every set of commands and every bound.     *)
(***************************************************************************)
EXTENDS CommandOutboxTypeProofs

-----------------------------------------------------------------------------
(***************************************************************************)
(* What a daemon knows that meets only control planes that confirm results *)
(* and whose attach work ends before its socket does.                      *)
(***************************************************************************)
Confirming == PeerKinds = {"recovers"} /\ ~AttachOutlivesSocket

\* An attach at work has its socket, and knows the control plane confirms.
AttachKnowsPeer ==
  \A a \in Attaches : attach[a].pc # "idle" => peer = "recovers" /\ link # "down"

\* A removal under way is for a command that was answered or given up.
RemovalJustified == \A c \in removing : got[c] # {} \/ c \in dropped

\* A confirmation under way is for a command that was answered.
AckJustified == \A c \in acks : got[c] # {}

\* A socket or an armed timer means that some control plane was met.
PeerWasMet == (link # "down" \/ timer) => peer # "none"

\* The inductive invariant that says so.
PeerInv ==
  /\ TypeOK
  /\ AttachKnowsPeer /\ RemovalJustified /\ AckJustified /\ PeerWasMet

\* The initial states satisfy it.
LEMMA PeerInit == Init => PeerInv
BY InitType DEF Init, PeerInv, AttachKnowsPeer,
   RemovalJustified, AckJustified, PeerWasMet, IdleAttach

\* Under Confirming the peer that is met is unknown or confirms.
LEMMA KeepsWhenMet ==
  ASSUME Confirming, TypeOK, peer # "none"
  PROVE  keepsUntilAck /\ panel = "recovers"
BY DEF Confirming, TypeOK, keepsUntilAck, recovers

\* Dispatch, tasks and confirmations preserve it.
LEMMA PeerTask ==
  ASSUME Confirming, PeerInv, NEW c \in Cmd,
         Dispatch(c) \/ EvictSeen(c) \/ TaskStep(c) \/ AckArrives(c)
  PROVE  PeerInv'
<1>0. TypeOK /\ TypeOK'
  BY TaskStepType DEF PeerInv
<1>1. CASE Dispatch(c)
  <2>1. UNCHANGED <<timer, peer, removing, attach, journal, link, acks, got, dropped>>
    BY <1>1 DEF Dispatch
  <2>. QED
    BY <1>0, <2>1 DEF PeerInv, AttachKnowsPeer,
       RemovalJustified, AckJustified, PeerWasMet
<1>2. CASE EvictSeen(c)
  BY <1>0, <1>2 DEF EvictSeen, work, world, PeerInv, AttachKnowsPeer,
     RemovalJustified, AckJustified, PeerWasMet
<1>3. CASE WriteLands(c)
  <2>1. PICK w : WriterDone(c, w)
    BY <1>3 DEF WriteLands
  <2>2. UNCHANGED <<timer, peer, removing, link, acks, got, dropped>>
    BY <1>3 DEF WriteLands, memory, world
  <2>3. \A a \in Attaches : attach'[a].pc = attach[a].pc
    <3>. SUFFICES ASSUME NEW a \in Attaches PROVE attach'[a].pc = attach[a].pc
      OBVIOUS
    <3>1. attach[a] \in AttachState
      BY <1>0 DEF TypeOK
    <3>. DEFINE e == [attach[a] EXCEPT !.wait = @ \ {c}]
    <3>2. attach'[a] = attach[a] \/ attach'[a] = e
      BY <2>1, <1>0 DEF WriterDone, TypeOK
    <3>3. e.pc = attach[a].pc
      BY <3>1 DEF AttachState
    <3>. QED BY <3>2, <3>3
  <2>. QED
    BY <1>0, <2>2, <2>3 DEF PeerInv, AttachKnowsPeer,
       RemovalJustified, AckJustified, PeerWasMet
<1>4. CASE RemoveLands(c)
  BY <1>0, <1>4 DEF RemoveLands, memory, world, TypeOK, PeerInv,
     AttachKnowsPeer, RemovalJustified, AckJustified, PeerWasMet
<1>5. ASSUME NEW r \in Run, StartHandler(c, r) \/ Finish(c, r) PROVE PeerInv'
  <2>1. UNCHANGED <<timer, peer, removing, attach, journal, link, acks, got, dropped>>
    BY <1>5 DEF StartHandler, Finish, memory, world
  <2>. QED
    BY <1>0, <2>1 DEF PeerInv, AttachKnowsPeer,
       RemovalJustified, AckJustified, PeerWasMet
<1>6. ASSUME NEW r \in Run, Deliver(c, r) PROVE PeerInv'
  <2>1. UNCHANGED <<peer, attach, journal, link, acks, got, dropped>>
    BY <1>6 DEF Deliver
  <2>2. removing' = removing /\ (timer' => timer \/ peer # "none")
    BY <1>6, <1>0, KeepsWhenMet DEF Deliver, PeerInv, PeerWasMet, keepsUntilAck, recovers
  <2>. QED
    BY <1>0, <2>1, <2>2 DEF PeerInv, AttachKnowsPeer,
       RemovalJustified, AckJustified, PeerWasMet
<1>7. CASE AckArrives(c)
  <2>1. UNCHANGED <<timer, peer, task, attach, journal, link, got, dropped>>
    BY <1>7 DEF AckArrives
  <2>2. removing' \subseteq removing \cup {c} /\ c \in acks /\ acks' \subseteq acks
    BY <1>7 DEF AckArrives, Acknowledge
  <2>. QED
    BY <1>0, <2>1, <2>2 DEF PeerInv, AttachKnowsPeer,
       RemovalJustified, AckJustified, PeerWasMet
<1>. QED
  BY <1>1, <1>2, <1>3, <1>4, <1>5, <1>6, <1>7 DEF TaskStep

\* The timer, the socket, the control plane and a kill preserve it.
LEMMA PeerSession ==
  ASSUME Confirming, PeerInv,
         \/ Tick \/ ResendTimer \/ BeginClose \/ Close \/ Crash
         \/ \E p \in PeerKinds : SessionOpen(p)
         \/ \E c \in Cmd, o \in Outcome : PanelStores(c, o)
  PROVE  PeerInv'
<1>0. TypeOK /\ TypeOK'
  BY SessionStepType DEF PeerInv
<1>1. CASE Tick
  BY <1>0, <1>1 DEF Tick, work, world, PeerInv, AttachKnowsPeer,
     RemovalJustified, AckJustified, PeerWasMet
<1>2. CASE ResendTimer
  <2>1. keepsUntilAck
    BY <1>0, <1>2, KeepsWhenMet DEF ResendTimer, PeerInv, PeerWasMet
  <2>2. UNCHANGED <<peer, removing, task, attach, journal, link, acks, got, dropped>>
    BY <1>2, <2>1 DEF ResendTimer
  <2>. QED
    BY <1>0, <1>2, <2>2 DEF ResendTimer, PeerInv, AttachKnowsPeer,
       RemovalJustified, AckJustified, PeerWasMet
<1>3. CASE BeginClose
  <2>1. \A a \in Attaches : attach'[a].pc = attach[a].pc
    BY <1>0, <1>3, ZenonT(60) DEF BeginClose, AttachSocketGone, TypeOK, AttachState
  <2>. QED
    BY <1>0, <1>3, <2>1 DEF BeginClose, memory, PeerInv,
       AttachKnowsPeer, RemovalJustified, AckJustified, PeerWasMet
<1>4. CASE Close
  <2>1. \A a \in Attaches : attach'[a].pc = "idle"
    <3>. SUFFICES ASSUME NEW a \in Attaches PROVE attach'[a].pc = "idle"
      OBVIOUS
    <3>1. attach[a] \in AttachState /\ attach[a].pc = "idle"
      BY <1>0, <1>4 DEF Close, AttachDone, TypeOK, Confirming
    <3>2. attach'[a] = [attach[a] EXCEPT !.live = FALSE]
      BY <1>4 DEF Close, AttachSocketGone
    <3>. QED
      BY <3>1, <3>2 DEF AttachState
  <2>. QED
    BY <1>0, <1>4, <2>1 DEF Close, PeerInv, AttachKnowsPeer,
       RemovalJustified, AckJustified, PeerWasMet
<1>5. CASE Crash
  <2>1. \A a \in Attaches : attach'[a].pc = "idle"
    BY <1>5 DEF Crash, IdleAttach
  <2>. QED
    BY <1>0, <1>5, <2>1 DEF Crash, PeerInv, AttachKnowsPeer,
       RemovalJustified, AckJustified, PeerWasMet
<1>6. ASSUME NEW p \in PeerKinds, SessionOpen(p) PROVE PeerInv'
  <2>1. peer' = "unknown" /\ link = "down"
    BY <1>6 DEF SessionOpen
  <2>2. UNCHANGED <<removing, task, attach, journal, acks, got, dropped>>
    BY <1>6 DEF SessionOpen, work
  <2>3. \A a \in Attaches : attach[a].pc = "idle"
    BY <2>1 DEF PeerInv, AttachKnowsPeer
  <2>. QED
    BY <1>0, <2>1, <2>2, <2>3 DEF PeerInv, AttachKnowsPeer,
       RemovalJustified, AckJustified, PeerWasMet
<1>7. ASSUME NEW c \in Cmd, NEW o \in Outcome, PanelStores(c, o) PROVE PeerInv'
  <2>1. got'[c] # {} /\ \A d \in Cmd : got[d] \subseteq got'[d]
    BY <1>0, <1>7 DEF PanelStores, TypeOK
  <2>2. acks' \subseteq acks \cup {c}
    BY <1>7 DEF PanelStores
  <2>3. UNCHANGED <<timer, peer, removing, task, attach, journal, link, dropped>>
    BY <1>7 DEF PanelStores, memory, work
  <2>. QED
    BY <1>0, <2>1, <2>2, <2>3 DEF PeerInv, AttachKnowsPeer,
       RemovalJustified, AckJustified, PeerWasMet, TypeOK
<1>. QED
  BY <1>1, <1>2, <1>3, <1>4, <1>5, <1>6, <1>7

\* The steps of an attach preserve it.
LEMMA PeerAttach ==
  ASSUME Confirming, PeerInv, NEW a \in Attaches, AttachStep(a)
  PROVE  PeerInv'
<1>0. TypeOK /\ TypeOK'
  BY AttachStepType DEF PeerInv
<1>1. UNCHANGED <<task, journal, link, acks, got>>
  BY DEF AttachStep, AttachFrame, AttachCleared, AttachLists, AttachFilters,
     AttachReads, AttachApplies, AttachPrunes, AttachResends, world
<1>2. \A b \in Attaches \ {a} : attach'[b] = attach[b]
  BY <1>0 DEF AttachStep, AttachFrame, AttachCleared, AttachLists, AttachFilters,
     AttachReads, AttachApplies, AttachPrunes, AttachResends, TypeOK
<1>3. peer' = "recovers" /\ link # "down"
  <2>1. CASE AttachFrame(a)
    BY <1>0, <2>1 DEF AttachFrame, Confirming, TypeOK
  <2>2. CASE ~AttachFrame(a)
    <3>1. attach[a].pc # "idle" /\ peer' = peer
      BY <2>2 DEF AttachStep, AttachCleared, AttachLists, AttachFilters,
         AttachReads, AttachApplies, AttachPrunes, AttachResends, memory
    <3>. QED
      BY <3>1 DEF PeerInv, AttachKnowsPeer
  <2>. QED BY <2>1, <2>2
<1>4. dropped \subseteq dropped' /\ removing' \subseteq removing \cup dropped'
  <2>1. CASE AttachFrame(a)
    BY <1>0, <2>1 DEF AttachFrame, Confirming, TypeOK
  <2>2. CASE AttachApplies(a)
    <3>1. recovers
      BY <2>2 DEF AttachApplies, PeerInv, AttachKnowsPeer, recovers
    <3>. QED
      BY <2>2, <3>1 DEF AttachApplies
  <2>3. CASE AttachPrunes(a)
    BY <2>3 DEF AttachPrunes, Acknowledge
  <2>4. CASE \/ AttachCleared(a) \/ AttachLists(a) \/ AttachFilters(a)
             \/ AttachReads(a) \/ AttachResends(a)
    BY <2>4 DEF AttachCleared, AttachLists, AttachFilters, AttachReads, AttachResends
  <2>. QED BY <2>1, <2>2, <2>3, <2>4 DEF AttachStep
<1>. QED
  BY <1>0, <1>1, <1>2, <1>3, <1>4 DEF PeerInv, AttachKnowsPeer,
     RemovalJustified, AckJustified, PeerWasMet, TypeOK

\* Every step preserves it.
LEMMA PeerNext ==
  ASSUME Confirming, PeerInv, [Next]_vars
  PROVE  PeerInv'
<1>1. CASE UNCHANGED vars
  <2>1. TypeOK'
    BY <1>1, NextType DEF PeerInv
  <2>. QED
    BY <1>1, <2>1 DEF vars, memory, work, world, PeerInv,
       AttachKnowsPeer, RemovalJustified, AckJustified, PeerWasMet
<1>2. CASE Next
  BY <1>2, PeerTask, PeerSession, PeerAttach DEF Next
<1>. QED BY <1>1, <1>2

\* A journal write records something.
LEMMA WrittenSomething ==
  ASSUME NEW w PROVE Written(w) # NoOutcome
BY DEF Written, NoOutcome, Accepted, HandlerOutcome, Interrupted

\* With a disk that takes writes a step starts a command only with its entry on
\* disk, and an entry leaves the disk only by a removal under way; what was
\* answered, sent or given up stays so.
LEMMA JournalStep ==
  ASSUME ~JournalMayFail, TypeOK, [Next]_vars, NEW c \in Cmd
  PROVE  /\ Started(c)' => Started(c) \/ journal'[c] # NoOutcome
         /\ journal[c] # NoOutcome => journal'[c] # NoOutcome \/ c \in removing
         /\ got[c] # {} => got'[c] # {}
         /\ sent \subseteq sent' /\ dropped \subseteq dropped'
<1>1. ASSUME UNCHANGED <<journal, got>>, Started(c)' => Started(c),
             sent \subseteq sent', dropped \subseteq dropped'
      PROVE  /\ Started(c)' => Started(c) \/ journal'[c] # NoOutcome
             /\ journal[c] # NoOutcome => journal'[c] # NoOutcome \/ c \in removing
             /\ got[c] # {} => got'[c] # {}
             /\ sent \subseteq sent' /\ dropped \subseteq dropped'
  BY <1>1
<1>2. ASSUME NEW d \in Cmd, Dispatch(d)
      PROVE  /\ UNCHANGED <<journal, got, dropped>>
             /\ Started(c)' => Started(c)
             /\ sent \subseteq sent'
  <2>1. UNCHANGED <<journal, got, dropped>>
    BY <1>2 DEF Dispatch
  <2>2. CASE AnswerRepeated(d)
    BY <2>1, <2>2 DEF AnswerRepeated, SendLive, Send, Started
  <2>3. CASE MarkInFlight(d)
    <3>1. PICK r \in Run : task' = [task EXCEPT ![d][r] = "marking"] /\ sent' = sent
      BY <2>3 DEF MarkInFlight
    <3>. QED
      BY <2>1, <3>1 DEF Started, TypeOK
  <2>. QED BY <1>2, <2>2, <2>3 DEF Dispatch
<1>3. ASSUME NEW d \in Cmd, WriteLands(d)
      PROVE  /\ journal'[d] # NoOutcome
             /\ c # d => journal'[c] = journal[c] /\ Started(c)' = Started(c)
             /\ UNCHANGED <<got, sent, dropped>>
  <2>1. PICK w : WriterDone(d, w)
    BY <1>3 DEF WriteLands
  <2>2. journal'[d] # NoOutcome /\ (c # d => journal'[c] = journal[c])
    BY <2>1, WrittenSomething DEF WriterDone, TypeOK
  <2>3. c # d => Started(c)' = Started(c)
    BY <2>1 DEF WriterDone, TypeOK, Started
  <2>. QED
    BY <1>3, <2>2, <2>3 DEF WriteLands, world
<1>4. ASSUME NEW d \in Cmd, RemoveLands(d)
      PROVE  /\ d \in removing
             /\ c # d => journal'[c] = journal[c]
             /\ UNCHANGED <<task, got, sent, dropped>>
  BY <1>4 DEF RemoveLands, world, TypeOK
<1>5. ASSUME NEW d \in Cmd, NEW r \in Run,
             StartHandler(d, r) \/ Finish(d, r) \/ Deliver(d, r)
      PROVE  /\ UNCHANGED <<journal, got, dropped>>
             /\ Started(c)' => Started(c)
             /\ sent \subseteq sent'
  <2>1. Started(c)' => Started(c)
    BY <1>5 DEF StartHandler, Finish, Deliver, Started, TypeOK
  <2>. QED
    BY <1>5, <2>1 DEF StartHandler, Finish, Deliver, SendLive, Send, world
<1>6. ASSUME NEW d \in Cmd, EvictSeen(d) \/ AckArrives(d)
      PROVE  UNCHANGED <<task, journal, got, sent, dropped>>
  BY <1>6 DEF EvictSeen, AckArrives, work, world
<1>7. ASSUME NEW d \in Cmd, NEW o \in Outcome, PanelStores(d, o)
      PROVE  UNCHANGED <<task, journal, sent, dropped>> /\ (got[c] # {} => got'[c] # {})
  BY <1>7 DEF PanelStores, work, TypeOK
<1>8. ASSUME NEW a \in Attaches, AttachStep(a)
      PROVE  /\ UNCHANGED <<task, journal, got>>
             /\ sent \subseteq sent' /\ dropped \subseteq dropped'
  BY <1>8 DEF AttachStep, AttachFrame, AttachCleared, AttachLists, AttachFilters,
     AttachReads, AttachApplies, AttachPrunes, AttachResends, FlushHeld, Send, world
<1>9. ASSUME Tick \/ ResendTimer \/ BeginClose \/ Close
             \/ (\E p \in PeerKinds : SessionOpen(p)) \/ UNCHANGED vars
      PROVE  UNCHANGED <<task, journal, got, dropped>> /\ sent \subseteq sent'
  BY <1>9 DEF Tick, ResendTimer, BeginClose, Close, SessionOpen, FlushHeld, Send, work,
     world, vars
<1>10. ASSUME Crash
       PROVE  /\ UNCHANGED <<journal, got, sent, dropped>>
              /\ Started(c)' => Started(c)
  BY <1>10 DEF Crash, Started, TypeOK
<1>11. ASSUME NEW d \in Cmd, Dispatch(d) \/ EvictSeen(d) \/ TaskStep(d) \/ AckArrives(d)
       PROVE  /\ Started(c)' => Started(c) \/ journal'[c] # NoOutcome
              /\ journal[c] # NoOutcome => journal'[c] # NoOutcome \/ c \in removing
              /\ got[c] # {} => got'[c] # {}
              /\ sent \subseteq sent' /\ dropped \subseteq dropped'
  <2>1. CASE Dispatch(d)
    BY <1>1, <1>2, <2>1
  <2>2. CASE WriteLands(d)
    BY <1>3, <2>2
  <2>3. CASE RemoveLands(d)
    BY <1>4, <2>3 DEF Started
  <2>4. CASE \E r \in Run : StartHandler(d, r) \/ Finish(d, r) \/ Deliver(d, r)
    BY <1>1, <1>5, <2>4
  <2>5. CASE EvictSeen(d) \/ AckArrives(d)
    BY <1>1, <1>6, <2>5 DEF Started
  <2>. QED
    BY <1>11, <2>1, <2>2, <2>3, <2>4, <2>5 DEF TaskStep
<1>12. CASE \E d \in Cmd, o \in Outcome : PanelStores(d, o)
  BY <1>7, <1>12 DEF Started
<1>13. CASE \E a \in Attaches : AttachStep(a)
  BY <1>8, <1>13 DEF Started
<1>14. CASE Tick \/ ResendTimer \/ BeginClose \/ Close
            \/ (\E p \in PeerKinds : SessionOpen(p)) \/ UNCHANGED vars
  BY <1>9, <1>14 DEF Started
<1>. QED
  BY <1>1, <1>10, <1>11, <1>12, <1>13, <1>14 DEF Next

-----------------------------------------------------------------------------
(***************************************************************************)
(* No answer is lost with a control plane that confirms results, on a disk *)
(* that takes writes.                                                      *)
(***************************************************************************)

\* A removal under way is justified, so nothing else leaves the disk.
KeepInv == PeerInv /\ NeverForgotten

\* Every step preserves it.
LEMMA KeepNext ==
  ASSUME Confirming, ~JournalMayFail, KeepInv, [Next]_vars
  PROVE  KeepInv'
<1>1. PeerInv'
  BY PeerNext DEF KeepInv
<1>. QED
  BY <1>1, JournalStep DEF KeepInv, PeerInv, NeverForgotten, RemovalJustified

\* The initial states satisfy it.
LEMMA KeepInit == Init => KeepInv
BY PeerInit DEF Init, KeepInv, NeverForgotten, Started

\* With a control plane that confirms results, no command whose handler may
\* have run leaves the disk before the control plane stored an outcome of it
\* or the retention bound gave it up: at any kill, in any interleaving.
THEOREM NothingForgotten ==
  ASSUME Confirming, ~JournalMayFail
  PROVE  Spec => []NeverForgotten
<1>1. KeepInv /\ [Next]_vars => KeepInv'
  BY KeepNext
<1>2. KeepInv => NeverForgotten
  BY DEF KeepInv
<1>. QED
  BY KeepInit, <1>1, <1>2, PTL DEF Spec

-----------------------------------------------------------------------------
(***************************************************************************)
(* The outbox implements OutcomeDelivery.                                  *)
(***************************************************************************)

\* The writes in a queue.
Queued(q) == {q[i] : i \in 1 .. Len(q)}

\* What queueing, landing and cutting a chain do to the writes in it.
LEMMA QueuedAppend ==
  ASSUME NEW q \in Seq(Writer), NEW w \in Writer
  PROVE  Queued(Append(q, w)) = Queued(q) \cup {w}
<1>1. /\ Len(Append(q, w)) = Len(q) + 1 /\ Len(q) \in Nat
      /\ \A i \in 1 .. Len(q) : Append(q, w)[i] = q[i]
      /\ Append(q, w)[Len(q) + 1] = w
  BY AppendProperties
<1>. QED
  BY <1>1 DEF Queued

\* The head of a chain lands: what is queued behind it stays queued.
LEMMA QueuedTail ==
  ASSUME NEW q \in Seq(Writer), q # <<>>
  PROVE  Head(q) \in Queued(q) /\ Queued(Tail(q)) \subseteq Queued(q)
<1>1. /\ Len(q) \in Nat \ {0} /\ Len(Tail(q)) = Len(q) - 1
      /\ \A i \in 1 .. Len(Tail(q)) : Tail(q)[i] = q[i+1]
  BY HeadTailProperties, EmptySeq, LenProperties
<1>2. Head(q) = q[1]
  OBVIOUS
<1>. QED
  BY <1>1, <1>2 DEF Queued

\* A chain cut by an acknowledgement keeps every write of it.
LEMMA QueuedConcat ==
  ASSUME NEW q \in Seq(Writer), NEW s \in Seq(Writer)
  PROVE  Queued(q \o s) \subseteq Queued(q) \cup Queued(s)
<1>1. /\ Len(q \o s) = Len(q) + Len(s) /\ Len(q) \in Nat /\ Len(s) \in Nat
      /\ \A i \in 1 .. Len(q) + Len(s) : (q \o s)[i] =
            IF i <= Len(q) THEN q[i] ELSE s[i - Len(q)]
  BY ConcatProperties, LenProperties
<1>. QED
  BY <1>1 DEF Queued

\* Nothing is queued on an empty chain.
LEMMA QueuedEmpty == Queued(<<>>) = {}
BY EmptySeq DEF Queued

\* Whatever is on disk, kept, sent, listed by an attach or queued as an orphan
\* answer belongs to a command whose handler may have run.
StartedInv ==
  /\ \A c \in Cmd :
       journal[c] # NoOutcome \/ held[c] # NoOutcome \/ unacked[c] # NoOutcome
         => Started(c)
  /\ \A m \in wire : Started(m[1])
  /\ \A a \in Attaches : \A c \in attach[a].ids : Started(c)
  /\ \A c \in Cmd : \A w \in Queued(chain[c]) \cup Queued(cut[c]) :
       w.by = "orphan" => Started(c)

\* No command is started at the beginning.
LEMMA StartedInit == Init => StartedInv
BY QueuedEmpty DEF Init, StartedInv, IdleAttach

\* A landing write starts its command, or belongs to an orphan answer, and no
\* started command becomes unstarted.
LEMMA WriterStarts ==
  ASSUME TypeOK, NEW c \in Cmd, NEW w \in Writer, WriterDone(c, w)
  PROVE  /\ w.by = "orphan" \/ Started(c)'
         /\ \A d \in Cmd : Started(d) => Started(d)'
<1>1. CASE w.by \in {"mark", "deliver"}
  <2>. DEFINE pc == IF w.by = "mark" THEN "marked" ELSE "stored"
  <2>1. w.run \in Run
    BY <1>1 DEF Writer
  <2>2. task' = [task EXCEPT ![c][w.run] = pc]
    BY <1>1 DEF WriterDone
  <2>3. pc \notin {"none", "marking"}
    OBVIOUS
  <2>. HIDE DEF pc
  <2>4. ASSUME NEW q \in Run, task' = [task EXCEPT ![c][q] = pc]
        PROVE  Started(c)' /\ \A d \in Cmd : Started(d) => Started(d)'
    <3>1. task'[c][q] = pc /\ \A r \in Run \ {q} : task'[c][r] = task[c][r]
      BY <2>4 DEF TypeOK
    <3>2. \A d \in Cmd \ {c} : task'[d] = task[d]
      BY <2>4 DEF TypeOK
    <3>. QED
      BY <2>3, <3>1, <3>2 DEF Started
  <2>. QED
    BY <2>1, <2>2, <2>4
<1>2. CASE w.by = "orphan"
  BY <1>2 DEF WriterDone, Started
<1>. QED
  BY <1>1, <1>2 DEF Writer

\* An acknowledgement keeps and queues nothing that was not there.
LEMMA AcknowledgeStarted ==
  ASSUME TypeOK, NEW S, Acknowledge(S)
  PROVE  /\ \A c \in Cmd : /\ held'[c] # NoOutcome => held[c] # NoOutcome
                           /\ unacked'[c] # NoOutcome => unacked[c] # NoOutcome
         /\ \A c \in Cmd : Queued(chain'[c]) \cup Queued(cut'[c])
                             \subseteq Queued(chain[c]) \cup Queued(cut[c])
<1>1. ASSUME NEW c \in Cmd
      PROVE  Queued(chain'[c]) \cup Queued(cut'[c])
               \subseteq Queued(chain[c]) \cup Queued(cut[c])
  <2>1. \/ chain'[c] = chain[c] /\ cut'[c] = cut[c]
        \/ chain'[c] = <<>> /\ cut'[c] = cut[c] \o chain[c]
    BY DEF Acknowledge
  <2>2. Queued(cut[c] \o chain[c]) \subseteq Queued(cut[c]) \cup Queued(chain[c])
    BY QueuedConcat DEF TypeOK
  <2>. QED
    BY <2>1, <2>2, QueuedEmpty
<1>. QED
  BY <1>1 DEF Acknowledge, Without, TypeOK

\* Dispatch, tasks and confirmations preserve StartedInv.
LEMMA StartedTask ==
  ASSUME TypeOK, StartedInv, NEW c \in Cmd,
         Dispatch(c) \/ EvictSeen(c) \/ TaskStep(c) \/ AckArrives(c)
  PROVE  StartedInv'
<1>1. CASE Dispatch(c)
  <2>1. UNCHANGED <<held, unacked, cut, attach, journal>>
    BY <1>1 DEF Dispatch
  <2>2. CASE AnswerRepeated(c)
    <3>1. UNCHANGED <<task, chain>>
      BY <2>2 DEF AnswerRepeated
    <3>2. \A m \in wire' : m \in wire \/ (m[1] = c /\ (held[c] # NoOutcome \/ unacked[c] # NoOutcome))
      BY <2>2 DEF AnswerRepeated, SendLive, Send
    <3>. QED
      BY <2>1, <3>1, <3>2 DEF StartedInv, Started
  <2>3. CASE MarkInFlight(c)
    <3>1. PICK r \in Run :
            /\ task[c][r] = "none"
            /\ task' = [task EXCEPT ![c][r] = "marking"]
            /\ chain' = [chain EXCEPT ![c] = Append(@, [by |-> "mark", run |-> r])]
            /\ wire' = wire
      BY <2>3 DEF MarkInFlight
    <3>2. \A d \in Cmd : Started(d) => Started(d)'
      BY <3>1 DEF Started, TypeOK
    <3>3. \A d \in Cmd : \A w \in Queued(chain'[d]) :
            w \in Queued(chain[d]) \/ w.by = "mark"
      <4>1. [by |-> "mark", run |-> r] \in Writer
        BY DEF Writer
      <4>2. Queued(chain'[c]) = Queued(chain[c]) \cup {[by |-> "mark", run |-> r]}
        BY <3>1, <4>1, QueuedAppend DEF TypeOK
      <4>3. \A d \in Cmd \ {c} : chain'[d] = chain[d]
        BY <3>1 DEF TypeOK
      <4>. QED BY <4>2, <4>3
    <3>. QED
      BY <2>1, <3>1, <3>2, <3>3 DEF StartedInv, TypeOK, AttachState
  <2>. QED BY <1>1, <2>2, <2>3 DEF Dispatch
<1>2. CASE EvictSeen(c)
  BY <1>2 DEF EvictSeen, work, world, StartedInv, Started
<1>3. CASE WriteLands(c)
  <2>1. PICK w \in Writer :
          /\ WriterDone(c, w)
          /\ w \in Queued(chain[c]) \cup Queued(cut[c])
          /\ \A d \in Cmd : /\ Queued(chain'[d]) \subseteq Queued(chain[d])
                            /\ Queued(cut'[d]) \subseteq Queued(cut[d])
    <3>1. CASE /\ chain[c] # <<>>
               /\ WriterDone(c, Head(chain[c]))
               /\ chain' = [chain EXCEPT ![c] = Tail(@)]
               /\ UNCHANGED cut
      <4>1. Head(chain[c]) \in Writer
        BY <3>1, HeadTailProperties DEF TypeOK
      <4>2. /\ Head(chain[c]) \in Queued(chain[c])
            /\ Queued(Tail(chain[c])) \subseteq Queued(chain[c])
        BY <3>1, QueuedTail DEF TypeOK
      <4>3. chain'[c] = Tail(chain[c]) /\ \A d \in Cmd \ {c} : chain'[d] = chain[d]
        BY <3>1 DEF TypeOK
      <4>. QED BY <3>1, <4>1, <4>2, <4>3
    <3>2. CASE /\ cut[c] # <<>>
               /\ WriterDone(c, Head(cut[c]))
               /\ cut' = [cut EXCEPT ![c] = Tail(@)]
               /\ UNCHANGED chain
      <4>1. Head(cut[c]) \in Writer
        BY <3>2, HeadTailProperties DEF TypeOK
      <4>2. /\ Head(cut[c]) \in Queued(cut[c])
            /\ Queued(Tail(cut[c])) \subseteq Queued(cut[c])
        BY <3>2, QueuedTail DEF TypeOK
      <4>3. cut'[c] = Tail(cut[c]) /\ \A d \in Cmd \ {c} : cut'[d] = cut[d]
        BY <3>2 DEF TypeOK
      <4>. QED BY <3>2, <4>1, <4>2, <4>3
    <3>. QED BY <1>3, <3>1, <3>2 DEF WriteLands
  <2>2. Started(c)' /\ \A d \in Cmd : Started(d) => Started(d)'
    BY <2>1, WriterStarts DEF StartedInv
  <2>3. UNCHANGED <<held, unacked, wire>>
    BY <1>3 DEF WriteLands, memory, world
  <2>4. \A d \in Cmd \ {c} : journal'[d] = journal[d]
    BY <2>1 DEF WriterDone, TypeOK
  <2>5. \A a \in Attaches : attach'[a].ids = attach[a].ids
    <3>. SUFFICES ASSUME NEW a \in Attaches PROVE attach'[a].ids = attach[a].ids
      OBVIOUS
    <3>1. attach[a] \in AttachState
      BY DEF TypeOK
    <3>. DEFINE e == [attach[a] EXCEPT !.wait = @ \ {c}]
    <3>2. attach'[a] = attach[a] \/ attach'[a] = e
      BY <2>1 DEF WriterDone, TypeOK
    <3>3. e.ids = attach[a].ids
      BY <3>1 DEF AttachState
    <3>. QED BY <3>2, <3>3
  <2>. QED
    BY <2>1, <2>2, <2>3, <2>4, <2>5 DEF StartedInv, TypeOK, AttachState
<1>4. CASE RemoveLands(c)
  BY <1>4 DEF RemoveLands, memory, world, StartedInv, Started, TypeOK
<1>5. ASSUME NEW r \in Run, StartHandler(c, r) PROVE StartedInv'
  <2>1. \A d \in Cmd : Started(d) => Started(d)'
    BY <1>5 DEF StartHandler, Started, TypeOK
  <2>. QED
    BY <1>5, <2>1 DEF StartHandler, memory, world, StartedInv, TypeOK, AttachState
<1>6. ASSUME NEW r \in Run, Finish(c, r) PROVE StartedInv'
  <2>1. \A d \in Cmd : Started(d) => Started(d)'
    BY <1>6 DEF Finish, Started, TypeOK
  <2>2. \A d \in Cmd : \A w \in Queued(chain'[d]) :
          w \in Queued(chain[d]) \/ w.by = "deliver"
    <3>1. [by |-> "deliver", run |-> r] \in Writer
      BY DEF Writer
    <3>2. Queued(chain'[c]) = Queued(chain[c]) \cup {[by |-> "deliver", run |-> r]}
      BY <1>6, <3>1, QueuedAppend DEF Finish, TypeOK
    <3>3. \A d \in Cmd \ {c} : chain'[d] = chain[d]
      BY <1>6 DEF Finish, TypeOK
    <3>. QED BY <3>2, <3>3
  <2>. QED
    BY <1>6, <2>1, <2>2 DEF Finish, world, StartedInv, TypeOK, AttachState
<1>7. ASSUME NEW r \in Run, Deliver(c, r) PROVE StartedInv'
  <2>1. Started(c)' /\ \A d \in Cmd : Started(d) => Started(d)'
    BY <1>7 DEF Deliver, Started, TypeOK
  <2>2. UNCHANGED <<chain, cut, attach, journal>>
    BY <1>7 DEF Deliver
  <2>3. \A d \in Cmd \ {c} : held'[d] = held[d] /\ unacked'[d] = unacked[d]
    BY <1>7 DEF Deliver, TypeOK
  <2>4. \A m \in wire' : m \in wire \/ m[1] = c
    BY <1>7 DEF Deliver, SendLive, Send
  <2>. QED
    BY <2>1, <2>2, <2>3, <2>4 DEF StartedInv, TypeOK, AttachState
<1>8. CASE AckArrives(c)
  <2>1. Acknowledge({c})
    BY <1>8 DEF AckArrives
  <2>2. UNCHANGED <<task, attach, journal, wire>>
    BY <1>8 DEF AckArrives
  <2>. QED
    BY <2>1, <2>2, AcknowledgeStarted DEF StartedInv, Started
<1>. QED
  BY <1>1, <1>2, <1>3, <1>4, <1>5, <1>6, <1>7, <1>8 DEF TaskStep

\* The timer, the socket, the control plane and a kill preserve StartedInv.
LEMMA StartedSession ==
  ASSUME TypeOK, StartedInv,
         \/ Tick \/ ResendTimer \/ BeginClose \/ Close \/ Crash
         \/ \E p \in PeerKinds : SessionOpen(p)
         \/ \E c \in Cmd, o \in Outcome : PanelStores(c, o)
  PROVE  StartedInv'
<1>1. CASE Tick
  BY <1>1 DEF Tick, work, world, StartedInv, Started
<1>2. CASE ResendTimer
  <2>1. UNCHANGED <<unacked, task, chain, cut, attach, journal>>
    BY <1>2 DEF ResendTimer
  <2>2. CASE keepsUntilAck
    <3>1. PICK S \in Resendable(unacked, {c \in Cmd : sentOn[c] # "fresh"}) :
            Send(S) /\ UNCHANGED held
      BY <1>2, <2>2 DEF ResendTimer
    <3>2. \A m \in S : m[1] \in Kept(unacked)
      BY <3>1 DEF Resendable, Paced
    <3>3. \A m \in wire' : m \in wire \/ m[1] \in Kept(unacked)
      BY <3>1, <3>2 DEF Send
    <3>. QED
      BY <2>1, <3>1, <3>3 DEF StartedInv, Started, Kept
  <2>3. CASE ~keepsUntilAck
    <3>1. PICK S \in Flushable(held) : FlushHeld(held, S)
      BY <1>2, <2>3 DEF ResendTimer
    <3>2. \A m \in wire' : m \in wire \/ m[1] \in Kept(held)
      BY <3>1 DEF FlushHeld, Flushable, Send
    <3>3. \A c \in Cmd : held'[c] # NoOutcome => held[c] # NoOutcome
      BY <3>1 DEF FlushHeld, Without
    <3>. QED
      BY <2>1, <3>2, <3>3 DEF StartedInv, Started, Kept
  <2>. QED BY <2>2, <2>3
<1>3. CASE BeginClose \/ Close
  <2>1. \A a \in Attaches : attach'[a].ids = attach[a].ids
    BY <1>3 DEF BeginClose, Close, AttachSocketGone, TypeOK, AttachState
  <2>2. wire' \subseteq wire /\ UNCHANGED <<held, unacked, task, chain, cut, journal>>
    BY <1>3 DEF BeginClose, Close, memory
  <2>. QED
    BY <2>1, <2>2 DEF StartedInv, Started
<1>4. CASE Crash
  <2>1. \A c \in Cmd : Started(c) => Started(c)'
    BY <1>4 DEF Crash, Started, TypeOK
  <2>2. \A c \in Cmd : /\ held'[c] = NoOutcome /\ unacked'[c] = NoOutcome
                       /\ chain'[c] = <<>> /\ cut'[c] = <<>>
    BY <1>4 DEF Crash
  <2>3. \A a \in Attaches : attach'[a].ids = {}
    BY <1>4 DEF Crash, IdleAttach
  <2>. QED
    BY <1>4, <2>1, <2>2, <2>3, QueuedEmpty DEF Crash, StartedInv
<1>5. ASSUME NEW p \in PeerKinds, SessionOpen(p) PROVE StartedInv'
  <2>1. UNCHANGED <<held, unacked, task, chain, cut, attach, journal>>
    BY <1>5 DEF SessionOpen, work
  <2>2. \A m \in wire' : m[1] \in Kept(unacked) \cup Kept(held)
    BY <1>5 DEF SessionOpen, Messages
  <2>. QED
    BY <2>1, <2>2 DEF StartedInv, Started, Kept
<1>6. ASSUME NEW c \in Cmd, NEW o \in Outcome, PanelStores(c, o) PROVE StartedInv'
  BY <1>6 DEF PanelStores, memory, work, StartedInv, Started
<1>. QED
  BY <1>1, <1>2, <1>3, <1>4, <1>5, <1>6

\* The steps of an attach preserve StartedInv.
LEMMA StartedAttach ==
  ASSUME TypeOK, StartedInv, NEW a \in Attaches, AttachStep(a)
  PROVE  StartedInv'
<1>a. attach[a] \in AttachState
  BY DEF TypeOK
<1>b. UNCHANGED <<task, journal>>
  BY DEF AttachStep, AttachFrame, AttachCleared, AttachLists, AttachFilters,
     AttachReads, AttachApplies, AttachPrunes, AttachResends, world
<1>c. \A b \in Attaches \ {a} : attach'[b] = attach[b]
  BY DEF AttachStep, AttachFrame, AttachCleared, AttachLists, AttachFilters,
     AttachReads, AttachApplies, AttachPrunes, AttachResends, TypeOK
<1>1. CASE AttachFrame(a)
  <2>1. UNCHANGED <<chain, cut>>
    BY <1>1 DEF AttachFrame
  <2>2. attach'[a].ids = {}
    <3>1. CASE panel = "recovers"
      <4>1. attach'[a] = [IdleAttach EXCEPT !.pc = "clearing", !.live = (link = "open")]
        BY <1>1, <3>1 DEF AttachFrame, TypeOK
      <4>. QED BY <4>1 DEF IdleAttach
    <3>2. CASE panel = "older"
      <4>1. PICK S : attach'[a] = [IdleAttach EXCEPT !.pc = "clearing",
                                     !.live = (link = "open"), !.clear = S]
        BY <1>1, <3>2 DEF AttachFrame, TypeOK
      <4>. QED BY <4>1 DEF IdleAttach
    <3>. QED BY <1>1, <3>1, <3>2 DEF AttachFrame
  <2>3. \A c \in Cmd : held'[c] # NoOutcome \/ unacked'[c] # NoOutcome
                         => held[c] # NoOutcome \/ unacked[c] # NoOutcome
    BY <1>1 DEF AttachFrame, FlushHeld, Without
  <2>4. \A m \in wire' : m \in wire \/ (m[1] \in Cmd /\ (held[m[1]] # NoOutcome \/ unacked[m[1]] # NoOutcome))
    <3>1. CASE panel = "recovers"
      BY <1>1, <3>1 DEF AttachFrame
    <3>2. CASE panel = "older"
      <4>. DEFINE all == [c \in Cmd |-> IF unacked[c] # NoOutcome THEN unacked[c] ELSE held[c]]
      <4>1. PICK S \in Flushable(all) : FlushHeld(all, S)
        BY <1>1, <3>2 DEF AttachFrame
      <4>2. \A m \in wire' : m \in wire \/ m[1] \in Kept(all)
        BY <4>1 DEF FlushHeld, Flushable, Send
      <4>. QED
        BY <4>2 DEF Kept
    <3>. QED BY <1>1, <3>1, <3>2 DEF AttachFrame
  <2>. QED
    BY <1>b, <1>c, <2>1, <2>2, <2>3, <2>4 DEF StartedInv, Started
<1>2. CASE AttachCleared(a) \/ AttachLists(a) \/ AttachFilters(a) \/ AttachReads(a)
  <2>1. UNCHANGED <<held, unacked, chain, cut, wire>>
    BY <1>2 DEF AttachCleared, AttachLists, AttachFilters, AttachReads, memory, world
  <2>2. attach'[a].ids \subseteq attach[a].ids \cup Kept(journal)
    <3>1. CASE AttachCleared(a)
      BY <3>1 DEF AttachCleared, IdleAttach, TypeOK
    <3>2. CASE AttachLists(a)
      <4>1. attach'[a] = [attach[a] EXCEPT !.pc = "filtering", !.ids = Kept(journal)]
        BY <3>2 DEF AttachLists, TypeOK
      <4>. QED BY <1>a, <4>1 DEF AttachState
    <3>3. CASE AttachFilters(a)
      <4>1. attach'[a] = [attach[a] EXCEPT !.pc = "reading", !.ids = {c \in @ : ~Known(c)}]
        BY <3>3 DEF AttachFilters, TypeOK
      <4>. QED BY <1>a, <4>1 DEF AttachState
    <3>4. CASE AttachReads(a)
      <4>. DEFINE e == [c \in Cmd |-> IF c \in attach[a].ids THEN journal[c] ELSE NoOutcome]
      <4>1. attach'[a] = [attach[a] EXCEPT !.pc = "applying", !.entries = e]
        BY <3>4 DEF AttachReads, TypeOK
      <4>. HIDE DEF e
      <4>. QED BY <1>a, <4>1 DEF AttachState
    <3>. QED BY <1>2, <3>1, <3>2, <3>3, <3>4
  <2>. QED
    BY <1>b, <1>c, <2>1, <2>2 DEF StartedInv, Started, Kept
<1>3. CASE AttachApplies(a)
  <2>. DEFINE ids == attach[a].ids
              entries == attach[a].entries
              reply(m) == [c \in Cmd |-> IF c \in ids THEN OrphanReply(entries[c]) ELSE m[c]]
              rewrite == {c \in ids : ~IsJournaledOutcome(entries[c])}
  <2>1. attach'[a].ids = {}
    BY <1>3, ZenonT(60) DEF AttachApplies, IdleAttach, TypeOK
  <2>2. CASE recovers
    <3>1. /\ unacked' = reply(unacked)
          /\ chain' = [c \in Cmd |-> IF c \in rewrite
                                     THEN Append(chain[c], [by |-> "orphan", att |-> a])
                                     ELSE chain[c]]
          /\ UNCHANGED <<held, wire, cut>>
      BY <1>3, <2>2 DEF AttachApplies
    <3>3. \A c \in Cmd : c \in ids \/ Queued(chain'[c]) = Queued(chain[c])
      BY <3>1
    <3>4. \A c \in Cmd : c \in ids \/ unacked'[c] = unacked[c]
      BY <3>1
    <3>. QED
      BY <1>b, <1>c, <2>1, <3>1, <3>3, <3>4 DEF StartedInv, Started
  <2>3. CASE ~recovers
    <3>. DEFINE m == reply(held)
    <3>1. PICK S \in Flushable(m) : FlushHeld(m, S)
      BY <1>3, <2>3 DEF AttachApplies
    <3>2. UNCHANGED <<unacked, chain, cut>>
      BY <1>3, <2>3 DEF AttachApplies
    <3>3. \A c \in Cmd : c \in ids \/ m[c] = held[c]
      OBVIOUS
    <3>. HIDE DEF m
    <3>4. \A x \in wire' : x \in wire \/ x[1] \in Kept(m)
      BY <3>1 DEF FlushHeld, Flushable, Send
    <3>5. \A c \in Cmd : held'[c] # NoOutcome => m[c] # NoOutcome
      BY <3>1 DEF FlushHeld, Without
    <3>. QED
      BY <1>b, <1>c, <2>1, <3>2, <3>3, <3>4, <3>5 DEF StartedInv, Started, Kept
  <2>. QED BY <2>2, <2>3
<1>4. CASE AttachPrunes(a)
  <2>1. PICK drop \in SUBSET Kept(unacked) :
          /\ Acknowledge(drop)
          /\ attach' = [attach EXCEPT ![a] = [attach[a] EXCEPT !.pc = "resending",
                                                             !.clear = drop \ running]]
    BY <1>4 DEF AttachPrunes
  <2>. DEFINE r == [attach[a] EXCEPT !.pc = "resending", !.clear = drop \ running]
  <2>2. r.ids = attach[a].ids
    BY <1>a DEF AttachState
  <2>3. attach'[a] = r
    BY <2>1 DEF TypeOK
  <2>. HIDE DEF r
  <2>4. wire' = wire
    BY <1>4 DEF AttachPrunes, world
  <2>. QED
    BY <1>b, <1>c, <2>1, <2>2, <2>3, <2>4, AcknowledgeStarted, SMTT(60) DEF StartedInv, Started
<1>5. CASE AttachResends(a)
  <2>1. PICK S \in Resendable(unacked, {c \in Cmd : sentOn[c] = "no"}) : Send(S)
    BY <1>5 DEF AttachResends
  <2>2. \A m \in wire' : m \in wire \/ m[1] \in Kept(unacked)
    BY <2>1 DEF Send, Resendable, Paced
  <2>3. attach'[a].ids = {}
    BY <1>5 DEF AttachResends, IdleAttach, TypeOK
  <2>4. UNCHANGED <<held, unacked, chain, cut>>
    BY <1>5 DEF AttachResends
  <2>. QED
    BY <1>b, <1>c, <2>2, <2>3, <2>4 DEF StartedInv, Started, Kept
<1>. QED
  BY <1>1, <1>2, <1>3, <1>4, <1>5 DEF AttachStep

\* Every step keeps a started command on record, or leaves its answer stored or
\* its loss on the retention bound.
LEMMA StartedNext ==
  ASSUME TypeOK, StartedInv, [Next]_vars
  PROVE  StartedInv'
<1>1. CASE UNCHANGED vars
  BY <1>1 DEF vars, memory, work, world, StartedInv, Started
<1>2. CASE Next
  BY <1>2, StartedTask, StartedSession, StartedAttach DEF Next
<1>. QED BY <1>1, <1>2

\* Every step of the outbox is a step of OutcomeDelivery, or changes nothing
\* it speaks of.
LEMMA DeliveryStep ==
  ASSUME Confirming, ~JournalMayFail, KeepInv, StartedInv, [Next]_vars
  PROVE  [Delivery!DeliveryNext]_(Delivery!delivery)
<1>. DEFINE answered == {c \in Cmd : got[c] # {}}
<1>0. TypeOK
  BY DEF KeepInv, PeerInv
<1>1. \A c \in Cmd : Started(c) => c \in Kept(journal) \cup answered \cup dropped
  BY DEF KeepInv, NeverForgotten, Kept
<1>2. ASSUME UNCHANGED <<journal, got, dropped>>
      PROVE  UNCHANGED Delivery!delivery
  BY <1>2 DEF Delivery!delivery, Kept
<1>3. ASSUME NEW c \in Cmd, WriteLands(c)
      PROVE  Delivery!Accept(c)
  <2>1. PICK w : WriterDone(c, w)
    BY <1>3 DEF WriteLands
  <2>2. journal'[c] # NoOutcome /\ \A d \in Cmd \ {c} : journal'[d] = journal[d]
    BY <2>1, <1>0, WrittenSomething DEF WriterDone, TypeOK
  <2>3. UNCHANGED <<got, dropped>>
    BY <1>3 DEF WriteLands, world
  <2>. QED
    BY <2>2, <2>3 DEF Delivery!Accept, Kept
<1>4. ASSUME NEW c \in Cmd, RemoveLands(c)
      PROVE  Delivery!Forget(c)
  <2>1. c \in answered \cup dropped
    BY <1>4 DEF RemoveLands, KeepInv, PeerInv, RemovalJustified
  <2>2. Kept(journal)' = Kept(journal) \ {c}
    BY <1>0, <1>4 DEF RemoveLands, Kept, TypeOK
  <2>3. UNCHANGED <<got, dropped>>
    BY <1>4 DEF RemoveLands, world
  <2>. QED
    BY <2>1, <2>2, <2>3 DEF Delivery!Forget
<1>5. ASSUME NEW c \in Cmd, NEW o \in Outcome, PanelStores(c, o)
      PROVE  Delivery!Answer(c) \/ UNCHANGED Delivery!delivery
  <2>1. Started(c)
    BY <1>5 DEF PanelStores, StartedInv
  <2>2. UNCHANGED <<journal, dropped>>
    BY <1>5 DEF PanelStores
  <2>3. answered' = answered \cup {c}
    BY <1>0, <1>5 DEF PanelStores, TypeOK
  <2>. QED
    BY <1>1, <2>1, <2>2, <2>3 DEF Delivery!Answer, Delivery!delivery, Kept
<1>6. ASSUME NEW a \in Attaches, AttachPrunes(a)
      PROVE  \E S \in SUBSET Cmd : Delivery!Abandon(S)
  <2>1. PICK drop \in SUBSET Kept(unacked) : dropped' = dropped \cup (drop \ running)
    BY <1>6 DEF AttachPrunes
  <2>2. drop \ running \subseteq Kept(journal) \cup answered \cup dropped
    BY <1>1 DEF StartedInv, Kept
  <2>3. UNCHANGED <<journal, got>>
    BY <1>6 DEF AttachPrunes, world
  <2>4. drop \ running \in SUBSET Cmd
    BY DEF Kept
  <2>5. Delivery!Abandon(drop \ running)
    BY <2>1, <2>2, <2>3 DEF Delivery!Abandon, Kept
  <2>. QED
    BY <2>4, <2>5
<1>7. ASSUME NEW c \in Cmd,
             \/ Dispatch(c) \/ EvictSeen(c) \/ AckArrives(c)
             \/ \E r \in Run : StartHandler(c, r) \/ Finish(c, r) \/ Deliver(c, r)
      PROVE  UNCHANGED <<journal, got, dropped>>
  BY <1>7 DEF Dispatch, EvictSeen, AckArrives, StartHandler, Finish, Deliver, world
<1>8. ASSUME NEW a \in Attaches, AttachStep(a), ~AttachPrunes(a)
      PROVE  UNCHANGED <<journal, got, dropped>>
  BY <1>8 DEF AttachStep, AttachFrame, AttachCleared, AttachLists, AttachFilters,
     AttachReads, AttachApplies, AttachResends, world
<1>9. ASSUME Tick \/ ResendTimer \/ BeginClose \/ Close \/ Crash
             \/ \E p \in PeerKinds : SessionOpen(p)
      PROVE  UNCHANGED <<journal, got, dropped>>
  BY <1>9 DEF Tick, ResendTimer, BeginClose, Close, Crash, SessionOpen, world
<1>10. CASE UNCHANGED vars
  BY <1>2, <1>10 DEF vars, world
<1>11. CASE Next
  BY <1>2, <1>3, <1>4, <1>5, <1>6, <1>7, <1>8, <1>9, <1>11
  DEF Next, TaskStep, Delivery!DeliveryNext
<1>. QED BY <1>10, <1>11

\* With a control plane that confirms results the outbox implements
\* OutcomeDelivery: only a recorded command is answered or given up, and a
\* record goes only after one of the two.
THEOREM ImplementsDelivery ==
  ASSUME Confirming, ~JournalMayFail
  PROVE  Spec => RefinesDelivery
<1>1. Init => KeepInv /\ StartedInv
  BY KeepInit, StartedInit
<1>2. KeepInv /\ StartedInv /\ [Next]_vars => (KeepInv /\ StartedInv)'
  BY KeepNext, StartedNext DEF KeepInv, PeerInv
<1>3. Init => Delivery!DeliveryInit
  BY DEF Init, Delivery!DeliveryInit, Kept
<1>4. KeepInv /\ StartedInv /\ [Next]_vars => [Delivery!DeliveryNext]_(Delivery!delivery)
  BY DeliveryStep
<1>. QED
  BY <1>1, <1>2, <1>3, <1>4, PTL DEF Spec, RefinesDelivery, Delivery!DeliverySpec

-----------------------------------------------------------------------------
(***************************************************************************)
(* No command runs twice at the same time, with any control plane.         *)
(***************************************************************************)

\* A command whose handler was accepted and has not finished is in running.
RunningWhileBusy == \A c \in Cmd, r \in Run : task[c][r] \in Busy => c \in running

\* A queued mark belongs to a run that still waits for it, and there is only
\* one; an acknowledgement never cuts one off.
MarkStillAwaited ==
  \A c \in Cmd :
    /\ \A w \in Queued(chain[c]) : w.by = "mark" => task[c][w.run] = "marking"
    /\ \A i, j \in 1 .. Len(chain[c]) :
         chain[c][i].by = "mark" /\ chain[c][j].by = "mark" => i = j
    /\ \A w \in Queued(cut[c]) : w.by # "mark"

\* A queued outcome belongs to a run whose handler has ended.
OutcomeAfterHandler ==
  \A c \in Cmd : \A w \in Queued(chain[c]) \cup Queued(cut[c]) :
    w.by = "deliver" => task[c][w.run] \in {"storing", "stored", "done"}

\* The inductive invariant behind OneHandlerAtATime.
HandlerInv ==
  /\ TypeOK /\ OneHandlerAtATime
  /\ RunningWhileBusy /\ MarkStillAwaited /\ OutcomeAfterHandler

\* No handler runs at the beginning.
LEMMA HandlerInit == Init => HandlerInv
BY InitType, QueuedEmpty, EmptySeq DEF Init, HandlerInv, OneHandlerAtATime,
   RunningWhileBusy, MarkStillAwaited, OutcomeAfterHandler, Busy

\* A step that leaves tasks, running commands and chains alone preserves it.
LEMMA HandlerUnchanged ==
  ASSUME HandlerInv, TypeOK', UNCHANGED <<task, running, chain, cut>>
  PROVE  HandlerInv'
BY DEF HandlerInv, OneHandlerAtATime, RunningWhileBusy, MarkStillAwaited,
   OutcomeAfterHandler

\* Appending a write that is no mark adds no mark.
LEMMA AppendOther ==
  ASSUME NEW q \in Seq(Writer), NEW w \in Writer, w.by # "mark",
         \A i, j \in 1 .. Len(q) : q[i].by = "mark" /\ q[j].by = "mark" => i = j
  PROVE  \A i, j \in 1 .. Len(Append(q, w)) :
           Append(q, w)[i].by = "mark" /\ Append(q, w)[j].by = "mark" => i = j
<1>1. /\ Len(Append(q, w)) = Len(q) + 1 /\ Len(q) \in Nat
      /\ \A i \in 1 .. Len(q) : Append(q, w)[i] = q[i]
      /\ Append(q, w)[Len(q) + 1] = w
  BY AppendProperties, LenProperties
<1>. QED BY <1>1

\* Appending a mark to a queue without one makes it the only one.
LEMMA AppendMark ==
  ASSUME NEW q \in Seq(Writer), NEW w \in Writer,
         \A v \in Queued(q) : v.by # "mark"
  PROVE  \A i, j \in 1 .. Len(Append(q, w)) :
           Append(q, w)[i].by = "mark" /\ Append(q, w)[j].by = "mark" => i = j
<1>1. /\ Len(Append(q, w)) = Len(q) + 1 /\ Len(q) \in Nat
      /\ \A i \in 1 .. Len(q) : Append(q, w)[i] = q[i]
  BY AppendProperties, LenProperties
<1>. QED BY <1>1 DEF Queued

\* What is left of a queue with at most one mark has at most one, and none if
\* the mark was first.
LEMMA TailMarks ==
  ASSUME NEW q \in Seq(Writer), q # <<>>,
         \A i, j \in 1 .. Len(q) : q[i].by = "mark" /\ q[j].by = "mark" => i = j
  PROVE  /\ \A i, j \in 1 .. Len(Tail(q)) :
              Tail(q)[i].by = "mark" /\ Tail(q)[j].by = "mark" => i = j
         /\ Head(q).by = "mark" => \A v \in Queued(Tail(q)) : v.by # "mark"
<1>1. /\ Len(q) \in Nat \ {0} /\ Len(Tail(q)) = Len(q) - 1
      /\ \A i \in 1 .. Len(Tail(q)) : Tail(q)[i] = q[i+1]
  BY HeadTailProperties, EmptySeq, LenProperties
<1>2. Head(q) = q[1]
  OBVIOUS
<1>3. \A i \in 1 .. Len(Tail(q)) : i + 1 \in 1 .. Len(q) /\ i + 1 # 1
  BY <1>1
<1>4. 1 \in 1 .. Len(q)
  BY <1>1
<1>. QED BY <1>1, <1>2, <1>3, <1>4 DEF Queued

\* A dispatch starts a handler only when none is under way.
LEMMA HandlerDispatch ==
  ASSUME HandlerInv, TypeOK', NEW c \in Cmd, Dispatch(c)
  PROVE  HandlerInv'
<1>0. TypeOK
  BY DEF HandlerInv
<1>1. UNCHANGED cut
  BY DEF Dispatch
<1>2. CASE AnswerRepeated(c)
  BY <1>1, <1>2, HandlerUnchanged DEF AnswerRepeated
<1>3. CASE c \notin seen /\ ~Known(c) /\ MarkInFlight(c)
  <2>1. PICK r \in Run :
          /\ task[c][r] = "none"
          /\ running' = running \cup {c}
          /\ task' = [task EXCEPT ![c][r] = "marking"]
          /\ chain' = [chain EXCEPT ![c] = Append(@, [by |-> "mark", run |-> r])]
    BY <1>3 DEF MarkInFlight
  <2>. DEFINE w == [by |-> "mark", run |-> r]
  <2>2. w \in Writer /\ w.by = "mark" /\ w.run = r
    BY DEF Writer
  <2>3. \A q \in Run : task[c][q] \notin Busy
    BY <1>3 DEF Known, HandlerInv, RunningWhileBusy
  <2>4. /\ task'[c][r] = "marking"
        /\ \A q \in Run \ {r} : task'[c][q] = task[c][q]
        /\ \A d \in Cmd \ {c} : task'[d] = task[d]
    BY <1>0, <2>1 DEF TypeOK
  <2>5. chain'[c] = Append(chain[c], w) /\ \A d \in Cmd \ {c} : chain'[d] = chain[d]
    BY <1>0, <2>1 DEF TypeOK
  <2>. HIDE DEF w
  <2>6. chain[c] \in Seq(Writer)
    BY <1>0 DEF TypeOK
  <2>7. Queued(chain'[c]) = Queued(chain[c]) \cup {w}
    BY <2>2, <2>5, <2>6, QueuedAppend
  <2>8. \A v \in Queued(chain[c]) : v \in Writer
    BY <2>6, ElementOfSeq DEF Queued
  <2>9. \A v \in Queued(cut[c]) : v \in Writer
    BY <1>0, ElementOfSeq DEF Queued, TypeOK
  <2>10. \A v \in Writer : v.by \in {"mark", "deliver"} => v.run \in Run
    BY DEF Writer
  <2>11. \A v \in Queued(chain[c]) : v.by # "mark"
    BY <2>3, <2>8, <2>10 DEF HandlerInv, MarkStillAwaited, Busy
  <2>12. OneHandlerAtATime'
    BY <2>3, <2>4 DEF HandlerInv, OneHandlerAtATime
  <2>13. RunningWhileBusy'
    BY <2>1, <2>4 DEF HandlerInv, RunningWhileBusy
  <2>14. MarkStillAwaited'
    <3>1. \A i, j \in 1 .. Len(chain'[c]) :
            chain'[c][i].by = "mark" /\ chain'[c][j].by = "mark" => i = j
      BY <2>2, <2>5, <2>6, <2>11, AppendMark
    <3>2. \A v \in Queued(chain'[c]) : v.by = "mark" => task'[c][v.run] = "marking"
      BY <2>2, <2>4, <2>7, <2>11
    <3>3. \A d \in Cmd \ {c} :
            /\ \A v \in Queued(chain'[d]) : v.by = "mark" => task'[d][v.run] = "marking"
            /\ \A i, j \in 1 .. Len(chain'[d]) :
                 chain'[d][i].by = "mark" /\ chain'[d][j].by = "mark" => i = j
      BY <2>4, <2>5 DEF HandlerInv, MarkStillAwaited
    <3>4. \A d \in Cmd : \A v \in Queued(cut'[d]) : v.by # "mark"
      BY <1>1 DEF HandlerInv, MarkStillAwaited
    <3>. QED
      BY <3>1, <3>2, <3>3, <3>4 DEF MarkStillAwaited
  <2>15. OutcomeAfterHandler'
    BY <1>1, <2>1, <2>2, <2>4, <2>5, <2>7, <2>8, <2>9, <2>10
    DEF HandlerInv, OutcomeAfterHandler
  <2>. QED
    BY <2>12, <2>13, <2>14, <2>15 DEF HandlerInv
<1>. QED BY <1>2, <1>3 DEF Dispatch

\* The queues' writes are writes, and those of a task name a run.
LEMMA QueuedType ==
  ASSUME TypeOK, NEW c \in Cmd
  PROVE  \A w \in Queued(chain[c]) \cup Queued(cut[c]) :
           w \in Writer /\ (w.by \in {"mark", "deliver"} => w.run \in Run)
<1>1. \A w \in Queued(chain[c]) \cup Queued(cut[c]) : w \in Writer
  BY ElementOfSeq DEF Queued, TypeOK
<1>. QED BY <1>1 DEF Writer

\* A write that lands moves only its own run, and never into a second handler.
LEMMA HandlerWrite ==
  ASSUME HandlerInv, TypeOK', NEW c \in Cmd, WriteLands(c)
  PROVE  HandlerInv'
<1>0. TypeOK
  BY DEF HandlerInv
<1>1. running' = running
  BY DEF WriteLands, memory
<1>2. PICK w \in Queued(chain[c]) \cup Queued(cut[c]) :
        /\ WriterDone(c, w)
        /\ \A d \in Cmd : /\ Queued(chain'[d]) \subseteq Queued(chain[d])
                          /\ Queued(cut'[d]) \subseteq Queued(cut[d])
        /\ \A d \in Cmd : \A i, j \in 1 .. Len(chain'[d]) :
             chain'[d][i].by = "mark" /\ chain'[d][j].by = "mark" => i = j
        /\ w.by = "mark" => \A v \in Queued(chain'[c]) : v.by # "mark"
  <2>1. CASE /\ chain[c] # <<>>
             /\ WriterDone(c, Head(chain[c]))
             /\ chain' = [chain EXCEPT ![c] = Tail(@)]
             /\ UNCHANGED cut
    <3>1. chain[c] \in Seq(Writer)
      BY <1>0 DEF TypeOK
    <3>2. /\ Head(chain[c]) \in Queued(chain[c])
          /\ Queued(Tail(chain[c])) \subseteq Queued(chain[c])
      BY <2>1, <3>1, QueuedTail
    <3>3. chain'[c] = Tail(chain[c]) /\ \A d \in Cmd \ {c} : chain'[d] = chain[d]
      BY <1>0, <2>1 DEF TypeOK
    <3>4. \A d \in Cmd : \A i, j \in 1 .. Len(chain[d]) :
            chain[d][i].by = "mark" /\ chain[d][j].by = "mark" => i = j
      BY DEF HandlerInv, MarkStillAwaited
    <3>5. /\ \A i, j \in 1 .. Len(Tail(chain[c])) :
               Tail(chain[c])[i].by = "mark" /\ Tail(chain[c])[j].by = "mark" => i = j
          /\ Head(chain[c]).by = "mark" => \A v \in Queued(Tail(chain[c])) : v.by # "mark"
      BY <2>1, <3>1, <3>4, TailMarks
    <3>6. \A d \in Cmd : \A i, j \in 1 .. Len(chain'[d]) :
            chain'[d][i].by = "mark" /\ chain'[d][j].by = "mark" => i = j
      BY <3>3, <3>4, <3>5
    <3>. QED
      BY <2>1, <3>2, <3>3, <3>5, <3>6
  <2>2. CASE /\ cut[c] # <<>>
             /\ WriterDone(c, Head(cut[c]))
             /\ cut' = [cut EXCEPT ![c] = Tail(@)]
             /\ UNCHANGED chain
    <3>1. /\ Head(cut[c]) \in Queued(cut[c])
          /\ Queued(Tail(cut[c])) \subseteq Queued(cut[c])
      BY <1>0, <2>2, QueuedTail DEF TypeOK
    <3>2. cut'[c] = Tail(cut[c]) /\ \A d \in Cmd \ {c} : cut'[d] = cut[d]
      BY <1>0, <2>2 DEF TypeOK
    <3>3. Head(cut[c]).by # "mark"
      BY <3>1 DEF HandlerInv, MarkStillAwaited
    <3>4. \A d \in Cmd : \A i, j \in 1 .. Len(chain[d]) :
            chain[d][i].by = "mark" /\ chain[d][j].by = "mark" => i = j
      BY DEF HandlerInv, MarkStillAwaited
    <3>. QED
      BY <2>2, <3>1, <3>2, <3>3, <3>4
  <2>. QED BY <2>1, <2>2 DEF WriteLands
<1>3. CASE w.by = "orphan"
  <2>1. task' = task
    BY <1>2, <1>3 DEF WriterDone
  <2>. QED
    BY <1>1, <1>2, <2>1 DEF HandlerInv, OneHandlerAtATime, RunningWhileBusy,
       MarkStillAwaited, OutcomeAfterHandler
<1>4. CASE w.by \in {"mark", "deliver"}
  <2>. DEFINE pc == IF w.by = "mark" THEN "marked" ELSE "stored"
  <2>1. w.run \in Run
    BY <1>0, <1>4, QueuedType
  <2>2. task' = [task EXCEPT ![c][w.run] = pc]
    BY <1>2, <1>4 DEF WriterDone
  <2>3. /\ task'[c][w.run] = pc
        /\ \A q \in Run : q # w.run => task'[c][q] = task[c][q]
        /\ \A d \in Cmd \ {c} : task'[d] = task[d]
    BY <1>0, <2>1, <2>2 DEF TypeOK
  <2>4. w.by = "mark" => task[c][w.run] = "marking" /\ pc = "marked"
    BY <1>2 DEF HandlerInv, MarkStillAwaited
  <2>5. w.by = "deliver" => /\ task[c][w.run] \in {"storing", "stored", "done"}
                            /\ pc = "stored"
    BY <1>2 DEF HandlerInv, OutcomeAfterHandler
  <2>. HIDE DEF pc
  <2>6. \A r \in Run : task'[c][r] \in Busy => task[c][r] \in Busy
    BY <1>4, <2>3, <2>4, <2>5 DEF Busy
  <2>7. OneHandlerAtATime'
    BY <2>3, <2>6 DEF HandlerInv, OneHandlerAtATime
  <2>8. RunningWhileBusy'
    BY <1>1, <2>3, <2>6 DEF HandlerInv, RunningWhileBusy
  <2>9. \A v \in Queued(chain'[c]) : v.by = "mark" => task'[c][v.run] = "marking"
    <3>. SUFFICES ASSUME NEW v \in Queued(chain'[c]), v.by = "mark"
                  PROVE  task'[c][v.run] = "marking"
      OBVIOUS
    <3>1. v \in Queued(chain[c]) /\ w.by # "mark"
      BY <1>2
    <3>2. v.run \in Run /\ task[c][v.run] = "marking"
      BY <1>0, <3>1, QueuedType DEF HandlerInv, MarkStillAwaited
    <3>. QED
      BY <1>4, <2>3, <2>5, <3>1, <3>2
  <2>10. MarkStillAwaited'
    <3>1. \A d \in Cmd \ {c} : \A v \in Queued(chain'[d]) :
            v.by = "mark" => task'[d][v.run] = "marking"
      BY <1>2, <2>3 DEF HandlerInv, MarkStillAwaited
    <3>2. \A d \in Cmd : \A v \in Queued(cut'[d]) : v.by # "mark"
      BY <1>2 DEF HandlerInv, MarkStillAwaited
    <3>. QED
      BY <1>2, <2>9, <3>1, <3>2 DEF MarkStillAwaited
  <2>11. \A v \in Queued(chain'[c]) \cup Queued(cut'[c]) :
           v.by = "deliver" => task'[c][v.run] \in {"storing", "stored", "done"}
    <3>. SUFFICES ASSUME NEW v \in Queued(chain'[c]) \cup Queued(cut'[c]), v.by = "deliver"
                  PROVE  task'[c][v.run] \in {"storing", "stored", "done"}
      OBVIOUS
    <3>1. v \in Queued(chain[c]) \cup Queued(cut[c])
      BY <1>2
    <3>2. v.run \in Run /\ task[c][v.run] \in {"storing", "stored", "done"}
      BY <1>0, <3>1, QueuedType DEF HandlerInv, OutcomeAfterHandler
    <3>. QED
      BY <1>4, <2>3, <2>4, <2>5, <3>2
  <2>12. OutcomeAfterHandler'
    <3>1. \A d \in Cmd \ {c} : \A v \in Queued(chain'[d]) \cup Queued(cut'[d]) :
            v.by = "deliver" => task'[d][v.run] \in {"storing", "stored", "done"}
      BY <1>2, <2>3 DEF HandlerInv, OutcomeAfterHandler
    <3>. QED
      BY <2>11, <3>1 DEF OutcomeAfterHandler
  <2>. QED
    BY <2>7, <2>8, <2>10, <2>12 DEF HandlerInv
<1>. QED
  BY <1>0, <1>3, <1>4, QueuedType DEF Writer

\* Starting, finishing and delivering move one run on.
LEMMA HandlerTask ==
  ASSUME HandlerInv, TypeOK', NEW c \in Cmd, NEW r \in Run,
         StartHandler(c, r) \/ Finish(c, r) \/ Deliver(c, r)
  PROVE  HandlerInv'
<1>0. TypeOK
  BY DEF HandlerInv
<1>1. UNCHANGED cut
  BY DEF StartHandler, Finish, Deliver
<1>2. PICK pc \in {"handling", "storing", "done"} :
        /\ task' = [task EXCEPT ![c][r] = pc]
        /\ pc = "handling" => task[c][r] = "marked" /\ running' = running /\ chain' = chain
        /\ pc = "storing" => task[c][r] = "handling" /\ running' = running \ {c}
        /\ pc = "done" => task[c][r] = "stored" /\ running' = running /\ chain' = chain
  BY DEF StartHandler, Finish, Deliver, memory
<1>3. /\ task'[c][r] = pc /\ \A q \in Run \ {r} : task'[c][q] = task[c][q]
      /\ \A d \in Cmd \ {c} : task'[d] = task[d]
  BY <1>0, <1>2 DEF TypeOK
<1>4. \A q \in Run : task'[c][q] \in Busy => task[c][q] \in Busy
  BY <1>2, <1>3 DEF Busy
<1>5. OneHandlerAtATime'
  BY <1>3, <1>4 DEF HandlerInv, OneHandlerAtATime
<1>6. RunningWhileBusy'
  <2>1. \A d \in Cmd \ {c}, q \in Run : task'[d][q] \in Busy => d \in running'
    BY <1>2, <1>3 DEF HandlerInv, RunningWhileBusy
  <2>2. CASE pc = "storing"
    <3>1. \A q \in Run : task'[c][q] \notin Busy
      BY <1>2, <1>3, <2>2 DEF HandlerInv, OneHandlerAtATime, Busy
    <3>. QED BY <2>1, <3>1 DEF RunningWhileBusy
  <2>3. CASE pc # "storing"
    BY <1>2, <1>4, <2>1, <2>3 DEF HandlerInv, RunningWhileBusy
  <2>. QED BY <2>2, <2>3
<1>7. /\ \A d \in Cmd \ {c} : chain'[d] = chain[d]
      /\ \A v \in Queued(chain'[c]) :
           \/ v \in Queued(chain[c])
           \/ v.by = "deliver" /\ v.run = r /\ pc = "storing"
      /\ \A i, j \in 1 .. Len(chain'[c]) :
           chain'[c][i].by = "mark" /\ chain'[c][j].by = "mark" => i = j
  <2>1. CASE chain' = chain
    BY <2>1 DEF HandlerInv, MarkStillAwaited
  <2>2. CASE Finish(c, r)
    <3>. DEFINE w == [by |-> "deliver", run |-> r]
    <3>1. w \in Writer /\ w.by = "deliver" /\ w.run = r
      BY DEF Writer
    <3>2. chain'[c] = Append(chain[c], w) /\ \A d \in Cmd \ {c} : chain'[d] = chain[d]
      BY <1>0, <2>2 DEF Finish, TypeOK
    <3>3. pc = "storing"
      BY <1>0, <1>3, <2>2 DEF Finish, TypeOK
    <3>. HIDE DEF w
    <3>4. chain[c] \in Seq(Writer)
      BY <1>0 DEF TypeOK
    <3>5. Queued(chain'[c]) = Queued(chain[c]) \cup {w}
      BY <3>1, <3>2, <3>4, QueuedAppend
    <3>6. \A i, j \in 1 .. Len(chain'[c]) :
            chain'[c][i].by = "mark" /\ chain'[c][j].by = "mark" => i = j
      BY <3>1, <3>2, <3>4, AppendOther DEF HandlerInv, MarkStillAwaited
    <3>. QED BY <3>1, <3>2, <3>3, <3>5, <3>6
  <2>. QED BY <2>1, <2>2 DEF StartHandler, Deliver
<1>8. MarkStillAwaited'
  <2>1. \A v \in Queued(chain'[c]) : v.by = "mark" => task'[c][v.run] = "marking"
    <3>. SUFFICES ASSUME NEW v \in Queued(chain'[c]), v.by = "mark"
                  PROVE  task'[c][v.run] = "marking"
      OBVIOUS
    <3>1. v \in Queued(chain[c])
      BY <1>7
    <3>2. v.run \in Run /\ task[c][v.run] = "marking"
      BY <1>0, <3>1, QueuedType DEF HandlerInv, MarkStillAwaited
    <3>. QED BY <1>2, <1>3, <3>2
  <2>2. \A d \in Cmd \ {c} :
          /\ \A v \in Queued(chain'[d]) : v.by = "mark" => task'[d][v.run] = "marking"
          /\ \A i, j \in 1 .. Len(chain'[d]) :
               chain'[d][i].by = "mark" /\ chain'[d][j].by = "mark" => i = j
    BY <1>3, <1>7 DEF HandlerInv, MarkStillAwaited
  <2>3. \A d \in Cmd : \A v \in Queued(cut'[d]) : v.by # "mark"
    BY <1>1 DEF HandlerInv, MarkStillAwaited
  <2>. QED BY <1>7, <2>1, <2>2, <2>3 DEF MarkStillAwaited
<1>9. OutcomeAfterHandler'
  <2>1. \A v \in Queued(chain'[c]) \cup Queued(cut'[c]) :
          v.by = "deliver" => task'[c][v.run] \in {"storing", "stored", "done"}
    <3>. SUFFICES ASSUME NEW v \in Queued(chain'[c]) \cup Queued(cut'[c]), v.by = "deliver"
                  PROVE  task'[c][v.run] \in {"storing", "stored", "done"}
      OBVIOUS
    <3>1. CASE v \in Queued(chain[c]) \cup Queued(cut[c])
      <4>1. v.run \in Run /\ task[c][v.run] \in {"storing", "stored", "done"}
        BY <1>0, <3>1, QueuedType DEF HandlerInv, OutcomeAfterHandler
      <4>. QED BY <1>2, <1>3, <4>1
    <3>2. CASE v.run = r /\ pc = "storing"
      BY <1>3, <3>2
    <3>. QED BY <1>1, <1>7, <3>1, <3>2
  <2>2. \A d \in Cmd \ {c} : \A v \in Queued(chain'[d]) \cup Queued(cut'[d]) :
          v.by = "deliver" => task'[d][v.run] \in {"storing", "stored", "done"}
    BY <1>1, <1>3, <1>7 DEF HandlerInv, OutcomeAfterHandler
  <2>. QED BY <2>1, <2>2 DEF OutcomeAfterHandler
<1>. QED
  BY <1>5, <1>6, <1>8, <1>9 DEF HandlerInv

\* An acknowledgement cuts off only chains of commands that are not running.
LEMMA HandlerAcknowledge ==
  ASSUME HandlerInv, TypeOK', NEW S, Acknowledge(S), UNCHANGED <<task, running>>
  PROVE  HandlerInv'
<1>0. TypeOK
  BY DEF HandlerInv
<1>1. \A c \in Cmd :
        \/ chain'[c] = chain[c] /\ cut'[c] = cut[c]
        \/ c \notin running /\ chain'[c] = <<>> /\ cut'[c] = cut[c] \o chain[c]
  BY DEF Acknowledge
<1>2. ASSUME NEW c \in Cmd, c \notin running
      PROVE  \A v \in Queued(chain[c]) : v.by # "mark"
  <2>1. \A r \in Run : task[c][r] \notin Busy
    BY <1>2 DEF HandlerInv, RunningWhileBusy
  <2>. QED
    BY <1>0, <2>1, QueuedType DEF HandlerInv, MarkStillAwaited, Busy
<1>3. \A c \in Cmd : Queued(cut[c] \o chain[c]) \subseteq Queued(cut[c]) \cup Queued(chain[c])
  BY <1>0, QueuedConcat DEF TypeOK
<1>4. \A c \in Cmd : Queued(chain'[c]) \subseteq Queued(chain[c])
  BY <1>1, QueuedEmpty
<1>5. \A c \in Cmd : \A v \in Queued(cut'[c]) :
        v \in Queued(cut[c]) \/ (v \in Queued(chain[c]) /\ v.by # "mark")
  BY <1>1, <1>2, <1>3
<1>6. \A c \in Cmd : \A i, j \in 1 .. Len(chain'[c]) :
        chain'[c][i].by = "mark" /\ chain'[c][j].by = "mark" => i = j
  <2>1. 1 .. Len(<<>>) = {}
    BY EmptySeq
  <2>. QED
    BY <1>1, <2>1 DEF HandlerInv, MarkStillAwaited
<1>7. MarkStillAwaited'
  BY <1>4, <1>5, <1>6 DEF HandlerInv, MarkStillAwaited
<1>8. OutcomeAfterHandler'
  BY <1>4, <1>5 DEF HandlerInv, OutcomeAfterHandler
<1>. QED
  BY <1>7, <1>8 DEF HandlerInv, OneHandlerAtATime, RunningWhileBusy

\* A kill ends every handler.
LEMMA HandlerCrash ==
  ASSUME HandlerInv, TypeOK', Crash
  PROVE  HandlerInv'
<1>1. \A c \in Cmd, r \in Run : task'[c][r] \notin Busy
  BY DEF Crash, Busy
<1>2. \A c \in Cmd : chain'[c] = <<>> /\ cut'[c] = <<>>
  BY DEF Crash
<1>. QED
  BY <1>1, <1>2, QueuedEmpty, EmptySeq DEF HandlerInv, OneHandlerAtATime, RunningWhileBusy,
     MarkStillAwaited, OutcomeAfterHandler

\* An attach queues orphan answers and acknowledges, and starts nothing.
LEMMA HandlerAttach ==
  ASSUME HandlerInv, TypeOK', NEW a \in Attaches, AttachStep(a)
  PROVE  HandlerInv'
<1>0. TypeOK
  BY DEF HandlerInv
<1>1. CASE AttachApplies(a)
  <2>. DEFINE w == [by |-> "orphan", att |-> a]
  <2>1. w \in Writer /\ w.by = "orphan"
    BY DEF Writer
  <2>2. UNCHANGED <<task, running, cut>>
    BY <1>1 DEF AttachApplies
  <2>3. \A c \in Cmd : chain'[c] = chain[c] \/ chain'[c] = Append(chain[c], w)
    BY <1>1 DEF AttachApplies
  <2>. HIDE DEF w
  <2>4. ASSUME NEW c \in Cmd
        PROVE  /\ \A v \in Queued(chain'[c]) : v \in Queued(chain[c]) \/ v.by = "orphan"
               /\ \A i, j \in 1 .. Len(chain'[c]) :
                    chain'[c][i].by = "mark" /\ chain'[c][j].by = "mark" => i = j
    <3>1. chain[c] \in Seq(Writer)
      BY <1>0 DEF TypeOK
    <3>2. \A i, j \in 1 .. Len(chain[c]) :
            chain[c][i].by = "mark" /\ chain[c][j].by = "mark" => i = j
      BY DEF HandlerInv, MarkStillAwaited
    <3>3. CASE chain'[c] = chain[c]
      BY <3>2, <3>3
    <3>4. CASE chain'[c] = Append(chain[c], w)
      BY <2>1, <3>1, <3>2, <3>4, QueuedAppend, AppendOther
    <3>. QED BY <2>3, <3>3, <3>4
  <2>5. MarkStillAwaited'
    BY <2>2, <2>4 DEF HandlerInv, MarkStillAwaited
  <2>6. OutcomeAfterHandler'
    BY <2>2, <2>4 DEF HandlerInv, OutcomeAfterHandler
  <2>. QED
    BY <2>2, <2>5, <2>6 DEF HandlerInv, OneHandlerAtATime, RunningWhileBusy
<1>2. CASE AttachPrunes(a)
  <2>1. PICK drop : Acknowledge(drop)
    BY <1>2 DEF AttachPrunes
  <2>2. UNCHANGED <<task, running>>
    BY <1>2 DEF AttachPrunes
  <2>. QED
    BY <2>1, <2>2, HandlerAcknowledge
<1>3. CASE \/ AttachFrame(a) \/ AttachCleared(a) \/ AttachLists(a) \/ AttachFilters(a)
           \/ AttachReads(a) \/ AttachResends(a)
  <2>1. UNCHANGED <<task, running, chain, cut>>
    BY <1>3 DEF AttachFrame, AttachCleared, AttachLists, AttachFilters, AttachReads,
       AttachResends, memory
  <2>. QED
    BY <2>1, HandlerUnchanged
<1>. QED
  BY <1>1, <1>2, <1>3 DEF AttachStep

\* Every step keeps at most one run of a command under way.
LEMMA HandlerNext == HandlerInv /\ [Next]_vars => HandlerInv'
<1>. SUFFICES ASSUME HandlerInv, [Next]_vars PROVE HandlerInv'
  OBVIOUS
<1>0. TypeOK'
  BY NextType DEF HandlerInv
<1>1. ASSUME NEW c \in Cmd, Dispatch(c) \/ EvictSeen(c) \/ TaskStep(c) \/ AckArrives(c)
      PROVE  HandlerInv'
  <2>1. CASE Dispatch(c)
    BY <1>0, <2>1, HandlerDispatch
  <2>2. CASE EvictSeen(c) \/ RemoveLands(c)
    <3>1. UNCHANGED <<task, running, chain, cut>>
      BY <2>2 DEF EvictSeen, RemoveLands, memory, work
    <3>. QED
      BY <1>0, <3>1, HandlerUnchanged
  <2>3. CASE WriteLands(c)
    BY <1>0, <2>3, HandlerWrite
  <2>4. CASE \E r \in Run : StartHandler(c, r) \/ Finish(c, r) \/ Deliver(c, r)
    BY <1>0, <2>4, HandlerTask
  <2>5. CASE AckArrives(c)
    <3>1. Acknowledge({c}) /\ UNCHANGED <<task, running>>
      BY <2>5 DEF AckArrives
    <3>. QED
      BY <1>0, <3>1, HandlerAcknowledge
  <2>. QED
    BY <1>1, <2>1, <2>2, <2>3, <2>4, <2>5 DEF TaskStep
<1>2. ASSUME \/ Tick \/ ResendTimer \/ BeginClose \/ Close
             \/ \E p \in PeerKinds : SessionOpen(p)
             \/ \E c \in Cmd, o \in Outcome : PanelStores(c, o)
             \/ UNCHANGED vars
      PROVE  HandlerInv'
  <2>1. UNCHANGED <<task, running, chain, cut>>
    BY <1>2 DEF Tick, ResendTimer, BeginClose, Close, SessionOpen, PanelStores, vars,
       memory, work
  <2>. QED
    BY <1>0, <2>1, HandlerUnchanged
<1>. QED
  BY <1>0, <1>1, <1>2, HandlerCrash, HandlerAttach DEF Next

\* Whatever the control plane dispatches again, and whatever the journal, the
\* sockets and the dedupe memory lose, one daemon never runs two handlers of
\* the same command at a time.
THEOREM OneHandler == Spec => []OneHandlerAtATime
<1>1. HandlerInv => OneHandlerAtATime
  BY DEF HandlerInv
<1>. QED
  BY HandlerInit, HandlerNext, <1>1, PTL DEF Spec
-----------------------------------------------------------------------------
(***************************************************************************)
(* Whatever control plane is met: a journal entry is cleared only once an  *)
(* outcome was put on some socket.                                         *)
(***************************************************************************)

\* A removal under way is for a command sent or given up.
RemovedWasSent == removing \subseteq sent \cup dropped

\* What counts as sent on this socket, is under way or is confirmed was sent.
NotedWasSent == \A c \in Cmd : sentOn[c] # "no" => c \in sent
WireWasSent  == \A m \in wire : m[1] \in sent
AckWasSent   == acks \subseteq sent

\* The inductive invariant behind ForgottenOnlyAfterSend.
SentInv == TypeOK /\ RemovedWasSent /\ NotedWasSent /\ WireWasSent /\ AckWasSent

\* Nothing is sent, removed or confirmed at the beginning.
LEMMA SentInit == Init => SentInv
BY InitType DEF Init, SentInv, RemovedWasSent, NotedWasSent, WireWasSent, AckWasSent

\* A step that sends, and removes nothing that was neither sent nor given up.
LEMMA SentSends ==
  ASSUME SentInv, TypeOK', NEW S, Send(S), acks' \subseteq acks,
         dropped \subseteq dropped',
         removing' \subseteq removing \cup sent' \cup dropped'
  PROVE  SentInv'
BY DEF SentInv, RemovedWasSent, NotedWasSent, WireWasSent, AckWasSent, Send

\* A step that sends nothing.
LEMMA SentSame ==
  ASSUME SentInv, TypeOK', UNCHANGED <<sent, sentOn>>, wire' \subseteq wire,
         acks' \subseteq acks, dropped \subseteq dropped',
         removing' \subseteq removing \cup sent \cup dropped'
  PROVE  SentInv'
BY DEF SentInv, RemovedWasSent, NotedWasSent, WireWasSent, AckWasSent

\* flushHeld takes out what it sends or what this socket has had.
LEMMA SentFlushes ==
  ASSUME SentInv, TypeOK', NEW m, NEW S \in SUBSET Cmd, FlushHeld(m, S),
         acks' \subseteq acks, UNCHANGED dropped
  PROVE  SentInv'
<1>. DEFINE msgs == {<<c, m[c]>> : c \in {d \in S : sentOn[d] = "no"}}
<1>1. Send(msgs) /\ removing' = removing \cup S
  BY DEF FlushHeld
<1>2. \A c \in S : c \in sent'
  <2>. SUFFICES ASSUME NEW c \in S PROVE c \in sent'
    OBVIOUS
  <2>1. CASE sentOn[c] = "no"
    <3>1. <<c, m[c]>> \in msgs
      BY <2>1
    <3>2. sent' = sent \cup {x[1] : x \in msgs}
      BY <1>1 DEF Send
    <3>. HIDE DEF msgs
    <3>. QED
      BY <3>1, <3>2
  <2>2. CASE sentOn[c] # "no"
    BY <1>1, <2>2 DEF SentInv, NotedWasSent, Send
  <2>. QED BY <2>1, <2>2
<1>. HIDE DEF msgs
<1>. QED
  BY <1>1, <1>2, SentSends

\* Dispatch, tasks and confirmations preserve it.
LEMMA SentTask ==
  ASSUME SentInv, TypeOK', NEW c \in Cmd,
         Dispatch(c) \/ EvictSeen(c) \/ TaskStep(c) \/ AckArrives(c)
  PROVE  SentInv'
<1>1. CASE Dispatch(c)
  <2>1. UNCHANGED <<removing, acks, dropped>>
    BY <1>1 DEF Dispatch
  <2>2. UNCHANGED <<wire, sent, sentOn, used>> \/ \E S : Send(S)
    BY <1>1 DEF Dispatch, AnswerRepeated, MarkInFlight, SendLive
  <2>. QED
    BY <2>1, <2>2, SentSends, SentSame
<1>2. CASE EvictSeen(c) \/ WriteLands(c)
  BY <1>2, SentSame DEF EvictSeen, WriteLands, memory, work, world
<1>3. CASE RemoveLands(c)
  BY <1>3, SentSame DEF RemoveLands, memory, world
<1>4. ASSUME NEW r \in Run, StartHandler(c, r) \/ Finish(c, r) PROVE SentInv'
  BY <1>4, SentSame DEF StartHandler, Finish, memory, world
<1>5. ASSUME NEW r \in Run, Deliver(c, r) PROVE SentInv'
  <2>. DEFINE S == IF link = "open" THEN {<<c, HandlerOutcome(r)>>} ELSE {}
  <2>1. Send(S) /\ UNCHANGED <<acks, dropped>>
    BY <1>5 DEF Deliver, SendLive
  <2>2. removing' = removing \/ (link = "open" /\ removing' = removing \cup {c})
    BY <1>5 DEF Deliver
  <2>3. link = "open" => c \in sent'
    BY <2>1 DEF Send
  <2>. HIDE DEF S
  <2>. QED
    BY <2>1, <2>2, <2>3, SentSends
<1>6. CASE AckArrives(c)
  <2>1. c \in acks /\ acks' \subseteq acks /\ removing' \subseteq removing \cup {c}
    BY <1>6 DEF AckArrives, Acknowledge
  <2>2. UNCHANGED <<sent, sentOn, wire, dropped>>
    BY <1>6 DEF AckArrives
  <2>. QED
    BY <2>1, <2>2, SentSame DEF SentInv, AckWasSent
<1>. QED
  BY <1>1, <1>2, <1>3, <1>4, <1>5, <1>6 DEF TaskStep

\* The timer, the socket, the control plane and a kill preserve it.
LEMMA SentSession ==
  ASSUME SentInv, TypeOK',
         \/ Tick \/ ResendTimer \/ BeginClose \/ Close \/ Crash
         \/ \E p \in PeerKinds : SessionOpen(p)
         \/ \E c \in Cmd, o \in Outcome : PanelStores(c, o)
  PROVE  SentInv'
<1>1. CASE Tick
  BY <1>1 DEF Tick, work, world, SentInv, RemovedWasSent, NotedWasSent, WireWasSent,
     AckWasSent
<1>2. CASE ResendTimer
  <2>1. UNCHANGED <<acks, dropped>>
    BY <1>2 DEF ResendTimer
  <2>2. CASE keepsUntilAck
    <3>1. PICK S : Send(S) /\ UNCHANGED removing
      BY <1>2, <2>2 DEF ResendTimer
    <3>. QED
      BY <2>1, <3>1, SentSends
  <2>3. CASE ~keepsUntilAck
    <3>1. PICK S \in Flushable(held) : FlushHeld(held, S)
      BY <1>2, <2>3 DEF ResendTimer
    <3>2. S \in SUBSET Cmd
      BY DEF Flushable, Kept
    <3>. QED
      BY <2>1, <3>1, <3>2, SentFlushes
  <2>. QED BY <2>2, <2>3
<1>3. CASE BeginClose \/ Close
  BY <1>3, SentSame DEF BeginClose, Close, memory
<1>4. CASE Crash
  BY <1>4 DEF Crash, SentInv, RemovedWasSent, NotedWasSent, WireWasSent, AckWasSent
<1>5. ASSUME NEW p \in PeerKinds, SessionOpen(p) PROVE SentInv'
  <2>1. UNCHANGED <<removing, acks, dropped>>
    BY <1>5 DEF SessionOpen, work
  <2>2. PICK S :
          /\ wire' = S
          /\ sent' = sent \cup {m[1] : m \in S}
          /\ sentOn' = [c \in Cmd |-> IF \E m \in S : m[1] = c THEN "fresh" ELSE "no"]
    BY <1>5 DEF SessionOpen
  <2>. QED
    BY <2>1, <2>2 DEF SentInv, RemovedWasSent, NotedWasSent, WireWasSent, AckWasSent
<1>6. ASSUME NEW c \in Cmd, NEW o \in Outcome, PanelStores(c, o) PROVE SentInv'
  <2>1. c \in sent
    BY <1>6 DEF PanelStores, SentInv, WireWasSent
  <2>2. /\ wire' \subseteq wire /\ acks' \subseteq acks \cup {c}
        /\ UNCHANGED <<removing, sent, sentOn, dropped>>
    BY <1>6 DEF PanelStores, memory, work
  <2>. QED
    BY <2>1, <2>2 DEF SentInv, RemovedWasSent, NotedWasSent, WireWasSent, AckWasSent
<1>. QED
  BY <1>1, <1>2, <1>3, <1>4, <1>5, <1>6

\* The steps of an attach preserve it, also one whose socket is long gone.
LEMMA SentAttach ==
  ASSUME SentInv, TypeOK', NEW a \in Attaches, AttachStep(a)
  PROVE  SentInv'
<1>1. CASE AttachFrame(a)
  <2>1. UNCHANGED <<acks, dropped>>
    BY <1>1 DEF AttachFrame
  <2>2. CASE panel = "recovers"
    BY <1>1, <2>1, <2>2, SentSame DEF AttachFrame
  <2>3. CASE panel = "older"
    <3>. DEFINE all == [c \in Cmd |-> IF unacked[c] # NoOutcome THEN unacked[c] ELSE held[c]]
    <3>1. PICK S \in Flushable(all) : FlushHeld(all, S)
      BY <1>1, <2>3 DEF AttachFrame
    <3>. HIDE DEF all
    <3>2. S \in SUBSET Cmd
      BY DEF Flushable, Kept
    <3>. QED
      BY <2>1, <3>1, <3>2, SentFlushes
  <2>. QED BY <1>1, <2>2, <2>3 DEF AttachFrame
<1>2. CASE AttachCleared(a) \/ AttachLists(a) \/ AttachFilters(a) \/ AttachReads(a)
  BY <1>2, SentSame DEF AttachCleared, AttachLists, AttachFilters, AttachReads, memory,
     world
<1>3. CASE AttachApplies(a)
  <2>1. UNCHANGED <<acks, dropped>>
    BY <1>3 DEF AttachApplies
  <2>2. CASE recovers
    BY <1>3, <2>1, <2>2, SentSame DEF AttachApplies
  <2>3. CASE ~recovers
    <3>. DEFINE m == [c \in Cmd |-> IF c \in attach[a].ids
                                    THEN OrphanReply(attach[a].entries[c]) ELSE held[c]]
    <3>1. PICK S \in Flushable(m) : FlushHeld(m, S)
      BY <1>3, <2>3 DEF AttachApplies
    <3>. HIDE DEF m
    <3>2. S \in SUBSET Cmd
      BY DEF Flushable, Kept
    <3>. QED
      BY <2>1, <3>1, <3>2, SentFlushes
  <2>. QED BY <2>2, <2>3
<1>4. CASE AttachPrunes(a)
  BY <1>4, SentSame DEF AttachPrunes, Acknowledge, world
<1>5. CASE AttachResends(a)
  <2>1. PICK S : Send(S) /\ UNCHANGED <<removing, acks, dropped>>
    BY <1>5 DEF AttachResends
  <2>. QED
    BY <2>1, SentSends
<1>. QED
  BY <1>1, <1>2, <1>3, <1>4, <1>5 DEF AttachStep

\* Every step preserves it.
LEMMA SentNext ==
  ASSUME SentInv, [Next]_vars
  PROVE  SentInv'
<1>0. TypeOK'
  BY NextType DEF SentInv
<1>1. CASE UNCHANGED vars
  BY <1>0, <1>1, SentSame DEF vars, memory, work, world
<1>2. CASE Next
  BY <1>0, <1>2, SentTask, SentSession, SentAttach DEF Next
<1>. QED BY <1>1, <1>2

\* On a disk that takes writes, with whatever control planes, and whether or not
\* attach work outlives its socket: a command whose handler may have run leaves
\* the disk only once an outcome of it was put on an open socket, or it was
\* given up.
THEOREM ClearedOnlyAfterSend ==
  ASSUME ~JournalMayFail
  PROVE  Spec => []ForgottenOnlyAfterSend
<1>1. Init => SentInv /\ ForgottenOnlyAfterSend
  BY SentInit DEF Init, ForgottenOnlyAfterSend, Started
<1>2. SentInv /\ ForgottenOnlyAfterSend /\ [Next]_vars
        => (SentInv /\ ForgottenOnlyAfterSend)'
  <2>. SUFFICES ASSUME SentInv, ForgottenOnlyAfterSend, [Next]_vars
                PROVE  SentInv' /\ ForgottenOnlyAfterSend'
    OBVIOUS
  <2>. QED
    BY SentNext, JournalStep DEF SentInv, RemovedWasSent, ForgottenOnlyAfterSend
<1>. QED
  BY <1>1, <1>2, PTL DEF Spec

-----------------------------------------------------------------------------
(***************************************************************************)
(* Who resends: no hypothesis on the control planes, the disk or sockets.  *)
(***************************************************************************)

\* Somebody will resend: the armed timer, or an attach that arms it at its end.
Resender == timer \/ \E a \in Attaches : attach[a].pc \in {"settling", "resending"}

\* What is held while the peer may confirm has a resender too: the attach frame
\* may turn it into unconfirmed outcomes without arming the timer.
HeldHasResender ==
  keepsUntilAck /\ link # "down" /\ Kept(held) # {} => Resender

\* The inductive invariant behind UnackedHasResender and
\* UnackedNeedsConfirmingPeer.
ResendInv ==
  TypeOK /\ UnackedHasResender /\ UnackedNeedsConfirmingPeer /\ HeldHasResender

\* Nothing is kept at the beginning.
LEMMA ResendInit == Init => ResendInv
BY InitType DEF Init, ResendInv, UnackedHasResender, UnackedNeedsConfirmingPeer,
   HeldHasResender, Kept

\* A step that keeps nothing new and loses no resender.
LEMMA ResendSame ==
  ASSUME ResendInv, TypeOK', UNCHANGED <<peer, link>>,
         Kept(unacked') \subseteq Kept(unacked), Kept(held') \subseteq Kept(held),
         Resender => Resender'
  PROVE  ResendInv'
BY DEF ResendInv, UnackedHasResender, UnackedNeedsConfirmingPeer, HeldHasResender,
   Resender, keepsUntilAck, recovers

\* An acknowledgement keeps nothing new.
LEMMA AcknowledgeKept ==
  ASSUME NEW S, Acknowledge(S)
  PROVE  Kept(unacked') \subseteq Kept(unacked) /\ Kept(held') \subseteq Kept(held)
BY DEF Acknowledge, Without, Kept

\* Dispatch, tasks and confirmations preserve it.
LEMMA ResendTask ==
  ASSUME ResendInv, TypeOK', NEW c \in Cmd,
         Dispatch(c) \/ EvictSeen(c) \/ TaskStep(c) \/ AckArrives(c)
  PROVE  ResendInv'
<1>0. TypeOK
  BY DEF ResendInv
<1>1. CASE WriteLands(c)
  <2>1. PICK w : WriterDone(c, w)
    BY <1>1 DEF WriteLands
  <2>2. \A a \in Attaches : attach'[a].pc = attach[a].pc
    <3>. SUFFICES ASSUME NEW a \in Attaches PROVE attach'[a].pc = attach[a].pc
      OBVIOUS
    <3>1. attach[a] \in AttachState
      BY <1>0 DEF TypeOK
    <3>. DEFINE e == [attach[a] EXCEPT !.wait = @ \ {c}]
    <3>2. attach'[a] = attach[a] \/ attach'[a] = e
      BY <2>1, <1>0 DEF WriterDone, TypeOK
    <3>3. e.pc = attach[a].pc
      BY <3>1 DEF AttachState
    <3>. QED BY <3>2, <3>3
  <2>3. UNCHANGED <<peer, link, unacked, held, timer>>
    BY <1>1 DEF WriteLands, memory, world
  <2>. QED
    BY <2>2, <2>3, ResendSame DEF Resender
<1>2. CASE Dispatch(c) \/ EvictSeen(c) \/ RemoveLands(c)
  BY <1>2, ResendSame DEF Dispatch, EvictSeen, RemoveLands, memory, work, world, Resender
<1>3. ASSUME NEW r \in Run, StartHandler(c, r) \/ Finish(c, r) PROVE ResendInv'
  BY <1>3, ResendSame DEF StartHandler, Finish, memory, world, Resender
<1>4. ASSUME NEW r \in Run, Deliver(c, r) PROVE ResendInv'
  <2>1. UNCHANGED <<peer, link, attach>>
    BY <1>4 DEF Deliver
  <2>2. CASE keepsUntilAck
    <3>1. HandlerOutcome(r) # NoOutcome
      BY DEF HandlerOutcome, NoOutcome
    <3>2. c \in Kept(unacked')
      BY <1>0, <1>4, <2>2, <3>1 DEF Deliver, Kept, TypeOK
    <3>3. timer'
      BY <1>4, <2>2, <3>2 DEF Deliver, ScheduleResend
    <3>. QED
      BY <2>1, <2>2, <3>3 DEF ResendInv, UnackedHasResender, UnackedNeedsConfirmingPeer,
         HeldHasResender, Resender, keepsUntilAck, recovers
  <2>3. CASE ~keepsUntilAck
    <3>1. UNCHANGED <<unacked, timer>>
      BY <1>4, <2>3 DEF Deliver
    <3>. QED
      BY <2>1, <2>3, <3>1 DEF ResendInv, UnackedHasResender, UnackedNeedsConfirmingPeer,
         HeldHasResender, Resender, keepsUntilAck, recovers
  <2>. QED BY <2>2, <2>3
<1>5. CASE AckArrives(c)
  BY <1>5, AcknowledgeKept, ResendSame DEF AckArrives, Resender
<1>. QED
  BY <1>1, <1>2, <1>3, <1>4, <1>5 DEF TaskStep

\* The timer, the socket, the control plane and a kill preserve it.
LEMMA ResendSession ==
  ASSUME ResendInv, TypeOK',
         \/ Tick \/ ResendTimer \/ BeginClose \/ Close \/ Crash
         \/ \E p \in PeerKinds : SessionOpen(p)
         \/ \E c \in Cmd, o \in Outcome : PanelStores(c, o)
  PROVE  ResendInv'
<1>0. TypeOK
  BY DEF ResendInv
<1>1. CASE Tick \/ \E c \in Cmd, o \in Outcome : PanelStores(c, o)
  <2>1. UNCHANGED <<peer, link, unacked, held, timer, attach>>
    BY <1>1 DEF Tick, PanelStores, memory, work, world
  <2>. QED
    BY <2>1, ResendSame DEF Resender
<1>2. CASE ResendTimer
  <2>1. timer' = (Kept(unacked) # {} \/ Kept(held') # {})
    BY <1>2 DEF ResendTimer
  <2>2. UNCHANGED <<unacked, peer, link, attach>>
    BY <1>2 DEF ResendTimer
  <2>. QED
    BY <2>1, <2>2 DEF ResendInv, UnackedHasResender, UnackedNeedsConfirmingPeer,
       HeldHasResender, Resender
<1>3. CASE BeginClose \/ Close
  <2>1. \A a \in Attaches : attach'[a].pc = attach[a].pc
    BY <1>0, <1>3 DEF BeginClose, Close, AttachSocketGone, TypeOK, AttachState
  <2>2. /\ UNCHANGED <<unacked, held, timer>>
        /\ \/ peer' = "unknown" /\ link' = "down"
           \/ peer' = peer /\ link # "down"
    BY <1>3 DEF BeginClose, Close, memory
  <2>. QED
    BY <2>1, <2>2 DEF ResendInv, UnackedHasResender, UnackedNeedsConfirmingPeer,
       HeldHasResender, Resender, keepsUntilAck, recovers
<1>4. CASE Crash
  <2>1. Kept(unacked') = {} /\ Kept(held') = {}
    BY <1>4 DEF Crash, Kept
  <2>. QED
    BY <2>1 DEF ResendInv, UnackedHasResender, UnackedNeedsConfirmingPeer, HeldHasResender
<1>5. ASSUME NEW p \in PeerKinds, SessionOpen(p) PROVE ResendInv'
  <2>1. /\ UNCHANGED <<unacked, held, attach>> /\ peer' = "unknown"
        /\ timer' = (timer \/ Kept(unacked) # {} \/ Kept(held) # {})
    BY <1>5 DEF SessionOpen, ScheduleResend, work
  <2>. QED
    BY <2>1 DEF ResendInv, UnackedHasResender, UnackedNeedsConfirmingPeer,
       HeldHasResender, Resender
<1>. QED
  BY <1>1, <1>2, <1>3, <1>4, <1>5

\* The steps of an attach preserve it.
LEMMA ResendAttach ==
  ASSUME ResendInv, TypeOK', NEW a \in Attaches, AttachStep(a)
  PROVE  ResendInv'
<1>0. TypeOK /\ attach[a] \in AttachState
  BY DEF ResendInv, TypeOK
<1>1. \A b \in Attaches \ {a} : attach'[b] = attach[b]
  BY <1>0 DEF AttachStep, AttachFrame, AttachCleared, AttachLists, AttachFilters,
     AttachReads, AttachApplies, AttachPrunes, AttachResends, TypeOK
<1>2. UNCHANGED link
  BY DEF AttachStep, AttachFrame, AttachCleared, AttachLists, AttachFilters,
     AttachReads, AttachApplies, AttachPrunes, AttachResends, world
<1>3. CASE AttachFrame(a)
  <2>1. /\ peer = "unknown" /\ link # "down" /\ UNCHANGED timer
        /\ attach[a].pc = "idle" /\ peer' = panel
    BY <1>3 DEF AttachFrame
  <2>2. Resender => Resender'
    BY <1>1, <2>1 DEF Resender
  <2>3. CASE panel = "recovers"
    <3>1. Kept(held') = {} /\ Kept(unacked') \subseteq Kept(unacked) \cup Kept(held)
      BY <1>3, <2>3 DEF AttachFrame, Kept
    <3>. QED
      BY <2>1, <2>2, <2>3, <3>1 DEF ResendInv, UnackedHasResender,
         UnackedNeedsConfirmingPeer, HeldHasResender, Resender, keepsUntilAck
  <2>4. CASE panel = "older"
    <3>1. Kept(unacked') = {}
      BY <1>3, <2>4 DEF AttachFrame, Kept
    <3>. QED
      BY <2>1, <2>4, <3>1 DEF ResendInv, UnackedHasResender,
         UnackedNeedsConfirmingPeer, HeldHasResender, keepsUntilAck, recovers
  <2>. QED BY <1>3, <2>3, <2>4 DEF AttachFrame
<1>4. CASE AttachCleared(a) \/ AttachLists(a) \/ AttachFilters(a) \/ AttachReads(a)
  <2>1. attach[a].pc \in {"clearing", "listing", "filtering", "reading"}
    BY <1>4 DEF AttachCleared, AttachLists, AttachFilters, AttachReads
  <2>2. UNCHANGED <<unacked, held, timer, peer>>
    BY <1>4 DEF AttachCleared, AttachLists, AttachFilters, AttachReads, memory
  <2>3. Resender => Resender'
    BY <1>1, <2>1, <2>2 DEF Resender
  <2>. QED
    BY <1>2, <2>2, <2>3, ResendSame
<1>5. CASE AttachApplies(a)
  <2>1. attach'[a].pc = "settling"
    BY <1>0, <1>5, ZenonT(60) DEF AttachApplies, IdleAttach, TypeOK
  <2>2. UNCHANGED peer /\ (recovers \/ unacked' = unacked)
    BY <1>5 DEF AttachApplies
  <2>. QED
    BY <2>1, <2>2 DEF ResendInv, UnackedHasResender, UnackedNeedsConfirmingPeer,
       HeldHasResender, Resender, recovers
<1>6. CASE AttachPrunes(a)
  <2>1. PICK drop : /\ Acknowledge(drop)
                    /\ attach'[a] = [attach[a] EXCEPT !.pc = "resending",
                                                      !.clear = drop \ running]
    BY <1>0, <1>6 DEF AttachPrunes, TypeOK
  <2>2. attach'[a].pc = "resending"
    BY <1>0, <2>1 DEF AttachState
  <2>3. UNCHANGED peer
    BY <1>6 DEF AttachPrunes
  <2>. QED
    BY <1>2, <2>1, <2>2, <2>3, AcknowledgeKept, ResendSame DEF Resender
<1>7. CASE AttachResends(a)
  BY <1>7 DEF AttachResends, ScheduleResend, ResendInv, UnackedHasResender,
     UnackedNeedsConfirmingPeer, HeldHasResender, Resender
<1>. QED
  BY <1>3, <1>4, <1>5, <1>6, <1>7 DEF AttachStep

\* Every step preserves it.
LEMMA ResendNext == ResendInv /\ [Next]_vars => ResendInv'
<1>. SUFFICES ASSUME ResendInv, [Next]_vars PROVE ResendInv'
  OBVIOUS
<1>0. TypeOK'
  BY NextType DEF ResendInv
<1>1. CASE UNCHANGED vars
  BY <1>0, <1>1, ResendSame DEF vars, memory, work, world, Resender
<1>2. CASE Next
  BY <1>0, <1>2, ResendTask, ResendSession, ResendAttach DEF Next
<1>. QED BY <1>1, <1>2

\* Every unconfirmed outcome has somebody who will send it again, whatever
\* control planes come and go and however attaches overlap.
THEOREM UnackedIsResent == Spec => []UnackedHasResender
<1>1. ResendInv => UnackedHasResender
  BY DEF ResendInv
<1>. QED
  BY ResendInit, ResendNext, <1>1, PTL DEF Spec

\* Nothing stays unconfirmed once the peer is known not to confirm.
THEOREM OnlyConfirmersOwe == Spec => []UnackedNeedsConfirmingPeer
<1>1. ResendInv => UnackedNeedsConfirmingPeer
  BY DEF ResendInv
<1>. QED
  BY ResendInit, ResendNext, <1>1, PTL DEF Spec

-----------------------------------------------------------------------------
(***************************************************************************)
(* A full disk alone loses nothing.                                        *)
(***************************************************************************)

\* The run of a command that is finished and not handed over yet.
Finishing(c) == \E r \in Run : task[c][r] \in {"storing", "stored"}

\* The inductive invariant behind NeverForgottenAlive.
AliveInv == HandlerInv /\ PeerInv /\ NeverForgottenAlive

\* No command is started at the beginning.
LEMMA AliveInit == Init => AliveInv
BY HandlerInit, PeerInit DEF Init, AliveInv, NeverForgottenAlive, Started

\* A step that starts nothing, forgets nothing known and removes nothing.
LEMMA AliveSame ==
  ASSUME NeverForgottenAlive, TypeOK, crashes' >= crashes, UNCHANGED journal,
         \A c \in Cmd : Started(c)' => Started(c),
         \A c \in Cmd : got[c] \subseteq got'[c], dropped \subseteq dropped',
         \A c \in Cmd : Known(c) \/ Finishing(c) =>
           Known(c)' \/ Finishing(c)' \/ got[c] # {} \/ c \in dropped'
  PROVE  NeverForgottenAlive'
<1>. SUFFICES ASSUME NEW c \in Cmd, crashes' = 0, Started(c)', got'[c] = {},
                     c \notin dropped', journal'[c] = NoOutcome
              PROVE  Known(c)' \/ Finishing(c)'
  BY DEF NeverForgottenAlive, Finishing
<1>1. crashes = 0
  BY DEF TypeOK
<1>2. Known(c) \/ Finishing(c)
  BY <1>1 DEF NeverForgottenAlive, Finishing
<1>. QED BY <1>2

\* The write that lands was queued.
LEMMA LandsQueued ==
  ASSUME TypeOK, NEW c \in Cmd, WriteLands(c)
  PROVE  \E w \in Writer : WriterDone(c, w) /\ w \in Queued(chain[c]) \cup Queued(cut[c])
<1>1. CASE chain[c] # <<>> /\ WriterDone(c, Head(chain[c]))
  <2>1. Head(chain[c]) \in Writer
    BY <1>1, HeadTailProperties DEF TypeOK
  <2>2. Head(chain[c]) \in Queued(chain[c])
    BY <1>1, QueuedTail DEF TypeOK
  <2>. QED BY <1>1, <2>1, <2>2
<1>2. CASE cut[c] # <<>> /\ WriterDone(c, Head(cut[c]))
  <2>1. Head(cut[c]) \in Writer
    BY <1>2, HeadTailProperties DEF TypeOK
  <2>2. Head(cut[c]) \in Queued(cut[c])
    BY <1>2, QueuedTail DEF TypeOK
  <2>. QED BY <1>2, <2>1, <2>2
<1>. QED BY <1>1, <1>2 DEF WriteLands

\* A write that lands, or fails to, leaves its command known or finishing.
LEMMA AliveWrite ==
  ASSUME AliveInv, NEW c \in Cmd, WriteLands(c)
  PROVE  NeverForgottenAlive'
<1>0. TypeOK
  BY DEF AliveInv, PeerInv
<1>1. UNCHANGED <<running, held, unacked, got, crashes, dropped>>
  BY DEF WriteLands, memory, world
<1>2. PICK w \in Writer : WriterDone(c, w) /\ w \in Queued(chain[c]) \cup Queued(cut[c])
  BY <1>0, LandsQueued
<1>3. \A d \in Cmd \ {c} : journal'[d] = journal[d] /\ task'[d] = task[d]
  BY <1>0, <1>2 DEF WriterDone, TypeOK
<1>4. CASE w.by = "mark"
  <2>1. w.run \in Run
    BY <1>4 DEF Writer
  <2>2. task[c][w.run] = "marking"
    BY <1>2, <1>4 DEF AliveInv, HandlerInv, MarkStillAwaited
  <2>3. c \in running
    BY <2>1, <2>2 DEF AliveInv, HandlerInv, RunningWhileBusy, Busy
  <2>. QED
    BY <1>1, <1>3, <2>3 DEF AliveInv, NeverForgottenAlive, Known, Started
<1>5. CASE w.by = "deliver"
  <2>1. w.run \in Run
    BY <1>5 DEF Writer
  <2>2. task' = [task EXCEPT ![c][w.run] = "stored"]
    BY <1>2, <1>5 DEF WriterDone
  <2>3. \A r \in Run : task' = [task EXCEPT ![c][r] = "stored"] => task'[c][r] = "stored"
    BY <1>0 DEF TypeOK
  <2>4. task'[c][w.run] \in {"storing", "stored"}
    BY <2>1, <2>2, <2>3
  <2>5. \E r \in Run : task'[c][r] \in {"storing", "stored"}
    BY <2>1, <2>4
  <2>. QED
    BY <1>1, <1>3, <2>5 DEF AliveInv, NeverForgottenAlive, Known, Started
<1>6. CASE w.by = "orphan"
  <2>1. task' = task
    BY <1>2, <1>6 DEF WriterDone
  <2>2. journal[c] # NoOutcome => journal'[c] # NoOutcome
    BY <1>0, <1>2, WrittenSomething DEF WriterDone, TypeOK
  <2>. QED
    BY <1>1, <1>3, <2>1, <2>2 DEF AliveInv, NeverForgottenAlive, Known, Started
<1>. QED BY <1>4, <1>5, <1>6 DEF Writer

\* Dispatch, tasks and confirmations preserve it.
LEMMA AliveTask ==
  ASSUME Confirming, AliveInv, NEW c \in Cmd,
         Dispatch(c) \/ EvictSeen(c) \/ TaskStep(c) \/ AckArrives(c)
  PROVE  NeverForgottenAlive'
<1>0. TypeOK /\ NeverForgottenAlive /\ PeerInv
  BY DEF AliveInv, PeerInv
<1>a. crashes \in Nat
  BY <1>0, OutboxAssumption DEF TypeOK
<1>1. CASE Dispatch(c)
  <2>1. UNCHANGED <<held, unacked, journal, got, crashes, dropped>>
    BY <1>1 DEF Dispatch
  <2>2. CASE AnswerRepeated(c)
    BY <1>0, <1>a, <2>1, <2>2, AliveSame DEF AnswerRepeated, Known, Finishing, Started
  <2>3. CASE MarkInFlight(c)
    <3>1. PICK r \in Run :
            /\ task[c][r] = "none" /\ task' = [task EXCEPT ![c][r] = "marking"]
            /\ running' = running \cup {c}
      BY <2>3 DEF MarkInFlight
    <3>2. \A d \in Cmd : (Started(d)' => Started(d)) /\ (Finishing(d) => Finishing(d)')
      BY <1>0, <3>1 DEF Started, Finishing, TypeOK
    <3>3. \A d \in Cmd : Known(d) => Known(d)'
      BY <2>1, <3>1 DEF Known
    <3>. QED
      BY <1>0, <1>a, <2>1, <3>2, <3>3, AliveSame
  <2>. QED BY <1>1, <2>2, <2>3 DEF Dispatch
<1>2. CASE EvictSeen(c)
  BY <1>0, <1>a, <1>2, AliveSame DEF EvictSeen, work, world, Known, Finishing, Started
<1>3. CASE WriteLands(c)
  BY <1>3, AliveWrite
<1>4. CASE RemoveLands(c)
  <2>1. got[c] # {} \/ c \in dropped
    BY <1>0, <1>4 DEF RemoveLands, PeerInv, RemovalJustified
  <2>2. \A d \in Cmd \ {c} : journal'[d] = journal[d]
    BY <1>0, <1>4 DEF RemoveLands, TypeOK
  <2>3. UNCHANGED <<running, held, unacked, task, got, crashes, dropped>>
    BY <1>4 DEF RemoveLands, memory, world
  <2>. QED
    BY <1>0, <2>1, <2>2, <2>3 DEF NeverForgottenAlive, Known, Started
<1>5. ASSUME NEW r \in Run, StartHandler(c, r) PROVE NeverForgottenAlive'
  <2>1. UNCHANGED <<running, held, unacked, journal, got, crashes, dropped>>
    BY <1>5 DEF StartHandler, memory, world
  <2>2. \A d \in Cmd : (Started(d)' => Started(d)) /\ (Finishing(d) => Finishing(d)')
    BY <1>0, <1>5 DEF StartHandler, Started, Finishing, TypeOK
  <2>. QED
    BY <1>0, <1>a, <2>1, <2>2, AliveSame DEF Known
<1>6. ASSUME NEW r \in Run, Finish(c, r) PROVE NeverForgottenAlive'
  <2>1. UNCHANGED <<held, unacked, journal, got, crashes, dropped>>
    BY <1>6 DEF Finish, world
  <2>2. \A d \in Cmd : (Started(d)' => Started(d)) /\ (Finishing(d) => Finishing(d)')
    BY <1>0, <1>6 DEF Finish, Started, Finishing, TypeOK
  <2>3. Finishing(c)'
    BY <1>0, <1>6 DEF Finish, Finishing, TypeOK
  <2>4. \A d \in Cmd \ {c} : Known(d) => Known(d)'
    BY <1>6, <2>1 DEF Finish, Known
  <2>. QED
    BY <1>0, <1>a, <2>1, <2>2, <2>3, <2>4, AliveSame
<1>7. ASSUME NEW r \in Run, Deliver(c, r) PROVE NeverForgottenAlive'
  <2>1. UNCHANGED <<running, journal, got, crashes, dropped>>
    BY <1>7 DEF Deliver
  <2>2. HandlerOutcome(r) # NoOutcome
    BY DEF HandlerOutcome, NoOutcome
  <2>3. keepsUntilAck \/ link # "open"
    BY <1>0, KeepsWhenMet DEF PeerInv, PeerWasMet
  <2>4. Known(c)'
    BY <1>0, <1>7, <2>2, <2>3 DEF Deliver, Known, TypeOK
  <2>5. \A d \in Cmd \ {c} : held'[d] = held[d] /\ unacked'[d] = unacked[d]
    BY <1>0, <1>7 DEF Deliver, TypeOK
  <2>6. \A d \in Cmd \ {c} : task'[d] = task[d]
    BY <1>0, <1>7 DEF Deliver, TypeOK
  <2>7. Started(c)
    BY <1>7 DEF Deliver, Started
  <2>. QED
    BY <1>0, <1>a, <2>1, <2>4, <2>5, <2>6, <2>7, AliveSame DEF Known, Finishing, Started
<1>8. CASE AckArrives(c)
  <2>1. UNCHANGED <<running, task, journal, got, crashes, dropped>>
    BY <1>8 DEF AckArrives
  <2>2. got[c] # {}
    BY <1>0, <1>8 DEF AckArrives, PeerInv, AckJustified
  <2>3. \A d \in Cmd \ {c} : held'[d] = held[d] /\ unacked'[d] = unacked[d]
    BY <1>0, <1>8 DEF AckArrives, Acknowledge, Without, TypeOK
  <2>. QED
    BY <1>0, <1>a, <2>1, <2>2, <2>3, AliveSame DEF Known, Finishing, Started
<1>. QED
  BY <1>1, <1>2, <1>3, <1>4, <1>5, <1>6, <1>7, <1>8 DEF TaskStep

\* The timer, the socket, the control plane and a kill preserve it.
LEMMA AliveSession ==
  ASSUME Confirming, AliveInv,
         \/ Tick \/ ResendTimer \/ BeginClose \/ Close \/ Crash
         \/ \E p \in PeerKinds : SessionOpen(p)
         \/ \E c \in Cmd, o \in Outcome : PanelStores(c, o)
  PROVE  NeverForgottenAlive'
<1>0. TypeOK /\ NeverForgottenAlive /\ PeerInv
  BY DEF AliveInv, PeerInv
<1>a. crashes \in Nat
  BY <1>0, OutboxAssumption DEF TypeOK
<1>1. CASE Crash
  BY <1>a, <1>1 DEF Crash, NeverForgottenAlive
<1>2. CASE \/ Tick \/ ResendTimer \/ BeginClose \/ Close
           \/ \E p \in PeerKinds : SessionOpen(p)
  <2>1. timer => keepsUntilAck
    BY <1>0, KeepsWhenMet DEF PeerInv, PeerWasMet
  <2>2. UNCHANGED <<running, held, unacked, task, journal, got, crashes, dropped>>
    BY <1>2, <2>1 DEF Tick, ResendTimer, BeginClose, Close, SessionOpen, memory, work,
       world
  <2>. QED
    BY <1>0, <1>a, <2>2, AliveSame DEF Known, Finishing, Started
<1>3. ASSUME NEW c \in Cmd, NEW o \in Outcome, PanelStores(c, o)
      PROVE  NeverForgottenAlive'
  <2>1. UNCHANGED <<running, held, unacked, task, journal, crashes, dropped>>
    BY <1>3 DEF PanelStores, memory, work
  <2>2. \A d \in Cmd : got[d] \subseteq got'[d]
    BY <1>0, <1>3 DEF PanelStores, TypeOK
  <2>. QED
    BY <1>0, <1>a, <2>1, <2>2, AliveSame DEF Known, Finishing, Started
<1>. QED BY <1>1, <1>2, <1>3

\* The steps of an attach preserve it.
LEMMA AliveAttach ==
  ASSUME Confirming, AliveInv, NEW a \in Attaches, AttachStep(a)
  PROVE  NeverForgottenAlive'
<1>0. TypeOK /\ NeverForgottenAlive /\ PeerInv
  BY DEF AliveInv, PeerInv
<1>a. crashes \in Nat
  BY <1>0, OutboxAssumption DEF TypeOK
<1>1. UNCHANGED <<running, task, journal, got, crashes>> /\ dropped \subseteq dropped'
  BY DEF AttachStep, AttachFrame, AttachCleared, AttachLists, AttachFilters,
     AttachReads, AttachApplies, AttachPrunes, AttachResends, memory, world
<1>2. \A c \in Cmd : Known(c) => Known(c)' \/ c \in dropped'
  <2>1. CASE AttachFrame(a)
    <3>1. panel = "recovers"
      BY <1>0 DEF Confirming, TypeOK
    <3>. QED
      BY <1>1, <2>1, <3>1 DEF AttachFrame, Known
  <2>2. CASE AttachApplies(a)
    <3>1. recovers
      BY <1>0, <2>2 DEF AttachApplies, PeerInv, AttachKnowsPeer, recovers
    <3>2. \A e : OrphanReply(e) # NoOutcome
      BY DEF OrphanReply, IsJournaledOutcome, Outcome, Interrupted, HandlerOutcome, NoOutcome
    <3>3. held' = held /\ unacked' = [c \in Cmd |->
            IF c \in attach[a].ids THEN OrphanReply(attach[a].entries[c]) ELSE unacked[c]]
      BY <2>2, <3>1 DEF AttachApplies
    <3>. QED
      BY <1>1, <3>2, <3>3 DEF Known
  <2>3. CASE AttachPrunes(a)
    <3>1. PICK drop : Acknowledge(drop) /\ dropped' = dropped \cup (drop \ running)
      BY <2>3 DEF AttachPrunes
    <3>. QED
      BY <1>1, <3>1 DEF Acknowledge, Without, Known
  <2>4. CASE \/ AttachCleared(a) \/ AttachLists(a) \/ AttachFilters(a)
             \/ AttachReads(a) \/ AttachResends(a)
    BY <2>4 DEF AttachCleared, AttachLists, AttachFilters, AttachReads, AttachResends,
       memory, Known
  <2>. QED BY <2>1, <2>2, <2>3, <2>4 DEF AttachStep
<1>. QED
  BY <1>0, <1>a, <1>1, <1>2, AliveSame DEF Finishing, Started

\* Every step preserves it.
LEMMA AliveNext ==
  ASSUME Confirming, AliveInv, [Next]_vars
  PROVE  AliveInv'
<1>1. HandlerInv' /\ PeerInv'
  BY HandlerNext, PeerNext DEF AliveInv
<1>2. ASSUME UNCHANGED vars PROVE NeverForgottenAlive'
  BY <1>2 DEF vars, memory, work, world, AliveInv, NeverForgottenAlive, Known, Started
<1>3. ASSUME Next PROVE NeverForgottenAlive'
  BY <1>3, AliveTask, AliveSession, AliveAttach DEF Next
<1>. QED BY <1>1, <1>2, <1>3 DEF AliveInv

\* With a control plane that confirms results, journal writes that fail lose
\* nothing as long as the daemon lives: a started command is running, being
\* finished, kept in memory or on disk until it is answered or given up.
THEOREM NothingForgottenAlive ==
  ASSUME Confirming
  PROVE  Spec => []NeverForgottenAlive
<1>1. AliveInv /\ [Next]_vars => AliveInv'
  BY AliveNext
<1>2. AliveInv => NeverForgottenAlive
  BY DEF AliveInv
<1>. QED
  BY AliveInit, <1>1, <1>2, PTL DEF Spec
=============================================================================
