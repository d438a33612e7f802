--------------------------- MODULE CommandOutbox ---------------------------
(***************************************************************************)
(* The command outbox of the daemon (src/commands/command-outbox.ts), with *)
(* the dispatch path that feeds it (command-router.ts, dispatch-dedupe.ts, *)
(* the frame handlers of instance/client.ts) and the control plane at the  *)
(* other end of one lossy socket.                                          *)
(*                                                                         *)
(* Every await of the code is a point where another task, a socket event   *)
(* or a crash may come in between, so each stretch of code between two     *)
(* awaits is one action here.  Memory is lost at a crash; the journal is   *)
(* not.  What a handler computes is abstracted to the number of the run    *)
(* that computed it.                                                       *)
(***************************************************************************)
EXTENDS Naturals, Sequences, FiniteSets

CONSTANTS
  Cmd,          \* command ids the control plane dispatches
  Runs,         \* how often one command may be started, over all restarts
  Attaches,     \* attach frames whose handling may overlap
  PeerKinds,    \* the control planes met: "recovers" and / or "older"
  BurstMax,     \* OUTCOME_BURST_MAX
  UnackedMax,   \* UNACKED_MAX_ENTRIES
  MaxCrashes,   \* bound: how often the daemon is killed
  StaleHappens,         \* an unconfirmed outcome may pass UNACKED_RETENTION_MS
  EvictionHappens,      \* a seen id may pass the dedupe TTL
  JournalMayFail,       \* a journal write may fail (disk full)
  AttachOutlivesSocket  \* a socket may close before its attach work is done

ASSUME OutboxAssumption ==
  /\ IsFiniteSet(Cmd) /\ Runs \in Nat \ {0}
  /\ PeerKinds \subseteq {"recovers", "older"} /\ PeerKinds # {}
  /\ BurstMax \in Nat \ {0} /\ UnackedMax \in Nat
  /\ MaxCrashes \in Nat
  /\ {StaleHappens, EvictionHappens, JournalMayFail, AttachOutlivesSocket}
       \subseteq BOOLEAN

VARIABLES
  \* daemon memory
  seen,      \* SeenCommandIds: dispatch ids remembered
  running,   \* ids accepted and not finished
  held,      \* outcomes kept for a control plane that does not confirm
  unacked,   \* outcomes kept until the control plane confirms them
  sentOn,    \* per id: sent on this socket "no", "fresh" (< 30 s ago), "old"
  used,      \* kept outcomes sent in the current burst window
  timer,     \* the resend timer is armed
  peer,      \* currentPeer: "none", "unknown", "recovers", "older"
  task,      \* per id and run: where handleCommandDispatch stands
  chain,     \* writeChains: journal writes queued, per id
  cut,       \* writes still queued on a chain an acknowledgement took out of writeChains
  removing,  \* ids with a removeJournal call under way
  attach,    \* running flushCommandOutcomes calls
  \* disk
  journal,   \* <stateDir>/commands/inflight/<id>.json
  \* the socket and the control plane
  link,      \* the current socket: "down", "open", or "closing" (close() called)
  panel,     \* what the control plane of this socket supports
  wire,      \* outcome frames under way to the control plane
  acks,      \* command-outcome-ack frames under way to the daemon
  got,       \* per id: the outcomes the control plane stored
  \* bounds and observers
  crashes,   \* how often the daemon was killed
  sent,      \* ids of which an outcome was ever put on a socket
  dropped    \* ids dropped by the retention bound

memory == <<seen, running, held, unacked, sentOn, used, timer, peer>>
work   == <<task, chain, cut, removing, attach>>
world  == <<link, panel, wire, acks, got>>
vars   == <<memory, work, journal, world, crashes, sent, dropped>>

-----------------------------------------------------------------------------
(***************************************************************************)
(* Outcomes and journal entries.                                           *)
(***************************************************************************)
Run == 1 .. Runs

NoOutcome  == [src |-> "none", run |-> 0]
Accepted   == [src |-> "accepted", run |-> 0]
Interrupted == [src |-> "interrupted", run |-> 0]
HandlerOutcome(r) == [src |-> "handler", run |-> r]

Outcome == {Interrupted} \cup {HandlerOutcome(r) : r \in Run}
Entry   == {NoOutcome, Accepted} \cup Outcome

Writer == [by : {"mark", "deliver"}, run : Run] \cup [by : {"orphan"}, att : Attaches]

TaskPc == {"none", "marking", "marked", "handling", "storing", "stored",
           "done", "dead"}
AttachPc == {"idle", "clearing", "listing", "filtering", "reading", "applying",
             "settling", "resending"}
AttachState == [pc : AttachPc, live : BOOLEAN, ids : SUBSET Cmd,
                entries : [Cmd -> Entry], clear : SUBSET Cmd, wait : SUBSET Cmd]

IdleAttach == [pc |-> "idle", live |-> FALSE, ids |-> {},
               entries |-> [c \in Cmd |-> NoOutcome], clear |-> {}, wait |-> {}]

TypeOK ==
  /\ seen \subseteq Cmd /\ running \subseteq Cmd
  /\ held \in [Cmd -> {NoOutcome} \cup Outcome]
  /\ unacked \in [Cmd -> {NoOutcome} \cup Outcome]
  /\ sentOn \in [Cmd -> {"no", "fresh", "old"}]
  /\ used \in 0 .. BurstMax
  /\ timer \in BOOLEAN
  /\ peer \in {"none", "unknown"} \cup PeerKinds
  /\ task \in [Cmd -> [Run -> TaskPc]]
  /\ chain \in [Cmd -> Seq(Writer)] /\ cut \in [Cmd -> Seq(Writer)]
  /\ removing \subseteq Cmd
  /\ attach \in [Attaches -> AttachState]
  /\ journal \in [Cmd -> Entry]
  /\ link \in {"down", "open", "closing"} /\ panel \in PeerKinds
  /\ wire \subseteq Cmd \X Outcome
  /\ acks \subseteq Cmd
  /\ got \in [Cmd -> SUBSET Outcome]
  /\ crashes \in 0 .. MaxCrashes
  /\ sent \subseteq Cmd /\ dropped \subseteq Cmd

Init ==
  /\ seen = {} /\ running = {}
  /\ held = [c \in Cmd |-> NoOutcome] /\ unacked = [c \in Cmd |-> NoOutcome]
  /\ sentOn = [c \in Cmd |-> "no"] /\ used = 0 /\ timer = FALSE
  /\ peer = "none"
  /\ task = [c \in Cmd |-> [r \in Run |-> "none"]]
  /\ chain = [c \in Cmd |-> <<>>] /\ cut = [c \in Cmd |-> <<>>]
  /\ removing = {} /\ attach = [a \in Attaches |-> IdleAttach]
  /\ journal = [c \in Cmd |-> NoOutcome]
  /\ link = "down" /\ panel \in PeerKinds
  /\ wire = {} /\ acks = {} /\ got = [c \in Cmd |-> {}]
  /\ crashes = 0 /\ sent = {} /\ dropped = {}

-----------------------------------------------------------------------------
(***************************************************************************)
(* Helpers of the outbox.                                                  *)
(***************************************************************************)
Kept(m) == {c \in Cmd : m[c] # NoOutcome}

recovers == peer = "recovers"

\* Variant: features not known yet are read as "does not confirm".
keepsUntilAck_OnlyWhenKnown == recovers

\* Variant: every control plane is expected to confirm.
keepsUntilAck_Always == TRUE

keepsUntilAck == recovers \/ peer = "unknown"

Left == IF link = "open" THEN BurstMax - used ELSE 0

Capped(n) == IF n > BurstMax THEN BurstMax ELSE n

\* noteSent and the frames of one stretch of sends: msgs is a set of
\* <<id, outcome>> pairs put on the open socket.
Send(msgs) ==
  /\ wire' = wire \cup msgs
  /\ sent' = sent \cup {m[1] : m \in msgs}
  /\ sentOn' = [c \in Cmd |-> IF \E m \in msgs : m[1] = c THEN "fresh" ELSE sentOn[c]]
  /\ used' = Capped(used + Cardinality(msgs))

\* sendLive / sendOutcome: one outcome, not paced; lost when no socket is open.
SendLive(c, o) == Send(IF link = "open" THEN {<<c, o>>} ELSE {})

\* The part of msgs one burst window lets out: all of them or as many as fit.
Paced(msgs) ==
  {S \in SUBSET msgs : Cardinality(S) = IF Cardinality(msgs) <= Left
                                        THEN Cardinality(msgs) ELSE Left}

Messages(m) == {<<c, m[c]>> : c \in Kept(m)}

\* flushHeld towards a control plane that does not confirm: the ids taken out
\* of held.  One already sent on this socket goes without a second send; the
\* first one the window cannot carry ends the loop.
Flushable(m) ==
  {S \in SUBSET Kept(m) :
     LET new == {c \in S : sentOn[c] = "no"} IN
     /\ Cardinality(new) <= Left
     /\ \/ S = Kept(m)
        \/ /\ Cardinality(new) = Left
           /\ \E c \in Kept(m) \ S : sentOn[c] = "no"}

Without(m, S) == [c \in Cmd |-> IF c \in S THEN NoOutcome ELSE m[c]]

\* Variant: every held entry is cleared, also what the window did not carry.
FlushHeld_ClearsAll(m, S) ==
  /\ Send({<<c, m[c]>> : c \in {d \in S : sentOn[d] = "no"}})
  /\ held' = Without(m, Kept(m))
  /\ removing' = removing \cup Kept(m)

\* The rest of that flushHeld: send what is new, forget all of S, and remove
\* their journal entries.
FlushHeld(m, S) ==
  /\ Send({<<c, m[c]>> : c \in {d \in S : sentOn[d] = "no"}})
  /\ held' = Without(m, S)
  /\ removing' = removing \cup S

\* Variant: the timer is never armed.
ScheduleResend_Forgotten(u, h) == timer' = timer

\* scheduleResend, given the kept outcomes after the step.
ScheduleResend(u, h) == timer' = (timer \/ Kept(u) # {} \/ Kept(h) # {})

IsJournaledOutcome(e) == e \in Outcome

\* Variant: the journal entry is sent as it stands.
OrphanReply_Raw(e) == e

\* orphanReply: the journaled outcome, or else the interrupted answer.
OrphanReply(e) == IF IsJournaledOutcome(e) THEN e ELSE Interrupted

-----------------------------------------------------------------------------
(***************************************************************************)
(* Dispatch: instance/client.ts #handleMessage and handleCommandDispatch.  *)
(***************************************************************************)
StillWaiting(c) == got[c] = {}

\* answerRepeatedDispatch for an id already known: its kept outcome is sent
\* again (a running command gets its step plan, which changes no state).
AnswerRepeated(c) ==
  LET kept == IF held[c] # NoOutcome THEN held[c] ELSE unacked[c] IN
  /\ IF c \notin running /\ kept # NoOutcome
     THEN SendLive(c, kept)
     ELSE UNCHANGED <<wire, sent, sentOn, used>>
  /\ UNCHANGED <<running, task, chain>>

\* Variant: only kept outcomes are looked up, not running commands.
Known_IgnoresRunning(c) == held[c] # NoOutcome \/ unacked[c] # NoOutcome

\* This daemon knows the command: answerRepeatedDispatch returns true.
Known(c) == c \in running \/ held[c] # NoOutcome \/ unacked[c] # NoOutcome

\* Variant: the handler does not wait for the journal write.
MarkInFlight_NotAwaited(c) ==
  \E r \in Run :
    /\ task[c][r] = "none" /\ \A q \in 1 .. r - 1 : task[c][q] # "none"
    /\ running' = running \cup {c}
    /\ task' = [task EXCEPT ![c][r] = "marked"]
    /\ chain' = [chain EXCEPT ![c] = Append(@, [by |-> "mark", run |-> r])]
    /\ UNCHANGED <<wire, sent, sentOn, used>>

\* markCommandInFlight: running at once, the journal write queued.
MarkInFlight(c) ==
  \E r \in Run :
    /\ task[c][r] = "none" /\ \A q \in 1 .. r - 1 : task[c][q] # "none"
    /\ running' = running \cup {c}
    /\ task' = [task EXCEPT ![c][r] = "marking"]
    /\ chain' = [chain EXCEPT ![c] = Append(@, [by |-> "mark", run |-> r])]
    /\ UNCHANGED <<wire, sent, sentOn, used>>

\* A command-dispatch frame; the control plane sends it (again) while it waits.
Dispatch(c) ==
  /\ link # "down" /\ StillWaiting(c)
  /\ seen' = seen \cup {c}
  /\ \/ (c \in seen \/ Known(c)) /\ AnswerRepeated(c)
     \/ c \notin seen /\ ~Known(c) /\ MarkInFlight(c)
  /\ UNCHANGED <<held, unacked, timer, peer, cut, removing, attach, journal, link,
                 panel, acks, got, crashes, dropped>>

\* SeenCommandIds.#evict: the id passed its TTL or the size bound.
EvictSeen(c) ==
  /\ EvictionHappens /\ c \in seen
  /\ seen' = seen \ {c}
  /\ UNCHANGED <<running, held, unacked, sentOn, used, timer, peer, work,
                 journal, world, crashes, sent, dropped>>

\* The handler starts once the entry is journaled and the boot converge settled.
StartHandler(c, r) ==
  /\ task[c][r] = "marked"
  /\ task' = [task EXCEPT ![c][r] = "handling"]
  /\ UNCHANGED <<memory, chain, cut, removing, attach, journal, world, crashes, sent, dropped>>

\* deliverCommandOutcome up to its await: no longer running, outcome queued
\* for the journal.
Finish(c, r) ==
  /\ task[c][r] = "handling"
  /\ running' = running \ {c}
  /\ task' = [task EXCEPT ![c][r] = "storing"]
  /\ chain' = [chain EXCEPT ![c] = Append(@, [by |-> "deliver", run |-> r])]
  /\ UNCHANGED <<seen, held, unacked, sentOn, used, timer, peer, cut, removing,
                 attach, journal, world, crashes, sent, dropped>>

\* Variant: the journal alone is trusted to keep an unconfirmed outcome.
Deliver_JournalOnly(c, r) ==
  /\ task[c][r] = "stored"
  /\ task' = [task EXCEPT ![c][r] = "done"]
  /\ SendLive(c, HandlerOutcome(r))
  /\ UNCHANGED <<seen, running, held, unacked, timer, peer, chain, cut, removing, attach,
                 journal, link, panel, acks, got, crashes, dropped>>

\* deliverCommandOutcome after its await: send, then keep, clear or hold.
Deliver(c, r) ==
  LET o == HandlerOutcome(r) IN
  /\ task[c][r] = "stored"
  /\ task' = [task EXCEPT ![c][r] = "done"]
  /\ SendLive(c, o)
  /\ \/ /\ keepsUntilAck
        /\ unacked' = [unacked EXCEPT ![c] = o]
        /\ ScheduleResend(unacked', held)
        /\ UNCHANGED <<held, removing>>
     \/ /\ ~keepsUntilAck /\ link = "open"
        /\ removing' = removing \cup {c}
        /\ UNCHANGED <<held, unacked, timer>>
     \/ /\ ~keepsUntilAck /\ link # "open"
        /\ held' = [held EXCEPT ![c] = o]
        /\ UNCHANGED <<unacked, timer, removing>>
  /\ UNCHANGED <<seen, running, peer, chain, cut, attach, journal, link, panel,
                 acks, got, crashes, dropped>>

-----------------------------------------------------------------------------
(***************************************************************************)
(* The journal: writes of one id land in the order they were queued.       *)
(***************************************************************************)
Written(w) ==
  CASE w.by = "mark" -> Accepted
    [] w.by = "deliver" -> HandlerOutcome(w.run)
    [] OTHER -> Interrupted

\* A write lands (or fails, which is only logged) and its waiter may go on.
WriterDone(c, w) ==
  /\ \/ journal' = [journal EXCEPT ![c] = Written(w)]
     \/ JournalMayFail /\ UNCHANGED journal
  /\ \/ /\ w.by \in {"mark", "deliver"}
        /\ task' = [task EXCEPT ![c][w.run] =
                      IF w.by = "mark" THEN "marked" ELSE "stored"]
        /\ UNCHANGED attach
     \/ /\ w.by = "orphan"
        /\ attach' = [attach EXCEPT ![w.att] = [attach[w.att] EXCEPT !.wait = @ \ {c}]]
        /\ UNCHANGED task

\* The head of a chain lands.
WriteLands(c) ==
  /\ \/ /\ chain[c] # <<>>
        /\ WriterDone(c, Head(chain[c]))
        /\ chain' = [chain EXCEPT ![c] = Tail(@)]
        /\ UNCHANGED cut
     \/ /\ cut[c] # <<>>
        /\ WriterDone(c, Head(cut[c]))
        /\ cut' = [cut EXCEPT ![c] = Tail(@)]
        /\ UNCHANGED chain
  /\ UNCHANGED <<memory, removing, world, crashes, sent, dropped>>

-----------------------------------------------------------------------------
(***************************************************************************)
(* Confirmation: acknowledgeCommandOutcome.                                *)
(***************************************************************************)

\* acknowledgeCommandOutcome of each id of S: forget it, its chain included,
\* and remove its journal entry; ignored for a command still running.
Acknowledge(S) ==
  LET gone == S \ running IN
  /\ held' = Without(held, gone)
  /\ unacked' = Without(unacked, gone)
  /\ chain' = [c \in Cmd |-> IF c \in gone THEN <<>> ELSE chain[c]]
  /\ cut' = [c \in Cmd |-> IF c \in gone THEN cut[c] \o chain[c] ELSE cut[c]]
  /\ removing' = removing \cup gone

\* A command-outcome-ack frame.
AckArrives(c) ==
  /\ link # "down" /\ c \in acks
  /\ acks' = acks \ {c}
  /\ Acknowledge({c})
  /\ UNCHANGED <<seen, running, sentOn, used, timer, peer, task, attach,
                 journal, link, panel, wire, got, crashes, sent, dropped>>

\* removeJournal; it does not wait for writes still queued.
RemoveLands(c) ==
  /\ c \in removing
  /\ removing' = removing \ {c}
  /\ journal' = [journal EXCEPT ![c] = NoOutcome]
  /\ UNCHANGED <<memory, task, chain, cut, attach, world, crashes, sent, dropped>>

-----------------------------------------------------------------------------
(***************************************************************************)
(* The resend timer.                                                       *)
(***************************************************************************)

\* RESEND_INTERVAL_MS pass: what was sent is old, and the burst window is over.
Tick ==
  /\ used > 0 \/ \E c \in Cmd : sentOn[c] = "fresh"
  /\ used' = 0
  /\ sentOn' = [c \in Cmd |-> IF sentOn[c] = "fresh" THEN "old" ELSE sentOn[c]]
  /\ UNCHANGED <<seen, running, held, unacked, timer, peer, work, journal,
                 world, crashes, sent, dropped>>

\* resendUnacked: what is due goes out as far as the window allows, never
\* sent first, then what was sent longest ago.
Resendable(u, due) ==
  LET msgs  == {<<c, u[c]>> : c \in Kept(u) \cap due}
      never == {<<c, u[c]>> : c \in {d \in Kept(u) \cap due : sentOn[d] = "no"}}
  IN IF link # "open" THEN {{}}
     ELSE {S \in Paced(msgs) : never \subseteq S \/ S \subseteq never}

\* The timer fires: resend what was not sent in the last interval, let an
\* older control plane have what is still held, arm again while anything is
\* kept.  With an older control plane attached nothing is unconfirmed.
ResendTimer ==
  /\ timer
  /\ \/ /\ keepsUntilAck
        /\ \E S \in Resendable(unacked, {c \in Cmd : sentOn[c] # "fresh"}) : Send(S)
        /\ UNCHANGED <<held, removing>>
     \/ /\ ~keepsUntilAck
        /\ \E S \in Flushable(held) : FlushHeld(held, S)
  /\ timer' = (Kept(unacked) # {} \/ Kept(held') # {})
  /\ UNCHANGED <<seen, running, unacked, peer, task, chain, cut, attach, journal,
                 link, panel, acks, got, crashes, dropped>>

-----------------------------------------------------------------------------
(***************************************************************************)
(* Sessions.                                                               *)
(***************************************************************************)

\* A socket opens: noteSessionOpen makes it the current one and sends what is
\* kept.  Which control plane answers is not known before its attach frame.
SessionOpen(p) ==
  /\ link = "down"
  /\ link' = "open" /\ panel' = p /\ peer' = "unknown"
  /\ LET kept == Messages(unacked) \cup Messages(held) IN
     \E S \in SUBSET kept :
       /\ Cardinality(S) = Capped(Cardinality(kept))
       /\ Messages(unacked) \subseteq S \/ S \subseteq Messages(unacked)
       /\ wire' = S
       /\ sent' = sent \cup {m[1] : m \in S}
       /\ sentOn' = [c \in Cmd |-> IF \E m \in S : m[1] = c THEN "fresh" ELSE "no"]
       /\ used' = Cardinality(S)
  /\ ScheduleResend(unacked, held)
  /\ UNCHANGED <<seen, running, held, unacked, work, journal, acks, got,
                 crashes, dropped>>

AttachDone == \A a \in Attaches : attach[a].pc = "idle"
AttachSocketGone == [a \in Attaches |-> [attach[a] EXCEPT !.live = FALSE]]

\* The daemon itself closes the socket: nothing is sent on it any more.
BeginClose ==
  /\ link = "open" /\ (AttachOutlivesSocket \/ AttachDone)
  /\ link' = "closing" /\ attach' = AttachSocketGone
  /\ UNCHANGED <<memory, task, chain, cut, removing, journal, panel, wire, acks, got,
                 crashes, sent, dropped>>

\* ws.onclose: the socket is gone, and with it the frames under way in both
\* directions and what the daemon knew about the control plane.
Close ==
  /\ link # "down" /\ (AttachOutlivesSocket \/ AttachDone)
  /\ link' = "down" /\ peer' = "unknown" /\ wire' = {} /\ acks' = {}
  /\ attach' = AttachSocketGone
  /\ UNCHANGED <<seen, running, held, unacked, sentOn, used, timer, task, chain, cut,
                 removing, journal, panel, got, crashes, sent, dropped>>

\* The attach frame: flushCommandOutcomes up to its first await.
AttachFrame(a) ==
  /\ link # "down" /\ peer = "unknown" /\ attach[a].pc = "idle"
  /\ peer' = panel
  /\ \/ /\ panel = "recovers"
        /\ unacked' = [c \in Cmd |-> IF held[c] # NoOutcome THEN held[c] ELSE unacked[c]]
        /\ held' = [c \in Cmd |-> NoOutcome]
        /\ attach' = [attach EXCEPT ![a] = [IdleAttach EXCEPT !.pc = "clearing", !.live = (link = "open")]]
        /\ UNCHANGED <<wire, sent, sentOn, used, removing>>
     \/ /\ panel = "older"
        /\ unacked' = [c \in Cmd |-> NoOutcome]
        /\ LET all == [c \in Cmd |-> IF unacked[c] # NoOutcome THEN unacked[c] ELSE held[c]] IN
           \E S \in Flushable(all) :
             /\ FlushHeld(all, S)
             /\ attach' = [attach EXCEPT ![a] =
                  [IdleAttach EXCEPT !.pc = "clearing", !.live = (link = "open"), !.clear = S]]
  /\ UNCHANGED <<seen, running, timer, task, chain, cut, journal, link, panel, acks,
                 got, crashes, dropped>>

\* Variant: the check of the socket is the wrong way round.
AttachCleared_StopsWhenOpen(a) ==
  /\ attach[a].pc = "clearing" /\ attach[a].clear \cap removing = {}
  /\ attach' = [attach EXCEPT ![a] = IF ~@.live THEN [@ EXCEPT !.pc = "listing", !.clear = {}]
                                     ELSE IdleAttach]
  /\ UNCHANGED <<memory, task, chain, cut, removing, journal, world, crashes, sent, dropped>>

\* Every removal it waits for is done: stop if its socket closed meanwhile
\* (which is not looked at again), else list the journal directory.
AttachCleared(a) ==
  /\ attach[a].pc = "clearing" /\ attach[a].clear \cap removing = {}
  /\ attach' = [attach EXCEPT ![a] = IF @.live THEN [IdleAttach EXCEPT !.pc = "listing"]
                                     ELSE IdleAttach]
  /\ UNCHANGED <<memory, task, chain, cut, removing, journal, world, crashes, sent, dropped>>

\* orphanedIds: the names in the journal directory ...
AttachLists(a) ==
  /\ attach[a].pc = "listing"
  /\ attach' = [attach EXCEPT ![a] = [attach[a] EXCEPT !.pc = "filtering",
                                                         !.ids = Kept(journal)]]
  /\ UNCHANGED <<memory, task, chain, cut, removing, journal, world, crashes, sent, dropped>>

\* ... of commands this process is neither running nor keeping.
AttachFilters(a) ==
  /\ attach[a].pc = "filtering"
  /\ attach' = [attach EXCEPT ![a] = [attach[a] EXCEPT !.pc = "reading",
                                                 !.ids = {c \in @ : ~Known(c)}]]
  /\ UNCHANGED <<memory, task, chain, cut, removing, journal, world, crashes, sent, dropped>>

\* readJournalEntry of each.
AttachReads(a) ==
  /\ attach[a].pc = "reading"
  /\ attach' = [attach EXCEPT ![a] = [attach[a] EXCEPT !.pc = "applying",
                  !.entries = [c \in Cmd |-> IF c \in attach[a].ids
                                             THEN journal[c] ELSE NoOutcome]]]
  /\ UNCHANGED <<memory, task, chain, cut, removing, journal, world, crashes, sent, dropped>>

\* answerOrphans after its reads: the answers are kept (and an interrupted one
\* queued for the journal), or sent and cleared.
AttachApplies(a) ==
  LET ids == attach[a].ids
      entries == attach[a].entries
      reply(m) == [c \in Cmd |-> IF c \in ids THEN OrphanReply(entries[c]) ELSE m[c]]
      rewrite == {c \in ids : ~IsJournaledOutcome(entries[c])}
  IN
  /\ attach[a].pc = "applying"
  /\ \/ /\ recovers
        /\ unacked' = reply(unacked)
        /\ chain' = [c \in Cmd |-> IF c \in rewrite
                                   THEN Append(chain[c], [by |-> "orphan", att |-> a])
                                   ELSE chain[c]]
        /\ attach' = [attach EXCEPT ![a] = [IdleAttach EXCEPT
                         !.pc = "settling", !.wait = rewrite]]
        /\ UNCHANGED <<held, wire, sent, sentOn, used, removing>>
     \/ /\ ~recovers
        /\ \E S \in Flushable(reply(held)) :
             /\ FlushHeld(reply(held), S)
             /\ attach' = [attach EXCEPT ![a] = [IdleAttach EXCEPT
                              !.pc = "settling", !.clear = S]]
        /\ UNCHANGED <<unacked, chain>>
  /\ UNCHANGED <<seen, running, timer, peer, task, cut, journal, link, panel,
                 acks, got, crashes, dropped>>

\* pruneUnacked: outcomes past the retention time, and the oldest beyond the
\* entry cap, are acknowledged by the daemon itself.
AttachPrunes(a) ==
  /\ attach[a].pc = "settling"
  /\ attach[a].wait = {} /\ attach[a].clear \cap removing = {}
  /\ \E stale \in SUBSET (IF StaleHappens THEN Kept(unacked) ELSE {}) :
     \E overflow \in SUBSET (Kept(unacked) \ stale) :
       LET kept == Cardinality(Kept(unacked) \ stale)
           drop == stale \cup overflow
       IN /\ Cardinality(overflow) = IF kept > UnackedMax THEN kept - UnackedMax ELSE 0
          /\ Acknowledge(drop)
          /\ dropped' = dropped \cup (drop \ running)
          /\ attach' = [attach EXCEPT ![a] = [attach[a] EXCEPT !.pc = "resending",
                                                        !.clear = drop \ running]]
  /\ UNCHANGED <<seen, running, sentOn, used, timer, peer, task, journal,
                 world, crashes, sent>>

\* The rest of flushCommandOutcomes: what this socket has not had yet goes out.
AttachResends(a) ==
  /\ attach[a].pc = "resending" /\ attach[a].clear \cap removing = {}
  /\ \E S \in Resendable(unacked, {c \in Cmd : sentOn[c] = "no"}) : Send(S)
  /\ ScheduleResend(unacked, held)
  /\ attach' = [attach EXCEPT ![a] = IdleAttach]
  /\ UNCHANGED <<seen, running, held, unacked, peer, task, chain, cut, removing,
                 journal, link, panel, acks, got, crashes, dropped>>

-----------------------------------------------------------------------------
(***************************************************************************)
(* The control plane (outside this repository) and the daemon being killed. *)
(***************************************************************************)

\* The control plane stores an outcome and, if it can, confirms it.
PanelStores(c, o) ==
  /\ link # "down" /\ <<c, o>> \in wire
  /\ wire' = wire \ {<<c, o>>}
  /\ got' = [got EXCEPT ![c] = @ \cup {o}]
  /\ acks' = IF panel = "recovers" THEN acks \cup {c} ELSE acks
  /\ UNCHANGED <<memory, work, journal, link, panel, crashes, sent, dropped>>

\* The daemon dies and starts again: memory, sockets and queued writes are
\* gone.  A run whose entry never reached the disk never began.
Crash ==
  /\ crashes < MaxCrashes
  /\ crashes' = crashes + 1
  /\ seen' = {} /\ running' = {}
  /\ held' = [c \in Cmd |-> NoOutcome] /\ unacked' = [c \in Cmd |-> NoOutcome]
  /\ sentOn' = [c \in Cmd |-> "no"] /\ used' = 0 /\ timer' = FALSE
  /\ peer' = "none"
  /\ task' = [c \in Cmd |-> [r \in Run |->
                CASE task[c][r] = "marking" -> "none"
                  [] task[c][r] \in {"marked", "handling", "storing", "stored"} -> "dead"
                  [] OTHER -> task[c][r]]]
  /\ chain' = [c \in Cmd |-> <<>>] /\ cut' = [c \in Cmd |-> <<>>] /\ removing' = {}
  /\ attach' = [a \in Attaches |-> IdleAttach]
  /\ link' = "down" /\ wire' = {} /\ acks' = {}
  /\ UNCHANGED <<journal, panel, got, sent, dropped>>

-----------------------------------------------------------------------------
TaskStep(c) ==
  \/ WriteLands(c) \/ RemoveLands(c)
  \/ \E r \in Run : StartHandler(c, r) \/ Finish(c, r) \/ Deliver(c, r)

AttachStep(a) ==
  \/ AttachFrame(a) \/ AttachCleared(a) \/ AttachLists(a) \/ AttachFilters(a)
  \/ AttachReads(a) \/ AttachApplies(a) \/ AttachPrunes(a) \/ AttachResends(a)

Next ==
  \/ \E c \in Cmd : Dispatch(c) \/ EvictSeen(c) \/ TaskStep(c) \/ AckArrives(c)
  \/ \E c \in Cmd, o \in Outcome : PanelStores(c, o)
  \/ \E a \in Attaches : AttachStep(a)
  \/ Tick \/ ResendTimer
  \/ \E p \in PeerKinds : SessionOpen(p)
  \/ BeginClose \/ Close \/ Crash

Spec == Init /\ [][Next]_vars

\* Fairness.  Timers fire, files get written and read, handlers end, and the
\* client finishes a close and reconnects for ever.  Frames may be lost with their socket, but a
\* control plane that keeps being reached gets one through in the end (strong
\* fairness: a socket may close before any particular frame arrives).
Fairness ==
  /\ \A c \in Cmd :
       /\ WF_vars(WriteLands(c)) /\ WF_vars(RemoveLands(c)) /\ SF_vars(AckArrives(c))
       /\ \A r \in Run : WF_vars(StartHandler(c, r) \/ Finish(c, r) \/ Deliver(c, r))
       /\ SF_vars(\E o \in Outcome : PanelStores(c, o))
  /\ \A a \in Attaches :
       /\ SF_vars(link = "open" /\ AttachFrame(a))
       /\ WF_vars(AttachCleared(a) \/ AttachLists(a) \/ AttachFilters(a) \/ AttachReads(a)
                  \/ AttachApplies(a) \/ AttachPrunes(a) \/ AttachResends(a))
  /\ WF_vars(Tick) /\ WF_vars(ResendTimer)
  /\ WF_vars(\E p \in PeerKinds : SessionOpen(p))
  /\ WF_vars(link = "closing" /\ Close)

FairSpec == Spec /\ Fairness

-----------------------------------------------------------------------------
(***************************************************************************)
(* Properties.                                                             *)
(***************************************************************************)
Busy == {"marking", "marked", "handling"}

\* However often a command is dispatched again, across reconnects and after
\* its id has left the dedupe memory, its handler never runs twice at the same
\* time in one daemon ("never runs twice" of handleCommandDispatch).
OneHandlerAtATime ==
  \A c \in Cmd, r, q \in Run :
    task[c][r] \in Busy /\ task[c][q] \in Busy => r = q

Started(c) == \E r \in Run : task[c][r] \notin {"none", "marking"}

\* A command whose handler may have run is not forgotten before the control
\* plane has stored some outcome of it: until then a journal entry is on disk,
\* so that not even a kill between any two steps loses the answer.
NeverForgotten ==
  \A c \in Cmd :
    Started(c) /\ got[c] = {} /\ c \notin dropped => journal[c] # NoOutcome

\* A full disk alone loses nothing: without a kill, a started command is
\* running, being finished, kept in memory or on disk until it is answered.
NeverForgottenAlive ==
  \A c \in Cmd :
    crashes = 0 /\ Started(c) /\ got[c] = {} /\ c \notin dropped =>
      \/ journal[c] # NoOutcome \/ Known(c)
      \/ \E r \in Run : task[c][r] \in {"storing", "stored"}

\* Whatever control plane is met, and however its sockets come and go, a
\* journal entry is cleared only once an outcome was put on some open socket.
ForgottenOnlyAfterSend ==
  \A c \in Cmd :
    Started(c) /\ c \notin sent \cup dropped => journal[c] # NoOutcome

\* Every unconfirmed outcome has somebody who will send it again: the armed
\* timer, or an attach still at work that arms it at its end.
UnackedHasResender ==
  Kept(unacked) # {} =>
    timer \/ \E a \in Attaches : attach[a].pc \in {"settling", "resending"}

\* Only a control plane that confirms results, or may, is resent anything for
\* ever: once the peer is known not to confirm, nothing stays unconfirmed.
UnackedNeedsConfirmingPeer ==
  Kept(unacked) # {} => peer \notin {"none", "older"}

\* "only a command with no recorded outcome was truly interrupted": an
\* interrupted answer exists only for a command whose daemon died in the
\* middle of it.
InterruptedOnlyIfDied ==
  \A c \in Cmd :
    Interrupted \in {unacked[c], held[c], journal[c]} \cup got[c]
      => \E r \in Run : task[c][r] = "dead"

\* Every accepted command is answered in the end (or dropped by the retention
\* bound), through any number of lost sockets and the bounded kills.
EventuallyAnswered ==
  \A c \in Cmd : journal[c] # NoOutcome ~> (got[c] # {} \/ c \in dropped)

\* The outbox keeps the promise of OutcomeDelivery: a record leaves the disk
\* only once the control plane stored an outcome or it was given up.
Delivery == INSTANCE OutcomeDelivery WITH
  owed <- Kept(journal),
  answered <- {c \in Cmd : got[c] # {}},
  abandoned <- dropped

RefinesDelivery == Delivery!DeliverySpec
=============================================================================
