---------------------------- MODULE SignedSession ---------------------------
(***************************************************************************)
(* The signed session of a pinned socket (src/instance/signed-session.ts,  *)
(* report-signing.ts, the checks of panel-identity-frames.ts) and the part *)
(* of the client that drives it (src/instance/client.ts).                  *)
(*                                                                         *)
(* A session says nothing but its nonce until the signed hello verifies,   *)
(* takes the frames of the control plane one at a time and in sequence,    *)
(* holds reports until the attach frame tells whether they are to be       *)
(* signed, and signs them while later sends queue behind.  Checking and    *)
(* signing are awaited, so the timer, the close of the socket and the next *)
(* socket come in between.  The transport pong, the signature itself, the  *)
(* pinned key and the clock are left out: a frame verifies or it does not. *)
(***************************************************************************)
EXTENDS Naturals, Sequences, Functions

CONSTANTS
  MaxHeld,    \* MAX_HELD_REPORTS
  MaxSockets, \* bound: sockets opened one after the other
  MaxSends,   \* bound: sends
  MaxFrames,  \* bound: frames the control plane numbers on a socket
  MaxMishaps  \* bound: frames lost, repeated or altered on the way, sockets
              \* that close, hellos that are late, signatures that fail

ASSUME SessionAssumption ==
  /\ {MaxSends, MaxMishaps} \subseteq Nat /\ {MaxHeld, MaxSockets, MaxFrames} \subseteq Nat \ {0}

Socket == 1 .. MaxSockets
None == 0

VARIABLES
  ws,       \* #ws: the current socket
  state,    \* readyState, per socket
  known,    \* #peerFeaturesKnown
  listed,   \* instanceSupports(SIGNED_REPORTS_FEATURE)
  session,  \* per socket: SignedPanelSession without its queues
  lane,     \* per socket: reports held, sends queued, frames that have left on
            \* it (while it is there)
  chain,    \* per socket: inbound frames waiting for the one before
  step,     \* per socket: what is awaited for the first of them
  peer,     \* external, per socket: frames numbered so far, signs understood
  got,      \* per socket, while it is there: the frames handed to the client
  faulty,   \* observer, per socket: a frame was damaged or the proof refused
  sends, mishaps  \* bounds

client == <<ws, known, listed>>
inbound == <<chain, step, got>>
vars == <<client, state, session, lane, inbound, peer, faulty, sends, mishaps>>

-----------------------------------------------------------------------------
\* Frame 0 is the hello, 1 the attach frame, the others are work.
Frame == [n : 0 .. MaxFrames, intact : BOOLEAN]
\* A send, and how it left: plain, signed, or plain because signing failed.
Item == [id : 1 .. MaxSends, report : BOOLEAN, late : BOOLEAN,
         how : {"plain", "signing", "signed", "failed"}]
Fresh == [verified |-> FALSE, started |-> FALSE, closed |-> FALSE, timer |-> FALSE,
          failure |-> "none", lastSeq |-> 0]
Failure == {"none", "timeout", "identity", "lost"}
Lane == [held : Seq(1 .. MaxSends), out : Seq(Item), wire : Seq(Item)]

TypeOK ==
  /\ ws \in Socket \cup {None} /\ known \in BOOLEAN /\ listed \in BOOLEAN
  /\ state \in [Socket -> {"new", "open", "closing", "closed"}]
  /\ session \in [Socket -> [verified : BOOLEAN, started : BOOLEAN, closed : BOOLEAN,
                             timer : BOOLEAN, failure : Failure, lastSeq : 0 .. MaxFrames]]
  /\ lane \in [Socket -> Lane] /\ \A s \in Socket : Len(lane[s].held) <= MaxHeld
  /\ chain \in [Socket -> Seq(Frame)] /\ got \in [Socket -> Seq(1 .. MaxFrames)]
  /\ \A s \in Socket : step[s] # "idle" => chain[s] # <<>>
  /\ step \in [Socket -> {"idle", "verify", "open"}]
  /\ peer \in [Socket -> [next : 0 .. MaxFrames + 1, signs : BOOLEAN]]
  /\ faulty \in [Socket -> BOOLEAN]
  /\ sends \in 0 .. MaxSends /\ mishaps \in 0 .. MaxMishaps

Init ==
  /\ ws = None /\ known = FALSE /\ listed = FALSE
  /\ state = [s \in Socket |-> "new"] /\ session = [s \in Socket |-> Fresh]
  /\ lane = [s \in Socket |-> [held |-> <<>>, out |-> <<>>, wire |-> <<>>]]
  /\ chain = [s \in Socket |-> <<>>] /\ step = [s \in Socket |-> "idle"]
  /\ peer = [s \in Socket |-> [next |-> 0, signs |-> FALSE]]
  /\ got = [s \in Socket |-> <<>>] /\ faulty = [s \in Socket |-> FALSE]
  /\ sends = 0 /\ mishaps = 0

Mishap == mishaps < MaxMishaps /\ mishaps' = mishaps + 1
NoMishap == mishaps' = mishaps

-----------------------------------------------------------------------------
(***************************************************************************)
(* The socket.                                                             *)
(***************************************************************************)
\* The next socket opens; this control plane may be older than the last one.
Connect(s) ==
  /\ ws = None /\ state[s] = "new" /\ \A t \in 1 .. s - 1 : state[t] # "new"
  /\ ws' = s /\ known' = FALSE /\ UNCHANGED listed
  /\ state' = [state EXCEPT ![s] = "open"]
  /\ session' = [session EXCEPT ![s].timer = TRUE]
  /\ \E signs \in BOOLEAN : peer' = [peer EXCEPT ![s].signs = signs]
  /\ UNCHANGED <<lane, inbound, faulty, sends, mishaps>>

\* #fail: the session is over, the close event is still to come.
Fails(s, failure) ==
  /\ session' = [session EXCEPT ![s].failure = failure, ![s].closed = TRUE, ![s].timer = FALSE]
  /\ lane' = [lane EXCEPT ![s].held = <<>>]
  /\ state' = [state EXCEPT ![s] = IF @ = "open" THEN "closing" ELSE @]

HelloTimeout(s) ==
  /\ session[s].timer /\ ~session[s].verified /\ ~session[s].closed
  /\ Fails(s, "timeout") /\ Mishap
  /\ UNCHANGED <<client, inbound, peer, faulty, sends>>

\* noteClosed: the first failure stands; a control plane that refuses the proof
\* closes with 4403.
UnprovenIsRefused(s, refused) ==
  IF session[s].failure # "none" THEN session[s].failure
  ELSE IF refused \/ ~session[s].verified THEN "identity" ELSE "none"
FailureOnClose(s, refused) ==
  IF session[s].failure # "none" THEN session[s].failure
  ELSE IF refused THEN "identity"
  ELSE IF ~session[s].verified THEN "lost" ELSE "none"
\* onclose, then noteClosed with the code.
Closed(s, refused) ==
  /\ state[s] \in {"open", "closing"} /\ state' = [state EXCEPT ![s] = "closed"]
  /\ IF state[s] = "open" THEN Mishap ELSE ~refused /\ NoMishap
  /\ IF ws = s THEN ws' = None /\ known' = FALSE /\ listed' = FALSE ELSE UNCHANGED client
  /\ session' = [session EXCEPT ![s].closed = TRUE, ![s].timer = FALSE,
                                ![s].failure = FailureOnClose(s, refused)]
  /\ lane' = [lane EXCEPT ![s].held = <<>>, ![s].wire = <<>>]
  /\ got' = [got EXCEPT ![s] = <<>>]
  /\ faulty' = [faulty EXCEPT ![s] = @ \/ refused]
  /\ UNCHANGED <<chain, step, peer, sends>>

-----------------------------------------------------------------------------
(***************************************************************************)
(* Outbound.                                                               *)
(***************************************************************************)
HoldsReport(report) == report /\ ~known
Signs(report) == report /\ listed
\* Sends that are not held: signed while the next ones queue, at once, or
\* behind the ones that are being signed.
OvertakesSigning(l, items) ==
  IF items # <<>> /\ Signs(items[1].report)
  THEN [l EXCEPT !.out = @ \o [i \in DOMAIN items |-> [items[i] EXCEPT !.how = "signing"]]]
  ELSE [l EXCEPT !.wire = @ \o items]
SendVerified(l, items) ==
  IF items # <<>> /\ Signs(items[1].report)
  THEN [l EXCEPT !.out = @ \o [i \in DOMAIN items |-> [items[i] EXCEPT !.how = "signing"]]]
  ELSE IF l.out = <<>> THEN [l EXCEPT !.wire = @ \o items]
  ELSE [l EXCEPT !.out = @ \o items]
Sent(id, report) == [id |-> id, report |-> report, late |-> FALSE, how |-> "plain"]

OneTooMany(l) == Len(l.held) > MaxHeld
Full(l) == Len(l.held) >= MaxHeld

\* A component of the client sends on the current socket.  Before the hello,
\* after the end and past the bound of the held reports it is dropped.
Send(report) ==
  LET id == sends + 1
      s == ws
      l == lane[s]
  IN /\ sends < MaxSends /\ sends' = id
     /\ s # None /\ state[s] = "open"
     /\ lane' = IF ~session[s].verified \/ session[s].closed THEN lane
                ELSE IF ~HoldsReport(report)
                THEN [lane EXCEPT ![s] = SendVerified(l, <<Sent(id, report)>>)]
                ELSE IF Full(l) THEN lane
                ELSE [lane EXCEPT ![s].held = Append(@, id)]
     /\ UNCHANGED <<client, state, session, inbound, peer, faulty, mishaps>>

\* Signatures are made side by side and end in any order; one that fails is
\* done without.
Sign(s, i) ==
  /\ i \in DOMAIN lane[s].out /\ lane[s].out[i].how = "signing"
  /\ \E how \in {"signed", "failed"} :
       /\ lane' = [lane EXCEPT ![s].out[i].how = how]
       /\ IF how = "failed" THEN Mishap ELSE NoMishap
  /\ UNCHANGED <<client, state, session, inbound, peer, faulty, sends>>

\* The first queued send leaves, if the session is still there.
LeavesAlways(s) == TRUE
MayLeave(s) == ~session[s].closed /\ state[s] = "open"
Leave(s) ==
  LET l == lane[s]
  IN /\ l.out # <<>> /\ Head(l.out).how # "signing"
     /\ lane' = [lane EXCEPT ![s].out = Tail(@),
                             ![s].wire = IF MayLeave(s) THEN Append(@, Head(l.out)) ELSE @]
     /\ UNCHANGED <<client, state, session, inbound, peer, faulty, sends, mishaps>>

-----------------------------------------------------------------------------
(***************************************************************************)
(* Inbound.                                                                *)
(***************************************************************************)
\* The control plane's next frame arrives, or is lost, repeated or altered on
\* the way; only the current socket is listened to.
Arrive(s) ==
  LET n == peer[s].next
      frame(intact) == [n |-> n, intact |-> intact]
  IN /\ state[s] = "open" /\ ws = s /\ n <= MaxFrames
     /\ peer' = [peer EXCEPT ![s].next = n + 1]
     /\ \/ /\ chain' = [chain EXCEPT ![s] = Append(@, frame(TRUE))]
           /\ UNCHANGED faulty /\ NoMishap
        \/ /\ \E frames \in {<<>>, <<frame(TRUE), frame(TRUE)>>, <<frame(FALSE)>>} :
                chain' = [chain EXCEPT ![s] = @ \o frames]
           /\ faulty' = [faulty EXCEPT ![s] = TRUE] /\ Mishap
     /\ UNCHANGED <<client, state, session, lane, step, got, sends>>

\* #handleNow: after the end a frame is dropped unread.
NextFrame(s) ==
  /\ step[s] = "idle" /\ chain[s] # <<>>
  /\ IF session[s].closed
     THEN chain' = [chain EXCEPT ![s] = Tail(@)] /\ UNCHANGED step
     ELSE step' = [step EXCEPT ![s] = "verify"] /\ UNCHANGED chain
  /\ UNCHANGED <<client, state, session, lane, got, peer, faulty, sends, mishaps>>
Done(s) == chain' = [chain EXCEPT ![s] = Tail(@)] /\ step' = [step EXCEPT ![s] = "idle"]

\* verifyHello, verifyEnvelopedFrame.
AnySequence(s, f) == f.intact /\ (session[s].verified <=> f.n > 0)
Verifies(s, f) ==
  /\ f.intact
  /\ IF session[s].verified THEN f.n = session[s].lastSeq + 1 ELSE f.n = 0
HelloVerified(s) ==
  /\ step[s] = "verify" /\ ~session[s].verified /\ Verifies(s, chain[s][1])
  /\ session' = [session EXCEPT ![s].verified = TRUE, ![s].timer = FALSE]
  /\ step' = [step EXCEPT ![s] = "open"]
  /\ UNCHANGED <<client, state, lane, chain, got, peer, faulty, sends, mishaps>>
\* onVerified: the session work starts unless another socket has come.
Opened(s) ==
  /\ step[s] = "open" /\ Done(s)
  /\ session' = [session EXCEPT ![s].started = ws = s]
  /\ UNCHANGED <<client, state, lane, got, peer, faulty, sends, mishaps>>

\* #dispatchRawMessage: the frame of another socket is ignored.
TakesAnySocket(s) == ws # None
Current(s) == ws = s
\* #notePeerFeatures and peerFeaturesKnown: the held reports go out, signed when
\* the control plane lists it.
KeepsHeld(l, signs) == l
Late(l, signs) ==
  [i \in DOMAIN l.held |-> [id |-> l.held[i], report |-> TRUE, late |-> TRUE,
                            how |-> IF signs THEN "signing" ELSE "plain"]]
Release(l, signs) ==
  IF signs \/ l.out # <<>>
  THEN [l EXCEPT !.held = <<>>, !.out = @ \o Late(l, signs)]
  ELSE [l EXCEPT !.held = <<>>, !.wire = @ \o Late(l, signs)]
FrameVerified(s) ==
  LET n == chain[s][1].n
  IN /\ step[s] = "verify" /\ session[s].verified /\ Verifies(s, chain[s][1]) /\ Done(s)
     /\ session' = [session EXCEPT ![s].lastSeq = n]
     /\ IF ~Current(s) THEN UNCHANGED <<got, known, listed, lane>>
        ELSE /\ got' = [got EXCEPT ![s] = Append(@, n)]
             /\ IF n # 1 THEN UNCHANGED <<known, listed, lane>>
                ELSE /\ known' = TRUE /\ listed' = peer[s].signs
                     /\ lane' = [lane EXCEPT ![ws] = Release(@, peer[s].signs)]
     /\ UNCHANGED <<ws, state, peer, faulty, sends, mishaps>>
\* #refuse: close with 4403.
Refuse(s) ==
  /\ step[s] = "verify" /\ ~Verifies(s, chain[s][1]) /\ Done(s) /\ Fails(s, "identity")
  /\ UNCHANGED <<client, got, peer, faulty, sends, mishaps>>

-----------------------------------------------------------------------------
Next ==
  \/ \E report \in BOOLEAN : Send(report)
  \/ \E s \in Socket :
       \/ Connect(s) \/ HelloTimeout(s) \/ (\E refused \in BOOLEAN : Closed(s, refused))
       \/ (\E i \in 1 .. MaxSends : Sign(s, i)) \/ Leave(s)
       \/ Arrive(s) \/ NextFrame(s)
       \/ HelloVerified(s) \/ Opened(s) \/ FrameVerified(s) \/ Refuse(s)

Spec == Init /\ [][Next]_vars

\* Promises settle, the control plane goes on, a socket that is closing closes.
Fairness ==
  \A s \in Socket :
    /\ WF_vars(\E i \in 1 .. MaxSends : Sign(s, i)) /\ WF_vars(Leave(s))
    /\ WF_vars(NextFrame(s) \/ HelloVerified(s) \/ Opened(s) \/ FrameVerified(s) \/ Refuse(s))
    /\ WF_vars(Arrive(s)) /\ WF_vars(state[s] = "closing" /\ Closed(s, FALSE))
FairSpec == Spec /\ Fairness

-----------------------------------------------------------------------------
\* Frames leave in the order in which they were sent, however long each takes to
\* sign, but for the reports that waited for the attach frame; those keep their
\* order among the reports ("the frames keep their order").
SendOrderKept ==
  \A s \in Socket : \A i, j \in DOMAIN lane[s].wire :
    LET a == lane[s].wire[i]
        b == lane[s].wire[j]
    IN i < j => a.id < b.id \/ (b.late /\ ~a.report)

\* A control plane that understands signed reports never gets one unsigned,
\* unless the signature itself failed: not in the time before the attach frame,
\* not because the one of the socket before was older.
NoUnsignedReport ==
  \A s \in Socket : \A item \in Range(lane[s].wire) :
    item.report /\ item.how = "plain" => ~peer[s].signs

\* The client sees the control plane's frames whole and in sequence, none twice
\* and none left out, and none before the work of the session has started.
InSequence ==
  \A s \in Socket :
    /\ got[s] = [i \in 1 .. Len(got[s]) |-> i]
    /\ got[s] # <<>> => session[s].started

\* A session is taken for one without the panel's key, and the client parks,
\* only when a frame was damaged on the way or the control plane refused: no
\* silence and no overlap of two checks is read as a failed proof.  (A refusal
\* for a key that is not the pinned one or a clock that is off by more than
\* five minutes, which verifyHello and verifyEnvelopedFrame give, is left out.)
NoFalseRefusal == \A s \in Socket : session[s].failure = "identity" => faulty[s]

\* Nothing leaves before the hello verified and nothing after the session has
\* ended, whatever was still being signed or held.
SilentOutsideSession ==
  [][\A s \in Socket : Len(lane[s].wire') > Len(lane[s].wire) =>
       session[s].verified /\ ~session[s].closed /\ state[s] = "open"]_vars

\* A report that was held or is being signed leaves, or its session ends.
Pending(s) == Range(lane[s].held) \cup {item.id : item \in Range(lane[s].out)}
ReportsLeave ==
  \A s \in Socket : \A id \in 1 .. MaxSends :
    id \in Pending(s) ~>
      (session[s].closed \/ \E item \in Range(lane[s].wire) : item.id = id)
=============================================================================
