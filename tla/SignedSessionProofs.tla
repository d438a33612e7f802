------------------------- MODULE SignedSessionProofs ------------------------
(***************************************************************************)
(* Proofs about SignedSession for every number of sockets, sends, frames   *)
(* and mishaps: its types, and with one inductive invariant the properties *)
(* that the run SessionSigned checks on a small instance.                  *)
(***************************************************************************)
EXTENDS SignedSession, SequenceTheorems, TLAPS

(***************************************************************************)
(* The inductive invariant, one part per reason.                           *)
(***************************************************************************)
Verified(s) == session[s].verified
Ended(s) == session[s].closed

\* A socket is the current one exactly while it is there; one that was never
\* opened is untouched, and one that is gone holds nothing to be read or sent.
Presence(s) ==
  /\ ws = s <=> state[s] \in {"open", "closing"}
  /\ state[s] = "new" =>
       /\ session[s] = Fresh /\ peer[s].next = 0 /\ ~faulty[s]
       /\ lane[s] = [held |-> <<>>, out |-> <<>>, wire |-> <<>>]
       /\ chain[s] = <<>> /\ step[s] = "idle" /\ got[s] = <<>>
  /\ ws # s => got[s] = <<>> /\ lane[s].wire = <<>>
  /\ state[s] \in {"closing", "closed"} => Ended(s)

\* What was handed to the client is what was verified, and the session's work
\* has started before the first frame is handed over.
Handed(s) ==
  /\ step[s] = "open" => Verified(s)
  /\ ~Verified(s) \/ step[s] = "open" => session[s].lastSeq = 0
  /\ ws = s => /\ Len(got[s]) = session[s].lastSeq
               /\ \A i \in 1 .. Len(got[s]) : got[s][i] = i
               /\ Verified(s) /\ step[s] # "open" => session[s].started

\* The number the next frame to be checked must have.
Expected(s) == IF Verified(s) /\ step[s] # "open" THEN session[s].lastSeq + 1 ELSE 0

\* As long as nothing was damaged, what waits to be checked is the next frames,
\* without a gap up to the last one the control plane has sent.
Queued(s) ==
  /\ ~faulty[s] /\ (step[s] # "idle" \/ ~Ended(s)) =>
       /\ peer[s].next = Expected(s) + Len(chain[s])
       /\ \A i \in 1 .. Len(chain[s]) : chain[s][i].intact /\ chain[s][i].n + 1 = Expected(s) + i
  /\ session[s].failure = "identity" => faulty[s]

\* Nothing is queued before the hello verified, nothing is held after the end
\* or once the features are known.
Quiet(s) ==
  /\ ~Verified(s) => lane[s] = [held |-> <<>>, out |-> <<>>, wire |-> <<>>]
  /\ Ended(s) \/ ws # s \/ known => lane[s].held = <<>>

\* The answer to "are reports signed" is the one of the current socket's peer.
FeaturesAreOfPeer == known => ws \in Socket /\ listed = peer[ws].signs

\* Of what waits to leave or has left: no report before the features are known,
\* and an unsigned one only to a peer that does not understand signatures.
Unsigned(s) ==
  \A q \in {lane[s].out, lane[s].wire} : \A i \in 1 .. Len(q) :
    q[i].report => /\ ws = s => known
                   /\ q[i].how = "plain" => ~peer[s].signs

\* a may leave before b.
Before(a, b) == a.id < b.id \/ (b.late /\ ~a.report)

\* The order of the sends, through all the places where they wait.
Ordered(s) ==
  LET l == lane[s]
  IN /\ \A q \in {l.out, l.wire} :
          /\ \A i \in 1 .. Len(q) : q[i].id <= sends
          /\ \A i, j \in 1 .. Len(q) : i < j => Before(q[i], q[j])
     /\ \A i \in 1 .. Len(l.wire), j \in 1 .. Len(l.out) : Before(l.wire[i], l.out[j])
     /\ \A i \in 1 .. Len(l.held) : l.held[i] <= sends
     /\ \A i, j \in 1 .. Len(l.held) : i < j => l.held[i] < l.held[j]

Sound(s) == Presence(s) /\ Handed(s) /\ Queued(s) /\ Quiet(s) /\ Unsigned(s) /\ Ordered(s)

IInv == TypeOK /\ FeaturesAreOfPeer /\ \A s \in Socket : Sound(s)

-----------------------------------------------------------------------------
(***************************************************************************)
(* What the helpers make of a lane.                                        *)
(***************************************************************************)
\* The socket numbers, and the bounds, are numbers.
LEMMA Bounds ==
  /\ MaxHeld \in Nat \ {0} /\ MaxSockets \in Nat \ {0} /\ MaxFrames \in Nat \ {0}
  /\ MaxSends \in Nat /\ MaxMishaps \in Nat /\ Socket \subseteq Nat \ {0} /\ None \notin Socket
BY SessionAssumption DEF Socket, None

\* A lane is given by its three queues.
LEMMA LaneFields ==
  ASSUME NEW l \in Lane
  PROVE  /\ l = [held |-> l.held, out |-> l.out, wire |-> l.wire]
         /\ l.held \in Seq(1 .. MaxSends) /\ l.out \in Seq(Item) /\ l.wire \in Seq(Item)
         /\ Len(l.held) \in Nat /\ Len(l.out) \in Nat /\ Len(l.wire) \in Nat
<1>1. /\ l = [held |-> l.held, out |-> l.out, wire |-> l.wire]
      /\ l.held \in Seq(1 .. MaxSends) /\ l.out \in Seq(Item) /\ l.wire \in Seq(Item)
  BY DEF Lane
<1>. QED
  BY <1>1, LenProperties

\* Elements of a sequence with one more at its end.
LEMMA Appended ==
  ASSUME NEW S, NEW q \in Seq(S), NEW x \in S
  PROVE  /\ Append(q, x) \in Seq(S) /\ Len(Append(q, x)) = Len(q) + 1
         /\ \A i \in 1 .. Len(q) : Append(q, x)[i] = q[i]
         /\ Append(q, x)[Len(q) + 1] = x
         /\ q \o <<x>> = Append(q, x)
<1>1. <<x>> \in Seq(S) /\ Len(<<x>>) = 1 /\ <<x>>[1] = x
  OBVIOUS
<1>2. Append(q, x) \in Seq(S) /\ Len(Append(q, x)) = Len(q) + 1
  OBVIOUS
<1>3. /\ \A i \in 1 .. Len(q) : Append(q, x)[i] = q[i]
      /\ Append(q, x)[Len(q) + 1] = x
  OBVIOUS
<1>4. /\ q \o <<x>> \in Seq(S) /\ Len(q \o <<x>>) = Len(q) + 1
      /\ \A i \in 1 .. Len(q) + 1 : (q \o <<x>>)[i] = IF i <= Len(q) THEN q[i] ELSE <<x>>[i - Len(q)]
  BY <1>1, ConcatProperties
<1>5. Len(q) \in Nat
  BY LenProperties
<1>6. ASSUME NEW i \in 1 .. Len(q) + 1
      PROVE  (q \o <<x>>)[i] = Append(q, x)[i]
  <2>1. CASE i <= Len(q)
    BY <2>1, <1>3, <1>4, <1>5
  <2>2. CASE i = Len(q) + 1
    <3>1. (q \o <<x>>)[i] = <<x>>[1]
      BY <2>2, <1>4, <1>5
    <3>. QED
      BY <3>1, <2>2, <1>3, <1>1
  <2>. QED
    BY <2>1, <2>2, <1>5
<1>7. q \o <<x>> = Append(q, x)
  <2>. DEFINE u == q \o <<x>>
              v == Append(q, x)
  <2>1. u \in Seq(S) /\ v \in Seq(S) /\ Len(u) = Len(v) /\ \A i \in 1 .. Len(u) : u[i] = v[i]
    BY <1>2, <1>4, <1>6
  <2>. HIDE DEF u, v
  <2>2. u = v
    BY <2>1, SeqEqual
  <2>. QED
    BY <2>2 DEF u, v
<1>. QED
  BY <1>2, <1>3, <1>7

\* A send is an item, also while it is being signed.
LEMMA SentType ==
  ASSUME NEW id \in 1 .. MaxSends, NEW report \in BOOLEAN
  PROVE  Sent(id, report) \in Item
BY DEF Sent, Item

\* sendVerified puts one send at the end of the queue, or on the wire when
\* nothing is queued and it is not to be signed.
LEMMA SendVerifiedShape ==
  ASSUME NEW l \in Lane, NEW x \in Item
  PROVE  \/ /\ Signs(x.report)
            /\ SendVerified(l, <<x>>) =
                 [held |-> l.held, out |-> Append(l.out, [x EXCEPT !.how = "signing"]), wire |-> l.wire]
         \/ /\ ~Signs(x.report) /\ l.out = <<>>
            /\ SendVerified(l, <<x>>) = [held |-> l.held, out |-> l.out, wire |-> Append(l.wire, x)]
         \/ /\ ~Signs(x.report) /\ l.out # <<>>
            /\ SendVerified(l, <<x>>) = [held |-> l.held, out |-> Append(l.out, x), wire |-> l.wire]
<1>. DEFINE y == [x EXCEPT !.how = "signing"]
<1>1. <<x>> # <<>> /\ <<x>>[1] = x /\ DOMAIN <<x>> = 1 .. 1
  OBVIOUS
<1>2. y \in Item
  BY DEF Item
<1>3. [i \in DOMAIN <<x>> |-> [<<x>>[i] EXCEPT !.how = "signing"]] = <<y>>
  <2>1. [i \in DOMAIN <<x>> |-> [<<x>>[i] EXCEPT !.how = "signing"]] = [i \in 1 .. 1 |-> y]
    BY <1>1
  <2>2. [i \in 1 .. 1 |-> y] = <<y>>
    BY SMTT(30)
  <2>. QED
    BY <2>1, <2>2
<1>. HIDE DEF y
<1>4. l.out \o <<y>> = Append(l.out, y)
  BY <1>2, Appended, LaneFields
<1>5. l.out \o <<x>> = Append(l.out, x) /\ l.wire \o <<x>> = Append(l.wire, x)
  BY Appended, LaneFields
<1>6. CASE Signs(x.report)
  <2>1. SendVerified(l, <<x>>) = [l EXCEPT !.out = l.out \o <<y>>]
    BY <1>1, <1>3, <1>6 DEF SendVerified
  <2>2. SendVerified(l, <<x>>) = [held |-> l.held, out |-> Append(l.out, y), wire |-> l.wire]
    BY <2>1, <1>4, LaneFields
  <2>. QED
    BY <2>2, <1>6 DEF y
<1>7. CASE ~Signs(x.report) /\ l.out = <<>>
  <2>1. SendVerified(l, <<x>>) = [l EXCEPT !.wire = l.wire \o <<x>>]
    BY <1>1, <1>7 DEF SendVerified
  <2>. QED
    BY <2>1, <1>5, <1>7, LaneFields
<1>8. CASE ~Signs(x.report) /\ l.out # <<>>
  <2>1. SendVerified(l, <<x>>) = [l EXCEPT !.out = l.out \o <<x>>]
    BY <1>1, <1>8 DEF SendVerified
  <2>. QED
    BY <2>1, <1>5, <1>8, LaneFields
<1>. QED
  BY <1>6, <1>7, <1>8

\* The held reports, as they are released.
LEMMA LateType ==
  ASSUME NEW l \in Lane, NEW signs \in BOOLEAN
  PROVE  /\ Late(l, signs) \in Seq(Item) /\ Len(Late(l, signs)) = Len(l.held)
         /\ \A i \in 1 .. Len(l.held) :
              Late(l, signs)[i] = [id |-> l.held[i], report |-> TRUE, late |-> TRUE,
                                   how |-> IF signs THEN "signing" ELSE "plain"]
<1>1. /\ l.held \in Seq(1 .. MaxSends) /\ Len(l.held) \in Nat
      /\ DOMAIN l.held = 1 .. Len(l.held)
      /\ \A i \in 1 .. Len(l.held) : l.held[i] \in 1 .. MaxSends
  BY LaneFields, LenProperties, ElementOfSeq
<1>2. \A i \in 1 .. Len(l.held) :
        [id |-> l.held[i], report |-> TRUE, late |-> TRUE,
         how |-> IF signs THEN "signing" ELSE "plain"] \in Item
  BY <1>1 DEF Item
<1>3. Late(l, signs) \in [1 .. Len(l.held) -> Item]
  BY <1>1, <1>2 DEF Late
<1>4. Late(l, signs) \in Seq(Item) /\ Len(Late(l, signs)) = Len(l.held)
  BY <1>1, <1>3
<1>. QED
  BY <1>1, <1>4 DEF Late

\* peerFeaturesKnown moves all of them to the end of the queue or of the wire.
LEMMA ReleaseShape ==
  ASSUME NEW l \in Lane, NEW signs \in BOOLEAN
  PROVE  /\ Release(l, signs) \in Lane /\ Release(l, signs).held = <<>>
         /\ \/ /\ Release(l, signs).out = l.out \o Late(l, signs)
               /\ Release(l, signs).wire = l.wire
            \/ /\ ~signs /\ l.out = <<>> /\ Release(l, signs).out = l.out
               /\ Release(l, signs).wire = l.wire \o Late(l, signs)
<1>. DEFINE out == l.out \o Late(l, signs)
            wire == l.wire \o Late(l, signs)
<1>1. out \in Seq(Item) /\ wire \in Seq(Item) /\ <<>> \in Seq(1 .. MaxSends)
  BY LateType, LaneFields, ConcatProperties, EmptySeq
<1>2. Release(l, signs) = IF signs \/ l.out # <<>>
                          THEN [l EXCEPT !.held = <<>>, !.out = out]
                          ELSE [l EXCEPT !.held = <<>>, !.wire = wire]
  BY DEF Release
<1>. HIDE DEF out, wire
<1>3. /\ [l EXCEPT !.held = <<>>, !.out = out] \in Lane
      /\ [l EXCEPT !.held = <<>>, !.out = out].held = <<>>
      /\ [l EXCEPT !.held = <<>>, !.out = out].out = out
      /\ [l EXCEPT !.held = <<>>, !.out = out].wire = l.wire
  BY <1>1 DEF Lane
<1>4. /\ [l EXCEPT !.held = <<>>, !.wire = wire] \in Lane
      /\ [l EXCEPT !.held = <<>>, !.wire = wire].held = <<>>
      /\ [l EXCEPT !.held = <<>>, !.wire = wire].wire = wire
      /\ [l EXCEPT !.held = <<>>, !.wire = wire].out = l.out
  BY <1>1 DEF Lane
<1>5. CASE signs \/ l.out # <<>>
  <2>1. Release(l, signs) = [l EXCEPT !.held = <<>>, !.out = out]
    BY <1>2, <1>5, Zenon
  <2>. QED
    BY <2>1, <1>3, Zenon DEF out
<1>6. CASE ~signs /\ l.out = <<>>
  <2>1. Release(l, signs) = [l EXCEPT !.held = <<>>, !.wire = wire]
    BY <1>2, <1>6, Zenon
  <2>. QED
    BY <2>1, <1>4, <1>6, Zenon DEF wire
<1>. QED
  BY <1>5, <1>6

-----------------------------------------------------------------------------
(***************************************************************************)
(* Type correctness.                                                       *)
(***************************************************************************)
\* Shorthands for the parts of TypeOK that an action may disturb.
LaneOK == lane \in [Socket -> Lane] /\ \A s \in Socket : Len(lane[s].held) <= MaxHeld
ChainOK == /\ chain \in [Socket -> Seq(Frame)]
           /\ step \in [Socket -> {"idle", "verify", "open"}]
           /\ \A s \in Socket : step[s] # "idle" => chain[s] # <<>>
SessionOK == session \in [Socket -> [verified : BOOLEAN, started : BOOLEAN, closed : BOOLEAN,
                                     timer : BOOLEAN, failure : Failure, lastSeq : 0 .. MaxFrames]]
RestOK ==
  /\ ws \in Socket \cup {None} /\ known \in BOOLEAN /\ listed \in BOOLEAN
  /\ state \in [Socket -> {"new", "open", "closing", "closed"}]
  /\ got \in [Socket -> Seq(1 .. MaxFrames)]
  /\ peer \in [Socket -> [next : 0 .. MaxFrames + 1, signs : BOOLEAN]]
  /\ faulty \in [Socket -> BOOLEAN]
  /\ sends \in 0 .. MaxSends /\ mishaps \in 0 .. MaxMishaps

\* The type invariant is its parts.
LEMMA TypeParts == TypeOK <=> LaneOK /\ ChainOK /\ SessionOK /\ RestOK
BY DEF TypeOK, LaneOK, ChainOK, SessionOK, RestOK

\* A mishap stays within its bound.
LEMMA MishapType ==
  ASSUME mishaps \in 0 .. MaxMishaps, Mishap \/ NoMishap
  PROVE  mishaps' \in 0 .. MaxMishaps
BY Bounds DEF Mishap, NoMishap

\* A lane that is replaced by a lane keeps the type.
LEMMA LaneReplaced ==
  ASSUME LaneOK, NEW s \in Socket, NEW l \in Lane, Len(l.held) <= MaxHeld,
         lane' = [lane EXCEPT ![s] = l]
  PROVE  LaneOK'
BY DEF LaneOK

\* So does one whose held reports are dropped.
LEMMA HeldDropped ==
  ASSUME LaneOK, NEW s \in Socket, lane' = [lane EXCEPT ![s].held = <<>>]
  PROVE  LaneOK'
<1>1. <<>> \in Seq(1 .. MaxSends) /\ Len(<<>>) = 0
  BY EmptySeq
<1>2. lane[s] \in Lane
  BY DEF LaneOK
<1>. DEFINE l == [lane[s] EXCEPT !.held = <<>>]
<1>3. l \in Lane /\ l.held = <<>>
  BY <1>1, <1>2 DEF Lane
<1>4. lane' = [lane EXCEPT ![s] = l]
  OBVIOUS
<1>. HIDE DEF l
<1>5. Len(l.held) <= MaxHeld
  BY <1>1, <1>3, Bounds
<1>. QED
  BY <1>3, <1>4, <1>5, LaneReplaced

\* The frame after the first one: the queue of frames is shorter by one.
LEMMA TailType ==
  ASSUME ChainOK, NEW s \in Socket, chain[s] # <<>>
  PROVE  Tail(chain[s]) \in Seq(Frame) /\ chain[s][1] \in Frame
<1>1. chain[s] \in Seq(Frame)
  BY DEF ChainOK
<1>2. Tail(chain[s]) \in Seq(Frame) /\ Len(chain[s]) \in Nat \ {0}
  BY <1>1, HeadTailProperties, EmptySeq
<1>3. chain[s][1] \in Frame
  BY <1>1, <1>2, ElementOfSeq
<1>. QED
  BY <1>2, <1>3

\* A frame that is done with leaves a well-formed chain.
LEMMA DoneType ==
  ASSUME ChainOK, NEW s \in Socket, step[s] # "idle", Done(s)
  PROVE  ChainOK'
<1>1. Tail(chain[s]) \in Seq(Frame)
  BY TailType DEF ChainOK
<1>. QED
  BY <1>1 DEF Done, ChainOK

\* Every step of a socket, a frame or a send keeps the types.
LEMMA TypeConnect ==
  ASSUME TypeOK, NEW s \in Socket, Connect(s)
  PROVE  TypeOK'
<1>. USE TypeParts
<1>1. LaneOK' /\ ChainOK'
  BY DEF Connect, LaneOK, ChainOK, inbound
<1>2. SessionOK'
  BY DEF Connect, SessionOK
<1>3. RestOK'
  BY DEF Connect, RestOK, inbound
<1>. QED
  BY <1>1, <1>2, <1>3 DEF TypeOK, LaneOK, ChainOK, SessionOK, RestOK

\* A failed session is well formed.
LEMMA FailsType ==
  ASSUME TypeOK, NEW s \in Socket, NEW f \in Failure, Fails(s, f)
  PROVE  LaneOK' /\ SessionOK' /\ state' \in [Socket -> {"new", "open", "closing", "closed"}]
<1>. USE TypeParts
<1>1. LaneOK'
  BY HeldDropped DEF Fails
<1>2. SessionOK'
  BY ZenonT(60) DEF Fails, SessionOK
<1>3. state' \in [Socket -> {"new", "open", "closing", "closed"}]
  BY DEF Fails, RestOK
<1>. QED
  BY <1>1, <1>2, <1>3

\* HelloTimeout keeps the types.
LEMMA TypeHelloTimeout ==
  ASSUME TypeOK, NEW s \in Socket, HelloTimeout(s)
  PROVE  TypeOK'
<1>. USE TypeParts
<1>1. LaneOK' /\ SessionOK' /\ state' \in [Socket -> {"new", "open", "closing", "closed"}]
  BY FailsType DEF HelloTimeout, Failure
<1>2. ChainOK'
  BY DEF HelloTimeout, ChainOK, inbound
<1>3. RestOK'
  BY <1>1, MishapType DEF HelloTimeout, RestOK, inbound, client
<1>. QED
  BY <1>1, <1>2, <1>3 DEF TypeOK, LaneOK, ChainOK, SessionOK, RestOK

\* Closed keeps the types.
LEMMA TypeClosed ==
  ASSUME TypeOK, NEW s \in Socket, NEW refused \in BOOLEAN, Closed(s, refused)
  PROVE  TypeOK'
<1>. USE TypeParts
<1>1. LaneOK'
  <2>. DEFINE l == [lane[s] EXCEPT !.held = <<>>, !.wire = <<>>]
  <2>1. lane[s] \in Lane /\ <<>> \in Seq(1 .. MaxSends) /\ <<>> \in Seq(Item) /\ Len(<<>>) = 0
    BY EmptySeq DEF LaneOK
  <2>2. l \in Lane /\ l.held = <<>>
    BY <2>1 DEF Lane
  <2>3. lane' = [lane EXCEPT ![s] = l]
    BY DEF Closed
  <2>. HIDE DEF l
  <2>4. Len(l.held) <= MaxHeld
    BY <2>1, <2>2, Bounds
  <2>. QED
    BY <2>2, <2>3, <2>4, LaneReplaced
<1>2. ChainOK'
  BY DEF Closed, ChainOK
<1>3. SessionOK'
  <2>1. FailureOnClose(s, refused) \in Failure
    BY DEF FailureOnClose, SessionOK, Failure
  <2>. QED
    BY <2>1, ZenonT(60) DEF Closed, SessionOK
<1>4. RestOK'
  BY MishapType, EmptySeq DEF Closed, RestOK, client
<1>. QED
  BY <1>1, <1>2, <1>3, <1>4 DEF TypeOK, LaneOK, ChainOK, SessionOK, RestOK

\* Send keeps the types.
LEMMA TypeSend ==
  ASSUME TypeOK, NEW report \in BOOLEAN, Send(report)
  PROVE  TypeOK'
<1>. USE TypeParts
<1>1. ws \in Socket /\ sends + 1 \in 1 .. MaxSends /\ sends' = sends + 1
  BY Bounds DEF Send, RestOK, None
<1>. DEFINE x == Sent(sends + 1, report)
            l == lane[ws]
            m == SendVerified(l, <<x>>)
<1>2. x \in Item /\ l \in Lane /\ Len(l.held) <= MaxHeld
  BY <1>1, SentType DEF LaneOK
<1>3. LaneOK'
  <2>1. \/ lane' = lane
        \/ lane' = [lane EXCEPT ![ws] = m]
        \/ ~Full(l) /\ lane' = [lane EXCEPT ![ws].held = Append(@, sends + 1)]
    BY DEF Send
  <2>2. CASE lane' = [lane EXCEPT ![ws] = m]
    <3>. HIDE DEF x
    <3>. DEFINE y == [x EXCEPT !.how = "signing"]
    <3>1. y \in Item
      BY <1>2 DEF Item
    <3>. HIDE DEF y
    <3>2. /\ Append(l.out, y) \in Seq(Item) /\ Append(l.out, x) \in Seq(Item)
          /\ Append(l.wire, x) \in Seq(Item)
      BY <1>2, <3>1, Appended, LaneFields
    <3>4. \/ m = [held |-> l.held, out |-> Append(l.out, y), wire |-> l.wire]
          \/ m = [held |-> l.held, out |-> l.out, wire |-> Append(l.wire, x)]
          \/ m = [held |-> l.held, out |-> Append(l.out, x), wire |-> l.wire]
      BY <1>2, SendVerifiedShape DEF y
    <3>3. m \in Lane /\ m.held = l.held
      BY <1>2, <3>2, <3>4, LaneFields DEF Lane
    <3>. HIDE DEF m, l
    <3>. QED
      BY <1>1, <1>2, <2>2, <3>3, LaneReplaced
  <2>3. CASE ~Full(l) /\ lane' = [lane EXCEPT ![ws].held = Append(@, sends + 1)]
    <3>. DEFINE n == [l EXCEPT !.held = Append(l.held, sends + 1)]
    <3>1. /\ Append(l.held, sends + 1) \in Seq(1 .. MaxSends)
          /\ Len(Append(l.held, sends + 1)) = Len(l.held) + 1 /\ Len(l.held) \in Nat
      BY <1>1, <1>2, Appended, LaneFields
    <3>2. n \in Lane /\ n.held = Append(l.held, sends + 1)
      BY <1>2, <3>1 DEF Lane
    <3>3. Len(n.held) <= MaxHeld
      BY <2>3, <3>1, <3>2, Bounds DEF Full
    <3>4. lane' = [lane EXCEPT ![ws] = n]
      BY <2>3
    <3>. HIDE DEF n, l
    <3>. QED
      BY <1>1, <3>2, <3>3, <3>4, LaneReplaced
  <2>. QED
    BY <2>1, <2>2, <2>3 DEF LaneOK
<1>4. ChainOK' /\ SessionOK'
  BY DEF Send, ChainOK, SessionOK, inbound
<1>5. RestOK'
  BY <1>1 DEF Send, RestOK, inbound, client
<1>. QED
  BY <1>3, <1>4, <1>5 DEF TypeOK, LaneOK, ChainOK, SessionOK, RestOK

\* The queue of a lane with one signature settled.
LEMMA SignShape ==
  ASSUME TypeOK, NEW s \in Socket, NEW i \in 1 .. MaxSends, Sign(s, i)
  PROVE  /\ i \in 1 .. Len(lane[s].out) /\ lane[s].out[i].how = "signing"
         /\ \E how \in {"signed", "failed"}, l \in Lane :
              /\ lane' = [lane EXCEPT ![s] = l]
              /\ l.held = lane[s].held /\ l.wire = lane[s].wire
              /\ Len(l.out) = Len(lane[s].out)
              /\ \A j \in 1 .. Len(l.out) :
                   l.out[j] = IF j = i THEN [lane[s].out[i] EXCEPT !.how = how] ELSE lane[s].out[j]
<1>. USE TypeParts
<1>. DEFINE l == lane[s]
<1>1. l \in Lane /\ l.out \in Seq(Item) /\ DOMAIN l.out = 1 .. Len(l.out) /\ Len(l.out) \in Nat
  BY LaneFields, LenProperties DEF LaneOK
<1>2. i \in 1 .. Len(l.out) /\ l.out[i].how = "signing" /\ l.out[i] \in Item
  BY <1>1, ElementOfSeq DEF Sign
<1>3. PICK how \in {"signed", "failed"} : lane' = [lane EXCEPT ![s].out[i].how = how]
  BY DEF Sign
<1>. DEFINE y == [l.out[i] EXCEPT !.how = how]
            q == [l.out EXCEPT ![i] = y]
            m == [l EXCEPT !.out = q]
<1>4. y \in Item
  BY <1>2 DEF Item
<1>5. lane' = [lane EXCEPT ![s] = m]
  BY <1>3
<1>. HIDE DEF y
<1>6. /\ q \in Seq(Item) /\ Len(q) = Len(l.out)
      /\ \A j \in 1 .. Len(l.out) : q[j] = IF j = i THEN y ELSE l.out[j]
  BY <1>1, <1>2, <1>4, ExceptSeq
<1>. HIDE DEF q
<1>7. m \in Lane /\ m.held = l.held /\ m.wire = l.wire /\ m.out = q
  BY <1>1, <1>6 DEF Lane
<1>. HIDE DEF m
<1>8. \A j \in 1 .. Len(m.out) :
        m.out[j] = IF j = i THEN [l.out[i] EXCEPT !.how = how] ELSE l.out[j]
  BY <1>6, <1>7 DEF y
<1>9. Len(m.out) = Len(l.out)
  BY <1>6, <1>7
<1>. QED
  BY <1>2, <1>5, <1>7, <1>8, <1>9, Zenon

\* Sign keeps the types.
LEMMA TypeSign ==
  ASSUME TypeOK, NEW s \in Socket, NEW i \in 1 .. MaxSends, Sign(s, i)
  PROVE  TypeOK'
<1>. USE TypeParts
<1>1. LaneOK'
  <2>1. PICK l \in Lane : lane' = [lane EXCEPT ![s] = l] /\ l.held = lane[s].held
    BY SignShape
  <2>. QED
    BY <2>1, LaneReplaced DEF LaneOK
<1>2. ChainOK' /\ SessionOK'
  BY DEF Sign, ChainOK, SessionOK, inbound
<1>3. RestOK'
  <2>1. Mishap \/ NoMishap
    BY DEF Sign
  <2>. QED
    BY <2>1, MishapType DEF Sign, RestOK, inbound, client
<1>. QED
  BY <1>1, <1>2, <1>3 DEF TypeOK, LaneOK, ChainOK, SessionOK, RestOK

\* What the first queued send leaves behind.
LEMMA LeaveShape ==
  ASSUME TypeOK, NEW s \in Socket, Leave(s)
  PROVE  LET l == lane[s] IN
         /\ l.out # <<>> /\ Head(l.out) \in Item /\ Head(l.out).how # "signing"
         /\ Tail(l.out) \in Seq(Item)
         /\ \E m \in Lane :
              /\ lane' = [lane EXCEPT ![s] = m] /\ m.held = l.held /\ m.out = Tail(l.out)
              /\ m.wire = IF MayLeave(s) THEN Append(l.wire, Head(l.out)) ELSE l.wire
<1>. USE TypeParts
<1>. DEFINE l == lane[s]
            w == IF MayLeave(s) THEN Append(l.wire, Head(l.out)) ELSE l.wire
            m == [l EXCEPT !.out = Tail(l.out), !.wire = w]
<1>1. l \in Lane /\ l.out \in Seq(Item) /\ l.wire \in Seq(Item)
  BY LaneFields DEF LaneOK
<1>2. l.out # <<>> /\ Head(l.out).how # "signing"
  BY DEF Leave
<1>3. Head(l.out) \in Item /\ Tail(l.out) \in Seq(Item)
  BY <1>1, <1>2, HeadTailProperties
<1>4. w \in Seq(Item)
  BY <1>1, <1>3, Appended
<1>5. lane' = [lane EXCEPT ![s] = m]
  BY DEF Leave
<1>. HIDE DEF w
<1>6. m \in Lane /\ m.held = l.held /\ m.out = Tail(l.out) /\ m.wire = w
  BY <1>1, <1>3, <1>4 DEF Lane
<1>. HIDE DEF m
<1>. QED
  BY <1>2, <1>3, <1>5, <1>6, Zenon DEF w

\* Leave keeps the types.
LEMMA TypeLeave ==
  ASSUME TypeOK, NEW s \in Socket, Leave(s)
  PROVE  TypeOK'
<1>. USE TypeParts
<1>1. LaneOK'
  <2>1. PICK l \in Lane : lane' = [lane EXCEPT ![s] = l] /\ l.held = lane[s].held
    BY LeaveShape
  <2>. QED
    BY <2>1, LaneReplaced DEF LaneOK
<1>2. ChainOK' /\ SessionOK' /\ RestOK'
  BY DEF Leave, ChainOK, SessionOK, RestOK, inbound, client
<1>. QED
  BY <1>1, <1>2 DEF TypeOK, LaneOK, ChainOK, SessionOK, RestOK

\* Arrive keeps the types.
LEMMA TypeArrive ==
  ASSUME TypeOK, NEW s \in Socket, Arrive(s)
  PROVE  TypeOK'
<1>. USE TypeParts
<1>. DEFINE n == peer[s].next
            whole == [n |-> n, intact |-> TRUE]
            altered == [n |-> n, intact |-> FALSE]
<1>1. n \in 0 .. MaxFrames /\ whole \in Frame /\ altered \in Frame /\ chain[s] \in Seq(Frame)
  <2>1. n \in 0 .. MaxFrames
    BY Bounds DEF Arrive, RestOK
  <2>. QED
    BY <2>1 DEF ChainOK, Frame
<1>2. PICK frames \in {<<whole>>, <<>>, <<whole, whole>>, <<altered>>} :
        chain' = [chain EXCEPT ![s] = @ \o frames]
  <2>. HIDE DEF whole
  <2>1. Append(chain[s], whole) = chain[s] \o <<whole>>
    BY <1>1, Appended
  <2>. USE DEF whole
  <2>. QED
    BY <2>1 DEF Arrive
<1>. HIDE DEF whole, altered
<1>3. frames \in Seq(Frame)
  <2>1. <<whole>> \in Seq(Frame) /\ <<altered>> \in Seq(Frame) /\ <<>> \in Seq(Frame)
    BY <1>1
  <2>2. <<whole, whole>> \in Seq(Frame)
    BY <1>1
  <2>. QED
    BY <2>1, <2>2
<1>4. chain[s] \o frames \in Seq(Frame) /\ (chain[s] # <<>> => chain[s] \o frames # <<>>)
  BY <1>1, <1>3, ConcatProperties, ConcatEqualIffEmpty
<1>5. ChainOK'
  BY <1>2, <1>4 DEF Arrive, ChainOK
<1>6. LaneOK' /\ SessionOK'
  BY DEF Arrive, LaneOK, SessionOK
<1>7. RestOK'
  <2>1. (Mishap \/ NoMishap) /\ faulty' \in [Socket -> BOOLEAN]
    BY DEF Arrive, RestOK
  <2>2. peer' \in [Socket -> [next : 0 .. MaxFrames + 1, signs : BOOLEAN]]
    <3>1. peer' = [peer EXCEPT ![s].next = n + 1] /\ n + 1 \in 0 .. MaxFrames + 1
      BY <1>1, Bounds, SMTT(60) DEF Arrive
    <3>. HIDE DEF n
    <3>. QED
      BY <3>1 DEF RestOK
  <2>. QED
    BY <2>1, <2>2, MishapType DEF Arrive, RestOK, client
<1>. QED
  BY <1>5, <1>6, <1>7 DEF TypeOK, LaneOK, ChainOK, SessionOK, RestOK

\* NextFrame keeps the types.
LEMMA TypeNextFrame ==
  ASSUME TypeOK, NEW s \in Socket, NextFrame(s)
  PROVE  TypeOK'
<1>. USE TypeParts
<1>1. ChainOK'
  <2>1. Tail(chain[s]) \in Seq(Frame)
    BY TailType DEF NextFrame
  <2>. QED
    BY <2>1 DEF NextFrame, ChainOK
<1>2. LaneOK' /\ SessionOK' /\ RestOK'
  BY DEF NextFrame, LaneOK, SessionOK, RestOK, client
<1>. QED
  BY <1>1, <1>2 DEF TypeOK, LaneOK, ChainOK, SessionOK, RestOK

\* HelloVerified keeps the types.
LEMMA TypeHelloVerified ==
  ASSUME TypeOK, NEW s \in Socket, HelloVerified(s)
  PROVE  TypeOK'
<1>. USE TypeParts
<1>1. ChainOK' /\ SessionOK'
  BY DEF HelloVerified, ChainOK, SessionOK
<1>2. LaneOK' /\ RestOK'
  BY DEF HelloVerified, LaneOK, RestOK, client
<1>. QED
  BY <1>1, <1>2 DEF TypeOK, LaneOK, ChainOK, SessionOK, RestOK

\* Opened keeps the types.
LEMMA TypeOpened ==
  ASSUME TypeOK, NEW s \in Socket, Opened(s)
  PROVE  TypeOK'
<1>. USE TypeParts
<1>1. ChainOK'
  BY DoneType DEF Opened
<1>2. SessionOK'
  BY ZenonT(60) DEF Opened, SessionOK
<1>3. LaneOK' /\ RestOK'
  BY DEF Opened, LaneOK, RestOK, client
<1>. QED
  BY <1>1, <1>2, <1>3 DEF TypeOK, LaneOK, ChainOK, SessionOK, RestOK

\* FrameVerified keeps the types.
LEMMA TypeFrameVerified ==
  ASSUME TypeOK, NEW s \in Socket, FrameVerified(s)
  PROVE  TypeOK'
<1>. USE TypeParts
<1>. DEFINE n == chain[s][1].n
<1>1. ChainOK' /\ chain[s][1] \in Frame
  BY DoneType, TailType DEF FrameVerified, ChainOK
<1>2. n \in 1 .. MaxFrames
  <2>1. n = session[s].lastSeq + 1 /\ session[s].lastSeq \in 0 .. MaxFrames
    BY DEF FrameVerified, Verifies, SessionOK
  <2>. QED
    BY <1>1, <2>1, Bounds DEF Frame
<1>3. SessionOK'
  BY <1>2 DEF FrameVerified, SessionOK
<1>4. LaneOK'
  <2>1. CASE lane' = lane
    BY <2>1 DEF LaneOK
  <2>2. CASE Current(s) /\ lane' = [lane EXCEPT ![ws] = Release(@, peer[s].signs)]
    <3>. DEFINE m == Release(lane[s], peer[s].signs)
    <3>4. lane[s] \in Lane /\ peer[s].signs \in BOOLEAN
      BY DEF LaneOK, RestOK
    <3>1. m \in Lane /\ m.held = <<>> /\ Len(<<>>) = 0
      BY <3>4, ReleaseShape, EmptySeq
    <3>2. lane' = [lane EXCEPT ![s] = m]
      BY <2>2 DEF Current
    <3>. HIDE DEF m
    <3>3. Len(m.held) <= MaxHeld
      BY <3>1, Bounds
    <3>. QED
      BY <3>1, <3>2, <3>3, LaneReplaced
  <2>. QED
    BY <2>1, <2>2 DEF FrameVerified
<1>5. RestOK'
  <2>1. got[s] \in Seq(1 .. MaxFrames)
    BY DEF RestOK
  <2>2. Append(got[s], n) \in Seq(1 .. MaxFrames)
    BY <1>2, <2>1, Appended
  <2>3. got' \in [Socket -> Seq(1 .. MaxFrames)]
    BY <2>2 DEF FrameVerified, RestOK
  <2>4. known' \in BOOLEAN /\ listed' \in BOOLEAN
    BY DEF FrameVerified, RestOK
  <2>. QED
    BY <2>3, <2>4 DEF FrameVerified, RestOK
<1>. QED
  BY <1>1, <1>3, <1>4, <1>5 DEF TypeOK, LaneOK, ChainOK, SessionOK, RestOK

\* Refuse keeps the types.
LEMMA TypeRefuse ==
  ASSUME TypeOK, NEW s \in Socket, Refuse(s)
  PROVE  TypeOK'
<1>. USE TypeParts
<1>1. LaneOK' /\ SessionOK' /\ state' \in [Socket -> {"new", "open", "closing", "closed"}]
  BY FailsType DEF Refuse, Failure
<1>2. ChainOK'
  BY DoneType DEF Refuse
<1>3. RestOK'
  BY <1>1 DEF Refuse, RestOK, client
<1>. QED
  BY <1>1, <1>2, <1>3 DEF TypeOK, LaneOK, ChainOK, SessionOK, RestOK

\* Before the first socket is opened.
LEMMA InitType == Init => TypeOK
<1>. SUFFICES ASSUME Init PROVE TypeOK
  OBVIOUS
<1>1. \A S : <<>> \in Seq(S) /\ Len(<<>>) = 0
  BY EmptySeq
<1>2. [held |-> <<>>, out |-> <<>>, wire |-> <<>>] \in Lane
  BY <1>1 DEF Lane
<1>3. LaneOK /\ ChainOK
  BY <1>1, <1>2, Bounds DEF Init, LaneOK, ChainOK
<1>4. SessionOK
  BY Bounds DEF Init, SessionOK, Fresh, Failure
<1>5. RestOK
  <2>1. got \in [Socket -> Seq(1 .. MaxFrames)]
    BY <1>1 DEF Init
  <2>2. peer \in [Socket -> [next : 0 .. MaxFrames + 1, signs : BOOLEAN]]
    BY Bounds DEF Init
  <2>3. ws \in Socket \cup {None} /\ known \in BOOLEAN /\ listed \in BOOLEAN
    BY Zenon DEF Init
  <2>4. /\ state \in [Socket -> {"new", "open", "closing", "closed"}]
        /\ faulty \in [Socket -> BOOLEAN]
    BY DEF Init
  <2>5. sends \in 0 .. MaxSends /\ mishaps \in 0 .. MaxMishaps
    BY Bounds DEF Init
  <2>. QED
    BY <2>1, <2>2, <2>3, <2>4, <2>5 DEF RestOK
<1>. QED
  BY <1>3, <1>4, <1>5, TypeParts

\* The session's variables keep their types: in particular never more than
\* MAX_HELD_REPORTS reports are held, and a check is awaited only for a frame
\* that is still queued (signed-session.ts).
THEOREM TypeCorrect == Spec => []TypeOK
<1>2. TypeOK /\ [Next]_vars => TypeOK'
  <2>. SUFFICES ASSUME TypeOK, [Next]_vars PROVE TypeOK'
    OBVIOUS
  <2>1. CASE UNCHANGED vars
    BY <2>1 DEF TypeOK, vars, client, inbound
  <2>2. ASSUME NEW report \in BOOLEAN, Send(report) PROVE TypeOK'
    BY <2>2, TypeSend
  <2>3. ASSUME NEW s \in Socket,
               \/ Connect(s) \/ HelloTimeout(s) \/ (\E refused \in BOOLEAN : Closed(s, refused))
               \/ (\E i \in 1 .. MaxSends : Sign(s, i)) \/ Leave(s)
        PROVE  TypeOK'
    BY <2>3, TypeConnect, TypeHelloTimeout, TypeClosed, TypeSign, TypeLeave
  <2>4. ASSUME NEW s \in Socket,
               \/ Arrive(s) \/ NextFrame(s)
               \/ HelloVerified(s) \/ Opened(s) \/ FrameVerified(s) \/ Refuse(s)
        PROVE  TypeOK'
    BY <2>4, TypeArrive, TypeNextFrame, TypeHelloVerified, TypeOpened, TypeFrameVerified, TypeRefuse
  <2>. QED
    BY <2>1, <2>2, <2>3, <2>4 DEF Next
<1>. QED
  BY InitType, <1>2, PTL DEF Spec

-----------------------------------------------------------------------------
(***************************************************************************)
(* The inductive invariant is kept.  A step moves one socket; the others   *)
(* stay as they are.                                                       *)
(***************************************************************************)
Unmoved(t) ==
  /\ state'[t] = state[t] /\ session'[t] = session[t] /\ lane'[t] = lane[t]
  /\ chain'[t] = chain[t] /\ step'[t] = step[t] /\ peer'[t] = peer[t]
  /\ got'[t] = got[t] /\ faulty'[t] = faulty[t]
  /\ (ws' = t <=> ws = t) /\ (ws = t => known' = known)
  /\ sends <= sends'

\* The numbers of the sends in a lane.
LEMMA Ids ==
  ASSUME TypeOK, NEW t \in Socket
  PROVE  /\ lane[t] \in Lane /\ sends \in Nat
         /\ \A q \in {lane[t].out, lane[t].wire} : \A i \in 1 .. Len(q) : q[i] \in Item /\ q[i].id \in Nat
         /\ \A i \in 1 .. Len(lane[t].held) : lane[t].held[i] \in Nat
<1>1. lane[t] \in Lane /\ sends \in Nat
  BY Bounds DEF TypeOK
<1>2. \A q \in {lane[t].out, lane[t].wire} : q \in Seq(Item)
  BY <1>1, LaneFields
<1>3. \A q \in {lane[t].out, lane[t].wire} : \A i \in 1 .. Len(q) : q[i] \in Item
  BY <1>2, ElementOfSeq
<1>4. \A i \in 1 .. Len(lane[t].held) : lane[t].held[i] \in 1 .. MaxSends
  BY <1>1, LaneFields, ElementOfSeq
<1>. QED
  BY <1>1, <1>3, <1>4, Bounds DEF Item

\* Nothing that the invariant says of a socket changes when it is not moved.
LEMMA UnmovedSound ==
  ASSUME TypeOK, TypeOK', NEW t \in Socket, Sound(t), Unmoved(t)
  PROVE  Sound(t)'
<1>. USE DEF Verified, Ended, Unmoved
<1>1. Presence(t)'
  BY DEF Sound, Presence
<1>2. Handed(t)'
  BY DEF Sound, Handed
<1>3. Queued(t)'
  BY DEF Sound, Queued, Expected
<1>4. Quiet(t)'
  BY DEF Sound, Quiet, Presence
<1>5. Unsigned(t)'
  BY DEF Sound, Unsigned
<1>6. Ordered(t)'
  <2>1. sends \in Nat /\ sends' \in Nat
    BY Bounds DEF TypeOK
  <2>2. /\ \A q \in {lane[t].out, lane[t].wire} : \A i \in 1 .. Len(q) : q[i].id <= sends'
        /\ \A i \in 1 .. Len(lane[t].held) : lane[t].held[i] <= sends'
    <3>1. /\ \A q \in {lane[t].out, lane[t].wire} : \A i \in 1 .. Len(q) : q[i].id \in Nat
          /\ \A i \in 1 .. Len(lane[t].held) : lane[t].held[i] \in Nat
      BY Ids
    <3>. QED
      BY <2>1, <3>1, SMTT(60) DEF Sound, Ordered
  <2>. QED
    BY <2>2 DEF Sound, Ordered, Before
<1>. QED
  BY <1>1, <1>2, <1>3, <1>4, <1>5, <1>6 DEF Sound

\* The invariant after a step that moves socket s only.
LEMMA OnlyOneMoves ==
  ASSUME IInv, TypeOK', FeaturesAreOfPeer', NEW s \in Socket, Sound(s)',
         \A t \in Socket \ {s} : Unmoved(t)
  PROVE  IInv'
<1>1. \A t \in Socket \ {s} : Sound(t)'
  BY UnmovedSound DEF IInv
<1>. QED
  BY <1>1 DEF IInv

\* Connect keeps IInv.
LEMMA InvConnect ==
  ASSUME IInv, NEW s \in Socket, Connect(s)
  PROVE  IInv'
<1>1. TypeOK /\ TypeOK' /\ Sound(s)
  BY TypeConnect DEF IInv
<1>2. /\ ws = None /\ ws' = s /\ known' = FALSE /\ state[s] = "new"
      /\ state'[s] = "open" /\ session'[s] = [Fresh EXCEPT !.timer = TRUE]
      /\ lane' = lane /\ chain' = chain /\ step' = step /\ got' = got
      /\ peer'[s].next = peer[s].next /\ faulty' = faulty /\ sends' = sends
  BY <1>1 DEF Connect, TypeOK, Sound, Presence, inbound
<1>3. /\ peer[s].next = 0 /\ ~faulty[s] /\ lane[s] = [held |-> <<>>, out |-> <<>>, wire |-> <<>>]
      /\ chain[s] = <<>> /\ step[s] = "idle" /\ got[s] = <<>>
  BY <1>1, <1>2 DEF Sound, Presence
<1>4. ~session'[s].verified /\ ~session'[s].closed /\ session'[s].lastSeq = 0
      /\ session'[s].failure = "none"
  BY <1>2 DEF Fresh
<1>5. Sound(s)'
  <2>. USE DEF Verified, Ended
  <2>1. Presence(s)'
    BY <1>2, <1>3, <1>4 DEF Presence
  <2>2. Handed(s)'
    BY <1>2, <1>3, <1>4 DEF Handed
  <2>3. Queued(s)'
    BY <1>2, <1>3, <1>4 DEF Queued, Expected
  <2>4. Quiet(s)'
    BY <1>2, <1>3, <1>4 DEF Quiet
  <2>5. Unsigned(s)'
    BY <1>2, <1>3 DEF Unsigned
  <2>6. Ordered(s)'
    BY <1>2, <1>3 DEF Ordered
  <2>. QED
    BY <2>1, <2>2, <2>3, <2>4, <2>5, <2>6 DEF Sound
<1>6. \A t \in Socket \ {s} : Unmoved(t)
  <2>1. sends \in Nat
    BY <1>1, Bounds DEF TypeOK
  <2>. QED
    BY <1>1, <1>2, <2>1, Bounds, SMTT(60) DEF Connect, Unmoved, TypeOK, inbound
<1>7. FeaturesAreOfPeer'
  BY <1>2 DEF FeaturesAreOfPeer
<1>. QED
  BY <1>1, <1>5, <1>6, <1>7, OnlyOneMoves

\* Frames are numbered by naturals.
LEMMA ExpectedType ==
  ASSUME TypeOK, NEW s \in Socket
  PROVE  Expected(s) \in Nat /\ session[s].lastSeq \in 0 .. MaxFrames
<1>1. session[s].lastSeq \in 0 .. MaxFrames
  BY DEF TypeOK
<1>. QED
  BY <1>1, Bounds DEF Expected

\* A lane that only loses its held reports, or what is on its wire, keeps the
\* order of the rest.
LEMMA DroppedOrdered ==
  ASSUME TypeOK, NEW s \in Socket, Ordered(s), sends' = sends,
         lane'[s].out = lane[s].out, lane'[s].wire \in {lane[s].wire, <<>>},
         lane'[s].held \in {lane[s].held, <<>>}
  PROVE  Ordered(s)'
<1>1. Len(<<>>) = 0
  OBVIOUS
<1>2. \A i \in 1 .. Len(lane'[s].wire) : lane'[s].wire = lane[s].wire
  BY <1>1
<1>3. \A i \in 1 .. Len(lane'[s].held) : lane'[s].held = lane[s].held
  BY <1>1
<1>. QED
  BY <1>2, <1>3 DEF Ordered

\* What Fails leaves in place.
LEMMA FailsShape ==
  ASSUME TypeOK, NEW s \in Socket, NEW f \in Failure, Fails(s, f)
  PROVE  /\ session'[s].failure = f /\ session'[s].closed
         /\ session'[s].verified = session[s].verified /\ session'[s].lastSeq = session[s].lastSeq
         /\ session'[s].started = session[s].started
         /\ lane'[s].held = <<>> /\ lane'[s].out = lane[s].out /\ lane'[s].wire = lane[s].wire
         /\ state'[s] = IF state[s] = "open" THEN "closing" ELSE state[s]
         /\ \A t \in Socket \ {s} : session'[t] = session[t] /\ lane'[t] = lane[t] /\ state'[t] = state[t]
<1>1. lane \in [Socket -> Lane]
  BY DEF TypeOK
<1>2. lane'[s].held = <<>> /\ lane'[s].out = lane[s].out /\ lane'[s].wire = lane[s].wire
  BY <1>1 DEF Fails, Lane
<1>3. /\ session'[s].failure = f /\ session'[s].closed
      /\ session'[s].verified = session[s].verified /\ session'[s].lastSeq = session[s].lastSeq
      /\ session'[s].started = session[s].started
  BY DEF Fails, TypeOK
<1>. QED
  BY <1>2, <1>3 DEF Fails, TypeOK

\* A session that fails stays sound: only what is held is given up.
LEMMA FailsSound ==
  ASSUME IInv, TypeOK', NEW s \in Socket, NEW f \in Failure, Fails(s, f),
         state[s] # "new", f = "identity" => faulty[s],
         ws' = ws, known' = known, peer' = peer, got' = got, faulty' = faulty, sends' = sends
  PROVE  Presence(s)' /\ Unsigned(s)' /\ Ordered(s)' /\ Quiet(s)'
<1>. USE DEF Verified, Ended
<1>1. TypeOK /\ Sound(s)
  BY DEF IInv
<1>2. Presence(s)'
  BY <1>1, FailsShape DEF Sound, Presence
<1>3. Unsigned(s)'
  BY <1>1, FailsShape DEF Sound, Unsigned
<1>4. Ordered(s)'
  BY <1>1, FailsShape, DroppedOrdered DEF Sound
<1>5. Quiet(s)'
  <2>1. ~Verified(s) => lane'[s].held = <<>> /\ lane'[s].out = <<>> /\ lane'[s].wire = <<>>
    BY <1>1, FailsShape DEF Sound, Quiet
  <2>2. lane'[s] \in Lane
    BY DEF TypeOK
  <2>3. lane'[s] = [held |-> lane'[s].held, out |-> lane'[s].out, wire |-> lane'[s].wire]
    BY <2>2, LaneFields
  <2>. QED
    BY <1>1, <2>1, <2>3, FailsShape DEF Sound, Quiet
<1>. QED
  BY <1>2, <1>3, <1>4, <1>5

\* HelloTimeout keeps IInv.
LEMMA InvHelloTimeout ==
  ASSUME IInv, NEW s \in Socket, HelloTimeout(s)
  PROVE  IInv'
<1>. USE DEF Verified, Ended
<1>1. TypeOK /\ TypeOK' /\ Sound(s) /\ sends \in Nat
  BY TypeHelloTimeout, Ids DEF IInv
<1>2. /\ Fails(s, "timeout") /\ "timeout" \in Failure /\ state[s] # "new"
      /\ session[s].timer /\ ~session[s].verified
  BY <1>1 DEF HelloTimeout, Failure, Sound, Presence, Fresh
<1>3. /\ ws' = ws /\ known' = known /\ listed' = listed /\ peer' = peer /\ got' = got
      /\ faulty' = faulty /\ sends' = sends /\ chain' = chain /\ step' = step
  BY DEF HelloTimeout, client, inbound
<1>4. Presence(s)' /\ Unsigned(s)' /\ Ordered(s)' /\ Quiet(s)'
  BY <1>1, <1>2, <1>3, FailsSound
<1>5. Handed(s)'
  BY <1>1, <1>2, <1>3, FailsShape DEF Sound, Handed
<1>6. Queued(s)'
  <2>1. ~Ended(s)
    BY DEF HelloTimeout
  <2>. QED
    BY <1>1, <1>2, <1>3, <2>1, FailsShape DEF Sound, Queued, Expected
<1>7. \A t \in Socket \ {s} : Unmoved(t)
  BY <1>1, <1>2, <1>3, FailsShape DEF Unmoved
<1>8. FeaturesAreOfPeer'
  BY <1>3 DEF IInv, FeaturesAreOfPeer
<1>. QED
  BY <1>1, <1>4, <1>5, <1>6, <1>7, <1>8, OnlyOneMoves DEF Sound

\* Closed keeps IInv.
LEMMA InvClosed ==
  ASSUME IInv, NEW s \in Socket, NEW refused \in BOOLEAN, Closed(s, refused)
  PROVE  IInv'
<1>. USE DEF Verified, Ended
<1>1. TypeOK /\ TypeOK' /\ Sound(s) /\ sends \in Nat
  BY TypeClosed, Ids DEF IInv
<1>2. /\ ws = s /\ ws' = None /\ known' = FALSE /\ state'[s] = "closed"
      /\ state[s] \in {"open", "closing"}
  BY <1>1 DEF Closed, Sound, Presence, TypeOK
<1>3. /\ chain' = chain /\ step' = step /\ peer' = peer /\ sends' = sends
      /\ faulty'[s] = (faulty[s] \/ refused) /\ got'[s] = <<>>
  BY <1>1 DEF Closed, TypeOK
<1>4. /\ session'[s].closed /\ session'[s].verified = session[s].verified
      /\ session'[s].lastSeq = session[s].lastSeq
      /\ session'[s].failure = FailureOnClose(s, refused)
  BY <1>1 DEF Closed, TypeOK
<1>5. lane'[s].held = <<>> /\ lane'[s].wire = <<>> /\ lane'[s].out = lane[s].out
  <2>1. lane \in [Socket -> Lane]
    BY <1>1 DEF TypeOK
  <2>. QED
    BY <2>1 DEF Closed, Lane
<1>6. Presence(s)'
  BY <1>1, <1>2, <1>3, <1>4, <1>5, Bounds DEF Presence
<1>7. Handed(s)'
  BY <1>1, <1>2, <1>3, <1>4, Bounds DEF Sound, Handed
<1>8. Queued(s)'
  <2>1. FailureOnClose(s, refused) = "identity" => session[s].failure = "identity" \/ refused
    BY DEF FailureOnClose
  <2>. QED
    BY <1>1, <1>3, <1>4, <2>1 DEF Sound, Queued, Expected
<1>9. Quiet(s)'
  <2>1. ~Verified(s) => lane'[s].out = <<>>
    BY <1>1, <1>5 DEF Sound, Quiet
  <2>2. lane'[s] \in Lane
    BY <1>1 DEF TypeOK
  <2>3. lane'[s] = [held |-> lane'[s].held, out |-> lane'[s].out, wire |-> lane'[s].wire]
    BY <2>2, LaneFields
  <2>. QED
    BY <1>4, <1>5, <2>1, <2>3 DEF Quiet
<1>10. Unsigned(s)'
  BY <1>1, <1>2, <1>3, <1>5, Bounds DEF Sound, Unsigned
<1>11. Ordered(s)'
  BY <1>1, <1>3, <1>5, DroppedOrdered DEF Sound
<1>12. \A t \in Socket \ {s} : Unmoved(t)
  BY <1>1, <1>2, <1>3, Bounds, SMTT(60) DEF Closed, Unmoved, TypeOK
<1>13. FeaturesAreOfPeer'
  BY <1>2 DEF FeaturesAreOfPeer
<1>. QED
  BY <1>1, <1>6, <1>7, <1>8, <1>9, <1>10, <1>11, <1>12, <1>13, OnlyOneMoves DEF Sound

\* Refuse keeps IInv.
LEMMA InvRefuse ==
  ASSUME IInv, NEW s \in Socket, Refuse(s)
  PROVE  IInv'
<1>. USE DEF Verified, Ended
<1>1. TypeOK /\ TypeOK' /\ Sound(s) /\ sends \in Nat
  BY TypeRefuse, Ids DEF IInv
<1>2. /\ Fails(s, "identity") /\ "identity" \in Failure /\ state[s] # "new"
      /\ step[s] = "verify" /\ ~Verifies(s, chain[s][1]) /\ step'[s] = "idle"
  BY <1>1 DEF Refuse, Done, Failure, Sound, Presence, TypeOK
<1>3. /\ ws' = ws /\ known' = known /\ listed' = listed /\ peer' = peer /\ got' = got
      /\ faulty' = faulty /\ sends' = sends
  BY DEF Refuse, client
<1>4. faulty[s]
  <2>1. chain[s] # <<>> /\ chain[s] \in Seq(Frame)
    BY <1>1, <1>2 DEF TypeOK
  <2>2. Len(chain[s]) \in Nat \ {0}
    BY <2>1, EmptySeq
  <2>3. chain[s][1] \in Frame
    BY <2>1, <2>2, ElementOfSeq
  <2>4. ASSUME ~faulty[s] PROVE FALSE
    <3>1. chain[s][1].intact /\ chain[s][1].n + 1 = Expected(s) + 1
      BY <1>1, <1>2, <2>2, <2>4 DEF Sound, Queued
    <3>2. chain[s][1].n = Expected(s)
      <4>1. chain[s][1].n \in Nat
        BY <2>3 DEF Frame
      <4>. QED
        BY <1>1, <3>1, <4>1, ExpectedType
    <3>. QED
      BY <1>2, <3>1, <3>2 DEF Verifies, Expected
  <2>. QED
    BY <2>4
<1>5. Presence(s)' /\ Unsigned(s)' /\ Ordered(s)' /\ Quiet(s)'
  BY <1>1, <1>2, <1>3, <1>4, FailsSound
<1>6. Handed(s)'
  BY <1>1, <1>2, <1>3, FailsShape DEF Sound, Handed
<1>7. Queued(s)'
  BY <1>2, <1>3, <1>4 DEF Queued
<1>8. \A t \in Socket \ {s} : Unmoved(t)
  BY <1>1, <1>2, <1>3, FailsShape DEF Unmoved, Refuse, Done, TypeOK
<1>9. FeaturesAreOfPeer'
  BY <1>3 DEF IInv, FeaturesAreOfPeer
<1>. QED
  BY <1>1, <1>5, <1>6, <1>7, <1>8, <1>9, OnlyOneMoves DEF Sound

\* One send put at the end of a queue comes after all that were sent before.
LEMMA AppendedOrdered ==
  ASSUME NEW q \in Seq(Item), NEW x \in Item, NEW n \in Nat, x.id = n + 1,
         \A i \in 1 .. Len(q) : q[i].id <= n,
         \A i, j \in 1 .. Len(q) : i < j => Before(q[i], q[j])
  PROVE  LET r == Append(q, x) IN
         /\ \A i \in 1 .. Len(r) : r[i].id <= n + 1
         /\ \A i, j \in 1 .. Len(r) : i < j => Before(r[i], r[j])
<1>. DEFINE r == Append(q, x)
<1>1. /\ Len(r) = Len(q) + 1 /\ Len(q) \in Nat /\ r[Len(q) + 1] = x
      /\ \A i \in 1 .. Len(q) : r[i] = q[i]
  BY Appended, LenProperties
<1>2. \A i \in 1 .. Len(q) : q[i].id \in Nat /\ q[i].id < n + 1 /\ Before(q[i], x)
  <2>1. \A i \in 1 .. Len(q) : q[i] \in Item
    BY ElementOfSeq
  <2>. QED
    BY <2>1, Bounds DEF Item, Before
<1>. HIDE DEF r
<1>3. \A i \in 1 .. Len(r) : r[i].id <= n + 1
  BY <1>1, <1>2
<1>4. \A i, j \in 1 .. Len(r) : i < j => Before(r[i], r[j])
  <2>. SUFFICES ASSUME NEW i \in 1 .. Len(r), NEW j \in 1 .. Len(r), i < j
                PROVE  Before(r[i], r[j])
    OBVIOUS
  <2>1. i \in 1 .. Len(q)
    BY <1>1
  <2>2. CASE j \in 1 .. Len(q)
    BY <1>1, <2>1, <2>2
  <2>3. CASE j = Len(q) + 1
    BY <1>1, <1>2, <2>1, <2>3
  <2>. QED
    BY <1>1, <2>2, <2>3
<1>. QED
  BY <1>3, <1>4 DEF r

\* The queues a send leaves behind are in order.
LEMMA SendOrdered ==
  ASSUME TypeOK, NEW s \in Socket, Ordered(s), sends' = sends + 1,
         NEW x \in Item, x.id = sends + 1,
         \/ /\ lane'[s].out = Append(lane[s].out, x) /\ lane'[s].wire = lane[s].wire
            /\ lane'[s].held = lane[s].held
         \/ /\ lane[s].out = <<>> /\ lane'[s].out = <<>> /\ lane'[s].held = lane[s].held
            /\ lane'[s].wire = Append(lane[s].wire, x)
         \/ /\ lane'[s].out = lane[s].out /\ lane'[s].wire = lane[s].wire
            /\ lane'[s].held \in {lane[s].held, Append(lane[s].held, sends + 1)}
            /\ sends + 1 \in 1 .. MaxSends
  PROVE  Ordered(s)'
<1>. DEFINE o == lane[s].out
            w == lane[s].wire
            h == lane[s].held
<1>1. /\ o \in Seq(Item) /\ w \in Seq(Item) /\ h \in Seq(1 .. MaxSends) /\ sends \in Nat
      /\ Len(o) \in Nat /\ Len(w) \in Nat /\ Len(h) \in Nat
  BY Ids, LaneFields
<1>2. /\ \A i \in 1 .. Len(o) : o[i].id \in Nat /\ o[i].id <= sends
      /\ \A i \in 1 .. Len(w) : w[i].id \in Nat /\ w[i].id <= sends
      /\ \A i \in 1 .. Len(h) : h[i] \in Nat /\ h[i] <= sends
  BY Ids DEF Ordered
<1>3. /\ \A i, j \in 1 .. Len(o) : i < j => Before(o[i], o[j])
      /\ \A i, j \in 1 .. Len(w) : i < j => Before(w[i], w[j])
      /\ \A i \in 1 .. Len(w), j \in 1 .. Len(o) : Before(w[i], o[j])
      /\ \A i, j \in 1 .. Len(h) : i < j => h[i] < h[j]
  BY DEF Ordered
<1>4. CASE /\ lane'[s].out = Append(o, x) /\ lane'[s].wire = w /\ lane'[s].held = h
  <2>. DEFINE r == Append(o, x)
  <2>1. /\ \A i \in 1 .. Len(r) : r[i].id <= sends + 1
        /\ \A i, j \in 1 .. Len(r) : i < j => Before(r[i], r[j])
    BY <1>1, <1>2, <1>3, AppendedOrdered
  <2>2. /\ Len(r) = Len(o) + 1 /\ r[Len(o) + 1] = x /\ \A j \in 1 .. Len(o) : r[j] = o[j]
    BY <1>1, Appended
  <2>. HIDE DEF r
  <2>3. \A i \in 1 .. Len(w) : Before(w[i], x)
    BY <1>1, <1>2 DEF Before
  <2>4. \A i \in 1 .. Len(w), j \in 1 .. Len(r) : Before(w[i], r[j])
    <3>. SUFFICES ASSUME NEW i \in 1 .. Len(w), NEW j \in 1 .. Len(r) PROVE Before(w[i], r[j])
      OBVIOUS
    <3>1. j \in 1 .. Len(o) \/ j = Len(o) + 1
      BY <1>1, <2>2
    <3>. QED
      BY <1>3, <2>2, <2>3, <3>1
  <2>5. /\ \A i \in 1 .. Len(w) : w[i].id <= sends + 1
        /\ \A i \in 1 .. Len(h) : h[i] <= sends + 1
    BY <1>1, <1>2
  <2>6. lane'[s].out = r
    BY <1>4 DEF r
  <2>. HIDE DEF o, w, h
  <2>. QED
    BY <1>3, <1>4, <2>1, <2>4, <2>5, <2>6 DEF Ordered
<1>5. CASE /\ o = <<>> /\ lane'[s].out = <<>> /\ lane'[s].held = h
           /\ lane'[s].wire = Append(w, x)
  <2>. DEFINE r == Append(w, x)
  <2>1. /\ \A i \in 1 .. Len(r) : r[i].id <= sends + 1
        /\ \A i, j \in 1 .. Len(r) : i < j => Before(r[i], r[j])
    BY <1>1, <1>2, <1>3, AppendedOrdered
  <2>2. \A i \in 1 .. Len(h) : h[i] <= sends + 1
    BY <1>1, <1>2
  <2>3. lane'[s].wire = r /\ Len(<<>>) = 0
    BY <1>5 DEF r
  <2>. HIDE DEF o, w, h, r
  <2>. QED
    BY <1>3, <1>5, <2>1, <2>2, <2>3 DEF Ordered
<1>6. CASE /\ lane'[s].out = o /\ lane'[s].wire = w
           /\ lane'[s].held \in {h, Append(h, sends + 1)} /\ sends + 1 \in 1 .. MaxSends
  <2>. DEFINE r == Append(h, sends + 1)
  <2>1. /\ Len(r) = Len(h) + 1 /\ r[Len(h) + 1] = sends + 1
        /\ \A i \in 1 .. Len(h) : r[i] = h[i]
    BY <1>1, <1>6, Appended
  <2>. HIDE DEF r, h
  <2>6. \A i \in 1 .. Len(r) : i \in 1 .. Len(h) \/ i = Len(h) + 1
    BY <1>1, <2>1
  <2>7. \A i \in 1 .. Len(h) : r[i] < sends + 1 /\ r[i] \in Nat
    BY <1>1, <1>2, <2>1
  <2>2. \A i \in 1 .. Len(r) : r[i] <= sends + 1
    BY <1>1, <2>1, <2>6, <2>7
  <2>3. \A i, j \in 1 .. Len(r) : i < j => r[i] < r[j]
    <3>. SUFFICES ASSUME NEW i \in 1 .. Len(r), NEW j \in 1 .. Len(r), i < j PROVE r[i] < r[j]
      OBVIOUS
    <3>1. i \in 1 .. Len(h)
      BY <1>1, <2>1
    <3>. QED
      BY <1>3, <2>1, <2>6, <2>7, <3>1
  <2>4. /\ \A i \in 1 .. Len(o) : o[i].id <= sends + 1
        /\ \A i \in 1 .. Len(w) : w[i].id <= sends + 1
        /\ \A i \in 1 .. Len(h) : h[i] <= sends + 1
    BY <1>1, <1>2, SMTT(60)
  <2>5. lane'[s].held \in {h, r}
    BY <1>6 DEF r
  <2>. HIDE DEF o, w, h
  <2>. QED
    BY <1>3, <1>6, <2>2, <2>3, <2>4, <2>5 DEF Ordered
<1>. QED
  BY <1>4, <1>5, <1>6

\* Send keeps IInv.
LEMMA InvSend ==
  ASSUME IInv, NEW report \in BOOLEAN, Send(report), NEW s \in Socket, s = ws
  PROVE  IInv'
<1>. USE DEF Verified, Ended
<1>. DEFINE l == lane[s]
            x == Sent(sends + 1, report)
            y == [x EXCEPT !.how = "signing"]
<1>1. TypeOK /\ TypeOK' /\ sends \in Nat /\ sends' = sends + 1
  <2>1. TypeOK /\ TypeOK'
    BY TypeSend DEF IInv
  <2>. QED
    BY <2>1, Ids DEF Send
<1>2. s \in Socket /\ state[s] = "open" /\ sends + 1 \in 1 .. MaxSends
  BY <1>1, Bounds DEF Send
<1>3. Sound(s) /\ FeaturesAreOfPeer /\ l \in Lane
  BY <1>1, <1>2, Ids DEF IInv
<1>4. /\ ws' = ws /\ known' = known /\ listed' = listed /\ state' = state /\ session' = session
      /\ chain' = chain /\ step' = step /\ got' = got /\ peer' = peer /\ faulty' = faulty
  BY DEF Send, client, inbound
<1>5. /\ x \in Item /\ x.id = sends + 1 /\ x.report = report /\ x.how = "plain"
      /\ y \in Item /\ y.id = sends + 1 /\ y.report = report /\ y.how = "signing"
  BY <1>2, SentType DEF Sent, Item
<1>6. \A t \in Socket \ {s} : Unmoved(t)
  <2>1. \A t \in Socket \ {s} : lane'[t] = lane[t]
    BY <1>1, <1>2 DEF Send, TypeOK
  <2>. QED
    BY <1>1, <1>4, <2>1 DEF Unmoved
\* What becomes of the lane: a dropped send, a queued one, one on the wire, a
\* held one.
<1>7. \/ lane' = lane
      \/ /\ Verified(s) /\ ~Ended(s) /\ (report => known)
         /\ \/ /\ listed /\ lane'[s].out = Append(l.out, y)
               /\ lane'[s].wire = l.wire /\ lane'[s].held = l.held
            \/ /\ report => ~listed
               /\ lane'[s].out = Append(l.out, x) /\ lane'[s].wire = l.wire /\ lane'[s].held = l.held
            \/ /\ report => ~listed
               /\ l.out = <<>> /\ lane'[s].out = <<>> /\ lane'[s].held = l.held
               /\ lane'[s].wire = Append(l.wire, x)
      \/ /\ Verified(s) /\ ~Ended(s) /\ ~known
         /\ lane'[s].out = l.out /\ lane'[s].wire = l.wire
         /\ lane'[s].held = Append(l.held, sends + 1)
  <2>. HIDE DEF x, y
  <2>. DEFINE m == SendVerified(l, <<x>>)
  <2>1. \/ listed /\ m = [held |-> l.held, out |-> Append(l.out, y), wire |-> l.wire]
        \/ /\ report => ~listed
           /\ l.out = <<>> /\ m = [held |-> l.held, out |-> l.out, wire |-> Append(l.wire, x)]
        \/ /\ report => ~listed
           /\ m = [held |-> l.held, out |-> Append(l.out, x), wire |-> l.wire]
    BY <1>3, <1>5, SendVerifiedShape DEF Signs, y
  <2>2. \/ lane' = lane
        \/ /\ Verified(s) /\ ~Ended(s) /\ (report => known)
           /\ lane' = [lane EXCEPT ![s] = m]
        \/ /\ Verified(s) /\ ~Ended(s) /\ ~known
           /\ lane' = [lane EXCEPT ![s].held = Append(@, sends + 1)]
    BY DEF Send, HoldsReport, x
  <2>. HIDE DEF m
  <2>3. lane \in [Socket -> Lane]
    BY <1>1 DEF TypeOK
  <2>4. ASSUME lane' = [lane EXCEPT ![s].held = Append(@, sends + 1)]
        PROVE  /\ lane'[s].out = l.out /\ lane'[s].wire = l.wire
               /\ lane'[s].held = Append(l.held, sends + 1)
    BY <1>2, <2>3, <2>4 DEF Lane
  <2>5. ASSUME lane' = [lane EXCEPT ![s] = m]
        PROVE  lane'[s] = m
    BY <1>2, <2>3, <2>5
  <2>. HIDE DEF l
  <2>6. CASE lane' = [lane EXCEPT ![s] = m] /\ Verified(s) /\ ~Ended(s) /\ (report => known)
    BY <2>1, <2>5, <2>6
  <2>. QED
    BY <2>2, <2>4, <2>6
<1>. HIDE DEF x, y, l
<1>8. Presence(s)' /\ Handed(s)' /\ Queued(s)'
  <2>1. Presence(s)'
    BY <1>2, <1>3, <1>4 DEF Sound, Presence
  <2>2. Handed(s)'
    BY <1>3, <1>4 DEF Sound, Handed
  <2>3. Queued(s)'
    BY <1>3, <1>4 DEF Sound, Queued, Expected
  <2>. QED
    BY <2>1, <2>2, <2>3
<1>9. Quiet(s)'
  BY <1>3, <1>4, <1>7 DEF Sound, Quiet, l
<1>10. Unsigned(s)'
  <2>1. CASE lane' = lane
    BY <1>3, <1>4, <2>1 DEF Sound, Unsigned
  <2>2. known => listed = peer[s].signs
    BY <1>3 DEF FeaturesAreOfPeer
  <2>3. l.out \in Seq(Item) /\ l.wire \in Seq(Item)
    BY <1>3, LaneFields
  <2>4. /\ \A i \in 1 .. Len(l.out) : l.out[i].report =>
             known /\ (l.out[i].how = "plain" => ~peer[s].signs)
        /\ \A i \in 1 .. Len(l.wire) : l.wire[i].report =>
             known /\ (l.wire[i].how = "plain" => ~peer[s].signs)
    BY <1>3 DEF Sound, Unsigned, l
  <2>5. ASSUME NEW q \in Seq(Item), NEW z \in Item,
               \A i \in 1 .. Len(q) : q[i].report => known /\ (q[i].how = "plain" => ~peer[s].signs),
               z.report => known /\ (z.how = "plain" => ~peer[s].signs)
        PROVE  \A i \in 1 .. Len(Append(q, z)) : Append(q, z)[i].report =>
                 known /\ (Append(q, z)[i].how = "plain" => ~peer[s].signs)
    <3>1. /\ Len(Append(q, z)) = Len(q) + 1 /\ Len(q) \in Nat /\ Append(q, z)[Len(q) + 1] = z
          /\ \A i \in 1 .. Len(q) : Append(q, z)[i] = q[i]
      BY Appended, LenProperties
    <3>2. \A i \in 1 .. Len(q) + 1 : i \in 1 .. Len(q) \/ i = Len(q) + 1
      BY <3>1
    <3>. QED
      BY <2>5, <3>1, <3>2
  <2>6. CASE /\ report => known
             /\ listed /\ lane'[s].out = Append(l.out, y) /\ lane'[s].wire = l.wire
    <3>1. y.report => known /\ (y.how = "plain" => ~peer[s].signs)
      BY <1>5, <2>6
    <3>. QED
      BY <1>4, <1>5, <2>3, <2>4, <2>5, <2>6, <3>1, SMTT(60) DEF Unsigned
  <2>7. CASE /\ (report => known /\ ~listed)
             /\ \/ lane'[s].out = Append(l.out, x) /\ lane'[s].wire = l.wire
                \/ lane'[s].out = <<>> /\ lane'[s].wire = Append(l.wire, x)
    <3>1. x.report => known /\ (x.how = "plain" => ~peer[s].signs)
      BY <1>5, <2>2, <2>7
    <3>2. Len(<<>>) = 0
      OBVIOUS
    <3>. DEFINE o == Append(l.out, x)
                w == Append(l.wire, x)
    <3>3. \A q \in {o, w} : \A i \in 1 .. Len(q) :
            q[i].report => known /\ (q[i].how = "plain" => ~peer[s].signs)
      BY <1>5, <2>3, <2>4, <2>5, <3>1
    <3>4. \/ lane'[s].out = o /\ lane'[s].wire = l.wire
          \/ lane'[s].out = <<>> /\ lane'[s].wire = w
      BY <2>7
    <3>. HIDE DEF o, w
    <3>. QED
      BY <1>4, <2>4, <3>2, <3>3, <3>4 DEF Unsigned
  <2>8. CASE lane'[s].out = l.out /\ lane'[s].wire = l.wire
    BY <1>4, <2>4, <2>8 DEF Unsigned
  <2>. QED
    BY <1>7, <2>1, <2>6, <2>7, <2>8
<1>11. Ordered(s)'
  <2>1. Ordered(s)
    BY <1>3 DEF Sound
  <2>. USE DEF l
  <2>2. CASE /\ lane'[s].out = Append(l.out, y) /\ lane'[s].wire = l.wire /\ lane'[s].held = l.held
    BY <1>1, <1>2, <1>5, <2>1, <2>2, SendOrdered
  <2>3. CASE \/ /\ lane'[s].out = Append(l.out, x) /\ lane'[s].wire = l.wire /\ lane'[s].held = l.held
             \/ /\ l.out = <<>> /\ lane'[s].out = <<>> /\ lane'[s].held = l.held
                /\ lane'[s].wire = Append(l.wire, x)
    BY <1>1, <1>2, <1>5, <2>1, <2>3, SendOrdered
  <2>4. CASE /\ lane'[s].out = l.out /\ lane'[s].wire = l.wire
             /\ lane'[s].held \in {l.held, Append(l.held, sends + 1)}
    BY <1>1, <1>2, <1>5, <2>1, <2>4, SendOrdered
  <2>. QED
    BY <1>7, <2>2, <2>3, <2>4
<1>12. FeaturesAreOfPeer'
  BY <1>3, <1>4 DEF FeaturesAreOfPeer
<1>13. Sound(s)'
  BY <1>8, <1>9, <1>10, <1>11 DEF Sound
<1>. QED
  BY <1>1, <1>2, <1>6, <1>12, <1>13, OnlyOneMoves

\* Sign keeps IInv.
LEMMA InvSign ==
  ASSUME IInv, NEW s \in Socket, NEW i \in 1 .. MaxSends, Sign(s, i)
  PROVE  IInv'
<1>. USE DEF Verified, Ended
<1>1. TypeOK /\ TypeOK' /\ Sound(s) /\ sends \in Nat /\ lane[s] \in Lane
  BY TypeSign, Ids DEF IInv
<1>2. /\ ws' = ws /\ known' = known /\ listed' = listed /\ state' = state /\ session' = session
      /\ chain' = chain /\ step' = step /\ got' = got /\ peer' = peer /\ faulty' = faulty
      /\ sends' = sends
  BY DEF Sign, client, inbound
<1>3. PICK how \in {"signed", "failed"}, l \in Lane :
        /\ i \in 1 .. Len(lane[s].out) /\ lane[s].out[i].how = "signing"
        /\ lane' = [lane EXCEPT ![s] = l]
        /\ l.held = lane[s].held /\ l.wire = lane[s].wire
        /\ Len(l.out) = Len(lane[s].out)
        /\ \A j \in 1 .. Len(l.out) :
             l.out[j] = IF j = i THEN [lane[s].out[i] EXCEPT !.how = how] ELSE lane[s].out[j]
  BY <1>1, SignShape, SMTT(60)
<1>4. lane'[s] = l /\ \A t \in Socket \ {s} : lane'[t] = lane[t]
  BY <1>1, <1>3 DEF TypeOK
<1>5. \A j \in 1 .. Len(l.out) :
        /\ l.out[j].id = lane[s].out[j].id /\ l.out[j].report = lane[s].out[j].report
        /\ l.out[j].late = lane[s].out[j].late
        /\ l.out[j].how = "plain" => lane[s].out[j].how = "plain"
  <2>1. \A j \in 1 .. Len(lane[s].out) : lane[s].out[j] \in Item
    BY <1>1, Ids
  <2>. QED
    BY <1>3, <2>1 DEF Item
<1>6. Presence(s)' /\ Handed(s)' /\ Queued(s)' /\ Quiet(s)'
  <2>1. Presence(s)'
    <3>1. lane[s].out # <<>>
      BY <1>3
    <3>. QED
      BY <1>1, <1>2, <1>3, <1>4, <3>1 DEF Sound, Presence
  <2>2. Handed(s)'
    BY <1>1, <1>2 DEF Sound, Handed
  <2>3. Queued(s)'
    BY <1>1, <1>2 DEF Sound, Queued, Expected
  <2>4. Quiet(s)'
    <3>1. lane[s].out # <<>>
      BY <1>3
    <3>. QED
      BY <1>1, <1>2, <1>3, <1>4, <3>1 DEF Sound, Quiet
  <2>. QED
    BY <2>1, <2>2, <2>3, <2>4
<1>7. Unsigned(s)'
  BY <1>1, <1>2, <1>3, <1>4, <1>5 DEF Sound, Unsigned
<1>8. Ordered(s)'
  <2>1. \A j, k \in 1 .. Len(l.out) :
          Before(lane[s].out[j], lane[s].out[k]) => Before(l.out[j], l.out[k])
    BY <1>5 DEF Before
  <2>2. \A j \in 1 .. Len(l.wire), k \in 1 .. Len(l.out) :
          Before(l.wire[j], lane[s].out[k]) => Before(l.wire[j], l.out[k])
    BY <1>5 DEF Before
  <2>3. \A j \in 1 .. Len(l.out) : l.out[j].id <= sends
    BY <1>1, <1>3, <1>5 DEF Sound, Ordered
  <2>. QED
    BY <1>1, <1>2, <1>3, <1>4, <2>1, <2>2, <2>3, SMTT(60) DEF Sound, Ordered
<1>9. \A t \in Socket \ {s} : Unmoved(t)
  BY <1>1, <1>2, <1>4 DEF Unmoved
<1>10. FeaturesAreOfPeer'
  BY <1>2 DEF IInv, FeaturesAreOfPeer
<1>. QED
  BY <1>1, <1>6, <1>7, <1>8, <1>9, <1>10, OnlyOneMoves DEF Sound

\* Leave keeps IInv.
LEMMA InvLeave ==
  ASSUME IInv, NEW s \in Socket, Leave(s)
  PROVE  IInv'
<1>. USE DEF Verified, Ended
<1>1. TypeOK /\ TypeOK' /\ Sound(s) /\ sends \in Nat /\ lane[s] \in Lane
  BY TypeLeave, Ids DEF IInv
<1>2. /\ ws' = ws /\ known' = known /\ listed' = listed /\ state' = state /\ session' = session
      /\ chain' = chain /\ step' = step /\ got' = got /\ peer' = peer /\ faulty' = faulty
      /\ sends' = sends
  BY DEF Leave, client, inbound
<1>. DEFINE o == lane[s].out
            w == lane[s].wire
            x == Head(o)
<1>3. PICK l \in Lane :
        /\ o # <<>> /\ x \in Item /\ x.how # "signing" /\ Tail(o) \in Seq(Item)
        /\ lane' = [lane EXCEPT ![s] = l] /\ l.held = lane[s].held /\ l.out = Tail(o)
        /\ l.wire = IF MayLeave(s) THEN Append(w, x) ELSE w
  BY <1>1, LeaveShape, Zenon
<1>4. lane'[s] = l /\ \A t \in Socket \ {s} : lane'[t] = lane[t]
  BY <1>1, <1>3 DEF TypeOK
<1>5. o \in Seq(Item) /\ w \in Seq(Item) /\ Len(o) \in Nat \ {0} /\ Len(w) \in Nat
  BY <1>1, <1>3, LaneFields, EmptySeq
<1>6. /\ x = o[1] /\ Len(l.out) = Len(o) - 1
      /\ \A j \in 1 .. Len(l.out) : l.out[j] = o[j + 1] /\ j + 1 \in 1 .. Len(o)
  BY <1>3, <1>5, HeadTailProperties
<1>7. \/ Len(l.wire) = Len(w) /\ l.wire = w
      \/ /\ MayLeave(s) /\ Len(l.wire) = Len(w) + 1 /\ l.wire[Len(w) + 1] = o[1]
         /\ \A j \in 1 .. Len(w) : l.wire[j] = w[j]
  <2>1. /\ Len(Append(w, x)) = Len(w) + 1 /\ Append(w, x)[Len(w) + 1] = x
        /\ \A j \in 1 .. Len(w) : Append(w, x)[j] = w[j]
    BY <1>3, <1>5, Appended
  <2>. HIDE DEF x, w
  <2>2. CASE MayLeave(s)
    BY <1>3, <1>6, <2>1, <2>2
  <2>. QED
    BY <1>3, <2>2
<1>8. Verified(s) /\ state[s] # "new"
  BY <1>1, <1>3 DEF Sound, Quiet, Presence
\* Where the items of the new queues come from.
<1>9. \A j \in 1 .. Len(l.wire) : \/ j \in 1 .. Len(w) /\ l.wire[j] = w[j]
                                  \/ j = Len(w) + 1 /\ l.wire[j] = o[1]
  BY <1>5, <1>7
<1>. HIDE DEF x, o, w
<1>10. Presence(s)' /\ Handed(s)' /\ Queued(s)' /\ Quiet(s)'
  <2>1. Presence(s)'
    <3>1. MayLeave(s) => ws = s
      BY <1>1 DEF MayLeave, Sound, Presence
    <3>. QED
      BY <1>1, <1>2, <1>4, <1>7, <1>8, <3>1 DEF Sound, Presence, w
  <2>2. Handed(s)'
    BY <1>1, <1>2 DEF Sound, Handed
  <2>3. Queued(s)'
    BY <1>1, <1>2 DEF Sound, Queued, Expected
  <2>4. Quiet(s)'
    BY <1>1, <1>2, <1>3, <1>4, <1>8 DEF Sound, Quiet
  <2>. QED
    BY <2>1, <2>2, <2>3, <2>4
<1>11. Unsigned(s)'
  <2>1. /\ \A j \in 1 .. Len(o) : o[j].report =>
             (ws = s => known) /\ (o[j].how = "plain" => ~peer[s].signs)
        /\ \A j \in 1 .. Len(w) : w[j].report =>
             (ws = s => known) /\ (w[j].how = "plain" => ~peer[s].signs)
    BY <1>1 DEF Sound, Unsigned, o, w
  <2>2. 1 \in 1 .. Len(o)
    BY <1>5
  <2>3. \A j \in 1 .. Len(l.wire) : l.wire[j].report =>
             (ws = s => known) /\ (l.wire[j].how = "plain" => ~peer[s].signs)
    BY <1>9, <2>1, <2>2
  <2>4. \A j \in 1 .. Len(l.out) : l.out[j].report =>
             (ws = s => known) /\ (l.out[j].how = "plain" => ~peer[s].signs)
    BY <1>6, <2>1
  <2>. QED
    BY <1>2, <1>4, <2>3, <2>4 DEF Unsigned
<1>12. Ordered(s)'
  <2>1. /\ \A j \in 1 .. Len(o) : o[j].id <= sends
        /\ \A j \in 1 .. Len(w) : w[j].id <= sends
        /\ \A j, k \in 1 .. Len(o) : j < k => Before(o[j], o[k])
        /\ \A j, k \in 1 .. Len(w) : j < k => Before(w[j], w[k])
        /\ \A j \in 1 .. Len(w), k \in 1 .. Len(o) : Before(w[j], o[k])
    BY <1>1 DEF Sound, Ordered, o, w
  <2>2. 1 \in 1 .. Len(o)
    BY <1>5
  <2>3. \A q \in {l.out, l.wire} : \A j \in 1 .. Len(q) : q[j].id <= sends
    BY <1>6, <1>9, <2>1, <2>2
  <2>4. \A j, k \in 1 .. Len(l.out) : j < k => Before(l.out[j], l.out[k])
    BY <1>5, <1>6, <2>1
  <2>5. \A j, k \in 1 .. Len(l.wire) : j < k => Before(l.wire[j], l.wire[k])
    BY <1>5, <1>9, <2>1, <2>2, SMTT(60)
  <2>6. \A j \in 1 .. Len(l.wire), k \in 1 .. Len(l.out) : Before(l.wire[j], l.out[k])
    <3>. SUFFICES ASSUME NEW j \in 1 .. Len(l.wire), NEW k \in 1 .. Len(l.out)
                  PROVE  Before(l.wire[j], l.out[k])
      OBVIOUS
    <3>1. l.out[k] = o[k + 1] /\ k + 1 \in 1 .. Len(o) /\ 1 < k + 1
      BY <1>5, <1>6
    <3>2. CASE j \in 1 .. Len(w) /\ l.wire[j] = w[j]
      BY <2>1, <3>1, <3>2
    <3>3. CASE l.wire[j] = o[1]
      BY <2>1, <2>2, <3>1, <3>3
    <3>. QED
      BY <1>9, <3>2, <3>3
  <2>. QED
    BY <1>1, <1>2, <1>3, <1>4, <2>3, <2>4, <2>5, <2>6 DEF Sound, Ordered
<1>13. \A t \in Socket \ {s} : Unmoved(t)
  BY <1>1, <1>2, <1>4 DEF Unmoved
<1>14. FeaturesAreOfPeer'
  BY <1>2 DEF IInv, FeaturesAreOfPeer
<1>. QED
  BY <1>1, <1>10, <1>11, <1>12, <1>13, <1>14, OnlyOneMoves DEF Sound

\* A step that only takes frames in leaves the lanes in order.
LEMMA LaneKept ==
  ASSUME NEW s \in Socket, Sound(s), lane' = lane, sends' = sends, ws' = ws, known' = known,
         peer'[s].signs = peer[s].signs
  PROVE  Unsigned(s)' /\ Ordered(s)'
<1>1. Unsigned(s)'
  BY DEF Sound, Unsigned
<1>2. Ordered(s)'
  BY DEF Sound, Ordered, Before
<1>. QED
  BY <1>1, <1>2

\* The frames that wait, one more or one fewer of them.
LEMMA ChainElements ==
  ASSUME TypeOK, NEW s \in Socket
  PROVE  /\ chain[s] \in Seq(Frame) /\ Len(chain[s]) \in Nat
         /\ \A i \in 1 .. Len(chain[s]) : chain[s][i] \in Frame /\ chain[s][i].n \in Nat
         /\ chain[s] # <<>> =>
              /\ Len(chain[s]) > 0 /\ Tail(chain[s]) \in Seq(Frame)
              /\ Len(Tail(chain[s])) = Len(chain[s]) - 1
              /\ \A i \in 1 .. Len(chain[s]) - 1 :
                   i + 1 \in 1 .. Len(chain[s]) /\ Tail(chain[s])[i] = chain[s][i + 1]
<1>1. chain[s] \in Seq(Frame)
  BY DEF TypeOK
<1>2. Len(chain[s]) \in Nat
  BY <1>1, LenProperties
<1>3. \A i \in 1 .. Len(chain[s]) : chain[s][i] \in Frame /\ chain[s][i].n \in Nat
  <2>1. \A i \in 1 .. Len(chain[s]) : chain[s][i] \in Frame
    BY <1>1, ElementOfSeq
  <2>. QED
    BY <2>1, Bounds DEF Frame
<1>4. ASSUME chain[s] # <<>>
      PROVE  /\ Len(chain[s]) > 0 /\ Tail(chain[s]) \in Seq(Frame)
             /\ Len(Tail(chain[s])) = Len(chain[s]) - 1
             /\ \A i \in 1 .. Len(chain[s]) - 1 :
                  i + 1 \in 1 .. Len(chain[s]) /\ Tail(chain[s])[i] = chain[s][i + 1]
  <2>1. /\ Tail(chain[s]) \in Seq(Frame) /\ Len(Tail(chain[s])) = Len(chain[s]) - 1
        /\ \A i \in 1 .. Len(Tail(chain[s])) : Tail(chain[s])[i] = chain[s][i + 1]
    BY <1>1, <1>4, HeadTailProperties
  <2>2. Len(chain[s]) \in Nat \ {0}
    BY <1>1, <1>4, EmptySeq
  <2>. QED
    BY <2>1, <2>2
<1>. QED
  BY <1>1, <1>2, <1>3, <1>4

\* Arrive keeps IInv.
LEMMA InvArrive ==
  ASSUME IInv, NEW s \in Socket, Arrive(s)
  PROVE  IInv'
<1>. USE DEF Verified, Ended
<1>1. TypeOK /\ TypeOK' /\ Sound(s) /\ sends \in Nat
  BY TypeArrive, Ids DEF IInv
<1>2. /\ ws' = ws /\ known' = known /\ listed' = listed /\ state' = state /\ session' = session
      /\ lane' = lane /\ step' = step /\ got' = got /\ sends' = sends /\ state[s] = "open"
  BY DEF Arrive, client
<1>3. /\ peer'[s].signs = peer[s].signs /\ peer'[s].next = peer[s].next + 1
      /\ \A t \in Socket \ {s} : peer'[t] = peer[t]
  BY <1>1 DEF Arrive, TypeOK
<1>4. /\ \A t \in Socket \ {s} : chain'[t] = chain[t] /\ faulty'[t] = faulty[t]
      /\ faulty[s] => faulty'[s]
  BY <1>1 DEF Arrive, TypeOK
<1>. DEFINE f == [n |-> peer[s].next, intact |-> TRUE]
<1>5. ~faulty'[s] => chain'[s] = Append(chain[s], f)
  BY <1>1 DEF Arrive, TypeOK
<1>6. Presence(s)' /\ Handed(s)' /\ Quiet(s)'
  <2>1. Presence(s)'
    BY <1>1, <1>2 DEF Sound, Presence
  <2>2. Handed(s)'
    BY <1>1, <1>2 DEF Sound, Handed
  <2>3. Quiet(s)'
    BY <1>1, <1>2 DEF Sound, Quiet
  <2>. QED
    BY <2>1, <2>2, <2>3
<1>7. Queued(s)'
  <2>1. session[s].failure = "identity" => faulty'[s]
    BY <1>1, <1>4 DEF Sound, Queued
  <2>2. Expected(s)' = Expected(s) /\ Expected(s) \in Nat
    BY <1>1, <1>2, ExpectedType DEF Expected
  <2>3. ASSUME ~faulty'[s], step[s] # "idle" \/ ~Ended(s)
        PROVE  /\ peer'[s].next = Expected(s) + Len(chain'[s])
               /\ \A i \in 1 .. Len(chain'[s]) :
                    chain'[s][i].intact /\ chain'[s][i].n + 1 = Expected(s) + i
    <3>1. /\ peer[s].next = Expected(s) + Len(chain[s])
          /\ \A i \in 1 .. Len(chain[s]) :
               chain[s][i].intact /\ chain[s][i].n + 1 = Expected(s) + i
      BY <1>1, <1>4, <2>3 DEF Sound, Queued
    <3>2. f \in Frame
      <4>1. peer[s].next <= MaxFrames /\ peer[s].next \in 0 .. MaxFrames + 1
        BY <1>1 DEF Arrive, TypeOK
      <4>. QED
        BY <4>1, Bounds DEF Frame
    <3>3. f.intact /\ f.n = peer[s].next
      OBVIOUS
    <3>. HIDE DEF f
    <3>4. /\ Len(chain'[s]) = Len(chain[s]) + 1 /\ Len(chain[s]) \in Nat
          /\ chain'[s][Len(chain[s]) + 1] = f
          /\ \A i \in 1 .. Len(chain[s]) : chain'[s][i] = chain[s][i]
      BY <1>1, <1>5, <2>3, <3>2, Appended, ChainElements
    <3>5. peer'[s].next = Expected(s) + Len(chain'[s])
      BY <1>3, <2>2, <3>1, <3>4
    <3>6. ASSUME NEW i \in 1 .. Len(chain'[s])
          PROVE  chain'[s][i].intact /\ chain'[s][i].n + 1 = Expected(s) + i
      <4>1. CASE i \in 1 .. Len(chain[s])
        BY <3>1, <3>4, <4>1
      <4>2. CASE i = Len(chain[s]) + 1
        <5>1. chain'[s][i] = f
          BY <3>4, <4>2
        <5>2. f.n + 1 = Expected(s) + i
          BY <2>2, <3>1, <3>3, <3>4, <4>2
        <5>. QED
          BY <3>3, <5>1, <5>2
      <4>. QED
        BY <3>4, <4>1, <4>2
    <3>. QED
      BY <3>5, <3>6
  <2>. QED
    BY <1>2, <2>1, <2>2, <2>3 DEF Queued
<1>8. Unsigned(s)' /\ Ordered(s)'
  BY <1>1, <1>2, <1>3, LaneKept
<1>9. \A t \in Socket \ {s} : Unmoved(t)
  BY <1>1, <1>2, <1>3, <1>4 DEF Unmoved
<1>10. FeaturesAreOfPeer'
  <2>1. \A t \in Socket : peer'[t].signs = peer[t].signs
    BY <1>3
  <2>. QED
    BY <1>2, <2>1 DEF IInv, FeaturesAreOfPeer
<1>. QED
  BY <1>1, <1>6, <1>7, <1>8, <1>9, <1>10, OnlyOneMoves DEF Sound

\* NextFrame keeps IInv.
LEMMA InvNextFrame ==
  ASSUME IInv, NEW s \in Socket, NextFrame(s)
  PROVE  IInv'
<1>. USE DEF Verified, Ended
<1>1. TypeOK /\ TypeOK' /\ Sound(s) /\ sends \in Nat
  BY TypeNextFrame, Ids DEF IInv
<1>2. /\ ws' = ws /\ known' = known /\ listed' = listed /\ state' = state /\ session' = session
      /\ lane' = lane /\ got' = got /\ sends' = sends /\ peer' = peer /\ faulty' = faulty
  BY DEF NextFrame, client
<1>3. /\ \A t \in Socket \ {s} : chain'[t] = chain[t] /\ step'[t] = step[t]
      /\ step[s] = "idle" /\ chain[s] # <<>>
      /\ \/ Ended(s) /\ step'[s] = "idle"
         \/ ~Ended(s) /\ step'[s] = "verify" /\ chain' = chain
  BY <1>1 DEF NextFrame, TypeOK
<1>4. Presence(s)'
  BY <1>1, <1>2, <1>3 DEF Sound, Presence
<1>5. Handed(s)'
  BY <1>1, <1>2, <1>3 DEF Sound, Handed
<1>6. Quiet(s)'
  BY <1>1, <1>2 DEF Sound, Quiet
<1>7. Queued(s)'
  BY <1>1, <1>2, <1>3 DEF Sound, Queued, Expected
<1>8. Unsigned(s)' /\ Ordered(s)'
  BY <1>1, <1>2, LaneKept
<1>9. \A t \in Socket \ {s} : Unmoved(t)
  BY <1>1, <1>2, <1>3 DEF Unmoved
<1>10. FeaturesAreOfPeer'
  BY <1>2 DEF IInv, FeaturesAreOfPeer
<1>. QED
  BY <1>1, <1>4, <1>5, <1>6, <1>7, <1>8, <1>9, <1>10, OnlyOneMoves DEF Sound

\* HelloVerified keeps IInv.
LEMMA InvHelloVerified ==
  ASSUME IInv, NEW s \in Socket, HelloVerified(s)
  PROVE  IInv'
<1>. USE DEF Verified, Ended
<1>1. TypeOK /\ TypeOK' /\ Sound(s) /\ sends \in Nat
  BY TypeHelloVerified, Ids DEF IInv
<1>2. /\ ws' = ws /\ known' = known /\ listed' = listed /\ state' = state /\ chain' = chain
      /\ lane' = lane /\ got' = got /\ sends' = sends /\ peer' = peer /\ faulty' = faulty
  BY DEF HelloVerified, client
<1>3. /\ \A t \in Socket \ {s} : session'[t] = session[t] /\ step'[t] = step[t]
      /\ step[s] = "verify" /\ ~Verified(s) /\ step'[s] = "open" /\ session'[s].verified
      /\ session'[s].closed = session[s].closed /\ session'[s].lastSeq = session[s].lastSeq
      /\ session'[s].failure = session[s].failure
  BY <1>1 DEF HelloVerified, TypeOK
<1>4. Presence(s)'
  BY <1>1, <1>2, <1>3 DEF Sound, Presence
<1>5. Handed(s)'
  BY <1>1, <1>2, <1>3 DEF Sound, Handed
<1>6. Quiet(s)'
  BY <1>1, <1>2, <1>3 DEF Sound, Quiet
<1>7. Queued(s)'
  <2>1. Expected(s)' = Expected(s)
    BY <1>3 DEF Expected
  <2>. QED
    BY <1>1, <1>2, <1>3, <2>1 DEF Sound, Queued
<1>8. Unsigned(s)' /\ Ordered(s)'
  BY <1>1, <1>2, LaneKept
<1>9. \A t \in Socket \ {s} : Unmoved(t)
  BY <1>1, <1>2, <1>3 DEF Unmoved
<1>10. FeaturesAreOfPeer'
  BY <1>2 DEF IInv, FeaturesAreOfPeer
<1>. QED
  BY <1>1, <1>4, <1>5, <1>6, <1>7, <1>8, <1>9, <1>10, OnlyOneMoves DEF Sound

\* When the frame at the head was the expected one, the next one is expected.
LEMMA QueueAdvances ==
  ASSUME IInv, TypeOK', NEW s \in Socket, step[s] # "idle", Done(s), peer' = peer, faulty' = faulty,
         Expected(s)' = Expected(s) + 1,
         session'[s].failure = session[s].failure, session'[s].closed = session[s].closed
  PROVE  Queued(s)'
<1>. USE DEF Ended
<1>1. TypeOK /\ Sound(s)
  BY DEF IInv
<1>2. chain'[s] = Tail(chain[s]) /\ chain[s] # <<>>
  BY <1>1 DEF Done, TypeOK
<1>3. Expected(s) \in Nat
  BY <1>1, ExpectedType
<1>4. session'[s].failure = "identity" => faulty'[s]
  BY <1>1 DEF Sound, Queued
<1>5. ASSUME ~faulty[s]
      PROVE  /\ peer'[s].next = Expected(s)' + Len(chain'[s])
             /\ \A i \in 1 .. Len(chain'[s]) :
                  chain'[s][i].intact /\ chain'[s][i].n + 1 = Expected(s)' + i
  <2>1. /\ peer[s].next = Expected(s) + Len(chain[s])
        /\ \A i \in 1 .. Len(chain[s]) :
             chain[s][i].intact /\ chain[s][i].n + 1 = Expected(s) + i
    BY <1>1, <1>5 DEF Sound, Queued
  <2>2. /\ Len(chain[s]) \in Nat /\ Len(chain[s]) > 0 /\ Len(chain'[s]) = Len(chain[s]) - 1
        /\ \A i \in 1 .. Len(chain'[s]) :
             i + 1 \in 1 .. Len(chain[s]) /\ chain'[s][i] = chain[s][i + 1]
    BY <1>1, <1>2, ChainElements
  <2>3. peer'[s].next = Expected(s)' + Len(chain'[s])
    BY <1>3, <2>1, <2>2
  <2>4. \A i \in 1 .. Len(chain'[s]) :
          chain'[s][i].intact /\ chain'[s][i].n + 1 = Expected(s)' + i
    <3>. SUFFICES ASSUME NEW i \in 1 .. Len(chain'[s])
                  PROVE  chain'[s][i].intact /\ chain'[s][i].n + 1 = Expected(s)' + i
      OBVIOUS
    <3>1. chain'[s][i].intact /\ chain'[s][i].n + 1 = Expected(s) + (i + 1) /\ i \in Nat
      BY <2>1, <2>2
    <3>. QED
      BY <1>3, <3>1
  <2>. QED
    BY <2>3, <2>4
<1>. QED
  BY <1>4, <1>5 DEF Queued

\* Opened keeps IInv.
LEMMA InvOpened ==
  ASSUME IInv, NEW s \in Socket, Opened(s)
  PROVE  IInv'
<1>. USE DEF Verified, Ended
<1>1. TypeOK /\ TypeOK' /\ Sound(s) /\ sends \in Nat
  BY TypeOpened, Ids DEF IInv
<1>2. /\ ws' = ws /\ known' = known /\ listed' = listed /\ state' = state
      /\ lane' = lane /\ got' = got /\ sends' = sends /\ peer' = peer /\ faulty' = faulty
  BY DEF Opened, client
<1>3. /\ \A t \in Socket \ {s} : /\ session'[t] = session[t] /\ step'[t] = step[t]
                                 /\ chain'[t] = chain[t]
      /\ step[s] = "open" /\ Done(s) /\ step'[s] = "idle"
      /\ session'[s].verified = session[s].verified /\ session'[s].started = (ws = s)
      /\ session'[s].closed = session[s].closed /\ session'[s].lastSeq = session[s].lastSeq
      /\ session'[s].failure = session[s].failure
  BY <1>1 DEF Opened, Done, TypeOK
<1>4. Verified(s) /\ session[s].lastSeq = 0
  BY <1>1, <1>3 DEF Sound, Handed
<1>5. Presence(s)'
  BY <1>1, <1>2, <1>3 DEF Sound, Presence
<1>6. Handed(s)'
  BY <1>1, <1>2, <1>3, <1>4 DEF Sound, Handed
<1>7. Quiet(s)'
  BY <1>1, <1>2, <1>3 DEF Sound, Quiet
<1>8. Queued(s)'
  <2>1. Expected(s)' = Expected(s) + 1
    BY <1>3, <1>4 DEF Expected
  <2>. QED
    BY <1>1, <1>2, <1>3, <2>1, QueueAdvances
<1>9. Unsigned(s)' /\ Ordered(s)'
  BY <1>1, <1>2, LaneKept
<1>10. \A t \in Socket \ {s} : Unmoved(t)
  BY <1>1, <1>2, <1>3 DEF Unmoved
<1>11. FeaturesAreOfPeer'
  BY <1>2 DEF IInv, FeaturesAreOfPeer
<1>. QED
  BY <1>1, <1>5, <1>6, <1>7, <1>8, <1>9, <1>10, <1>11, OnlyOneMoves DEF Sound

\* The held reports, released behind what is in a queue without reports: they
\* are in order, and unsigned only when the peer does not understand more.
LEMMA ReleasedQueue ==
  ASSUME NEW l \in Lane, NEW signs \in BOOLEAN, NEW q \in Seq(Item), NEW n \in Nat,
         \A i \in 1 .. Len(q) : q[i].id <= n,
         \A i, j \in 1 .. Len(q) : i < j => Before(q[i], q[j]),
         \A i \in 1 .. Len(l.held) : l.held[i] <= n,
         \A i, j \in 1 .. Len(l.held) : i < j => l.held[i] < l.held[j],
         l.held # <<>> => \A i \in 1 .. Len(q) : ~q[i].report,
         \A i \in 1 .. Len(q) : q[i].report /\ q[i].how = "plain" => ~signs
  PROVE  LET r == q \o Late(l, signs) IN
         /\ \A i \in 1 .. Len(r) : r[i].id <= n
         /\ \A i, j \in 1 .. Len(r) : i < j => Before(r[i], r[j])
         /\ \A i \in 1 .. Len(r) : r[i].report /\ r[i].how = "plain" => ~signs
         /\ \A i \in 1 .. Len(r) : \/ i \in 1 .. Len(q) /\ r[i] = q[i]
                                   \/ l.held # <<>> /\ r[i].late
<1>. DEFINE late == Late(l, signs)
            r == q \o late
            item(i) == [id |-> l.held[i], report |-> TRUE, late |-> TRUE,
                        how |-> IF signs THEN "signing" ELSE "plain"]
<1>1. /\ late \in Seq(Item) /\ Len(late) = Len(l.held) /\ Len(q) \in Nat /\ Len(l.held) \in Nat
      /\ \A i \in 1 .. Len(l.held) : late[i] = item(i)
  BY LateType, LaneFields, LenProperties
<1>2. \A i \in 1 .. Len(l.held) :
        /\ late[i].id = l.held[i] /\ late[i].report /\ late[i].late
        /\ late[i].how = "plain" => ~signs
  <2>1. \A i \in 1 .. Len(l.held) :
          /\ item(i).id = l.held[i] /\ item(i).report /\ item(i).late
          /\ item(i).how = "plain" => ~signs
    OBVIOUS
  <2>. QED
    BY <1>1, <2>1
<1>. HIDE DEF late
<1>3. /\ Len(r) = Len(q) + Len(late)
      /\ \A i \in 1 .. Len(r) : r[i] = IF i <= Len(q) THEN q[i] ELSE late[i - Len(q)]
  <2>1. /\ Len(r) = Len(q) + Len(late)
        /\ \A i \in 1 .. Len(q) + Len(late) : r[i] = IF i <= Len(q) THEN q[i] ELSE late[i - Len(q)]
    BY <1>1, ConcatProperties, ZenonT(60)
  <2>. HIDE DEF r
  <2>. QED
    BY <2>1
<1>. HIDE DEF r, item
<1>4. ASSUME NEW i \in 1 .. Len(r)
      PROVE  \/ i \in 1 .. Len(q) /\ r[i] = q[i]
             \/ /\ i > Len(q) /\ i - Len(q) \in 1 .. Len(l.held) /\ l.held # <<>>
                /\ r[i].id = l.held[i - Len(q)] /\ r[i].report /\ r[i].late
                /\ r[i].how = "plain" => ~signs
  <2>1. CASE i <= Len(q)
    BY <1>1, <1>3, <2>1
  <2>2. CASE ~(i <= Len(q))
    <3>1. i - Len(q) \in 1 .. Len(l.held) /\ i > Len(q) /\ Len(l.held) # 0
      BY <1>1, <1>3, <2>2
    <3>2. r[i] = late[i - Len(q)]
      BY <1>3, <2>2
    <3>3. l.held # <<>>
      BY <3>1, EmptySeq
    <3>. QED
      BY <1>2, <3>1, <3>2, <3>3
  <2>. QED
    BY <2>1, <2>2
<1>5. \A i \in 1 .. Len(r) : r[i].id <= n
  BY <1>4
<1>6. ASSUME NEW i \in 1 .. Len(r), NEW j \in 1 .. Len(r), i < j
      PROVE  Before(r[i], r[j])
  <2>1. CASE i \in 1 .. Len(q) /\ r[i] = q[i]
    <3>1. CASE j \in 1 .. Len(q) /\ r[j] = q[j]
      BY <1>6, <2>1, <3>1
    <3>2. CASE l.held # <<>> /\ r[j].late
      BY <2>1, <3>2 DEF Before
    <3>. QED
      BY <1>4, <3>1, <3>2
  <2>2. CASE i > Len(q)
    <3>1. j > Len(q) /\ i \notin 1 .. Len(q) /\ j \notin 1 .. Len(q)
      BY <1>1, <1>6, <2>2
    <3>2. /\ i - Len(q) \in 1 .. Len(l.held) /\ j - Len(q) \in 1 .. Len(l.held)
          /\ r[i].id = l.held[i - Len(q)] /\ r[j].id = l.held[j - Len(q)]
      BY <1>4, <3>1
    <3>3. i - Len(q) < j - Len(q)
      BY <1>1, <1>6
    <3>. QED
      BY <3>2, <3>3 DEF Before
  <2>. QED
    BY <1>4, <2>1, <2>2
<1>7. \A i \in 1 .. Len(r) : r[i].report /\ r[i].how = "plain" => ~signs
  BY <1>4
<1>8. \A i \in 1 .. Len(r) : (i \in 1 .. Len(q) /\ r[i] = q[i]) \/ (l.held # <<>> /\ r[i].late)
  BY <1>4
<1>. QED
  BY <1>5, <1>6, <1>7, <1>8 DEF r, late

\* The lane of the current socket when the attach frame tells the features.
LEMMA ReleaseSound ==
  ASSUME IInv, NEW s \in Socket, ws = s, ws' = s, known' = TRUE, sends' = sends, peer' = peer,
         lane' = [lane EXCEPT ![s] = Release(lane[s], peer[s].signs)]
  PROVE  /\ Unsigned(s)' /\ Ordered(s)' /\ lane'[s].held = <<>>
         /\ lane[s] = [held |-> <<>>, out |-> <<>>, wire |-> <<>>] =>
              lane'[s].out = <<>> /\ lane'[s].wire = <<>>
<1>. DEFINE l == lane[s]
            m == lane'[s]
            signs == peer[s].signs
            late == Late(l, signs)
<1>1. TypeOK /\ Sound(s) /\ l \in Lane /\ signs \in BOOLEAN /\ sends \in Nat
  BY Ids DEF IInv, TypeOK
<1>2. m = Release(l, signs)
  BY <1>1 DEF TypeOK
<1>3. /\ m.held = <<>>
      /\ \/ m.out = l.out \o late /\ m.wire = l.wire
         \/ l.out = <<>> /\ m.out = l.out /\ m.wire = l.wire \o late
  <2>. HIDE DEF l, m, signs
  <2>. QED
    BY <1>1, <1>2, ReleaseShape
<1>4. /\ l.out \in Seq(Item) /\ l.wire \in Seq(Item) /\ late \in Seq(Item)
      /\ Len(late) = Len(l.held) /\ Len(l.held) \in Nat /\ l.held \in Seq(1 .. MaxSends)
  BY <1>1, LaneFields, LateType
<1>5. /\ \A i \in 1 .. Len(l.held) : l.held[i] <= sends
      /\ \A i, j \in 1 .. Len(l.held) : i < j => l.held[i] < l.held[j]
      /\ \A i \in 1 .. Len(l.wire), j \in 1 .. Len(l.out) : Before(l.wire[i], l.out[j])
  BY <1>1 DEF Sound, Ordered
<1>6. l.held # <<>> => ~known
  BY <1>1 DEF Sound, Quiet
<1>7. ASSUME NEW q \in {l.out, l.wire}
      PROVE  /\ \A i \in 1 .. Len(q) : q[i].id <= sends
             /\ \A i, j \in 1 .. Len(q) : i < j => Before(q[i], q[j])
             /\ l.held # <<>> => \A i \in 1 .. Len(q) : ~q[i].report
             /\ \A i \in 1 .. Len(q) : q[i].report /\ q[i].how = "plain" => ~signs
  <2>1. /\ \A i \in 1 .. Len(q) : q[i].id <= sends
        /\ \A i, j \in 1 .. Len(q) : i < j => Before(q[i], q[j])
    BY <1>1 DEF Sound, Ordered
  <2>2. \A i \in 1 .. Len(q) : q[i].report => known /\ (q[i].how = "plain" => ~signs)
    BY <1>1 DEF Sound, Unsigned
  <2>. QED
    BY <1>6, <2>1, <2>2
<1>. DEFINE Good(q) == /\ \A i \in 1 .. Len(q) : q[i].id <= sends
                       /\ \A i, j \in 1 .. Len(q) : i < j => Before(q[i], q[j])
                       /\ \A i \in 1 .. Len(q) : q[i].report /\ q[i].how = "plain" => ~signs
<1>8. Good(l.out) /\ Good(l.wire)
  BY <1>7
<1>9. ASSUME NEW q \in {l.out, l.wire}
      PROVE  /\ Good(q \o late)
             /\ \A i \in 1 .. Len(q \o late) : \/ i \in 1 .. Len(q) /\ (q \o late)[i] = q[i]
                                               \/ l.held # <<>> /\ (q \o late)[i].late
  <2>1. q \in Seq(Item)
    BY <1>4
  <2>. HIDE DEF l, signs
  <2>. QED
    BY <1>1, <1>5, <1>7, <2>1, ReleasedQueue
<1>. HIDE DEF l, m, late, signs
<1>10. Good(m.out) /\ Good(m.wire)
  <2>. HIDE DEF Good
  <2>. QED
    BY <1>3, <1>8, <1>9
<1>11. ASSUME NEW i \in 1 .. Len(m.wire), NEW j \in 1 .. Len(m.out)
       PROVE  Before(m.wire[i], m.out[j])
  <2>1. CASE m.out = l.out \o late /\ m.wire = l.wire
    <3>. HIDE DEF Good
    <3>1. CASE j \in 1 .. Len(l.out) /\ m.out[j] = l.out[j]
      BY <1>5, <2>1, <3>1
    <3>2. CASE l.held # <<>> /\ m.out[j].late
      <4>1. ~m.wire[i].report
        BY <1>7, <2>1, <3>2
      <4>. QED
        BY <3>2, <4>1 DEF Before
    <3>. QED
      BY <1>9, <2>1, <3>1, <3>2
  <2>2. CASE l.out = <<>> /\ m.out = l.out
    BY <2>2, EmptySeq
  <2>. QED
    BY <1>3, <2>1, <2>2
<1>12. Unsigned(s)'
  BY <1>10 DEF Unsigned, m, signs
<1>13. Ordered(s)'
  <2>1. Len(<<>>) = 0
    BY EmptySeq
  <2>2. /\ \A i \in 1 .. Len(m.held) : m.held[i] <= sends
        /\ \A i, j \in 1 .. Len(m.held) : i < j => m.held[i] < m.held[j]
    BY <1>3, <2>1
  <2>. QED
    BY <1>10, <1>11, <2>2 DEF Ordered, m
<1>14. ASSUME l = [held |-> <<>>, out |-> <<>>, wire |-> <<>>]
       PROVE  m.out = <<>> /\ m.wire = <<>>
  <2>1. l.held = <<>> /\ l.out = <<>> /\ l.wire = <<>>
    BY <1>14
  <2>2. late = <<>>
    BY <1>4, <2>1, EmptySeq
  <2>3. <<>> \o <<>> = <<>>
    BY ConcatEmptySeq, EmptySeq
  <2>. QED
    BY <1>3, <2>1, <2>2, <2>3
<1>. QED
  BY <1>3, <1>12, <1>13, <1>14 DEF l, m

\* A frame that verified is the next one; the client gets it on the current
\* socket only, and the attach frame tells the features.
LEMMA InvFrameVerified ==
  ASSUME IInv, NEW s \in Socket, FrameVerified(s)
  PROVE  IInv'
<1>. USE DEF Verified, Ended
<1>. DEFINE n == chain[s][1].n
<1>1. TypeOK /\ TypeOK' /\ Sound(s) /\ sends \in Nat
  BY TypeFrameVerified, Ids DEF IInv
<1>2. /\ ws' = ws /\ state' = state /\ sends' = sends /\ peer' = peer /\ faulty' = faulty
      /\ step[s] = "verify" /\ Verified(s) /\ Done(s) /\ n = session[s].lastSeq + 1
  BY DEF FrameVerified, Verifies
<1>3. /\ \A t \in Socket \ {s} : /\ session'[t] = session[t] /\ step'[t] = step[t]
                                 /\ chain'[t] = chain[t]
      /\ step'[s] = "idle"
      /\ session'[s].verified = session[s].verified /\ session'[s].started = session[s].started
      /\ session'[s].closed = session[s].closed /\ session'[s].lastSeq = n
      /\ session'[s].failure = session[s].failure
  <2>1. /\ chain' = [chain EXCEPT ![s] = Tail(@)] /\ step' = [step EXCEPT ![s] = "idle"]
        /\ session' = [session EXCEPT ![s].lastSeq = n]
    BY DEF FrameVerified, Done
  <2>. HIDE DEF n
  <2>2. \A t \in Socket \ {s} : step'[t] = step[t] /\ chain'[t] = chain[t]
    BY <1>1, <2>1 DEF TypeOK
  <2>3. step'[s] = "idle"
    BY <1>1, <2>1 DEF TypeOK
  <2>. QED
    BY <1>1, <2>1, <2>2, <2>3 DEF TypeOK
<1>4. session[s].lastSeq \in Nat /\ n \in 1 .. MaxFrames
  <2>1. chain[s] \in Seq(Frame) /\ chain[s] # <<>> /\ session[s].lastSeq \in Nat
    BY <1>1, <1>2, Bounds DEF TypeOK
  <2>2. n \in 0 .. MaxFrames
    BY <1>1, <2>1, TailType, TypeParts DEF Frame
  <2>. QED
    BY <1>2, <2>1, <2>2, Bounds
<1>5. \/ ws # s /\ got' = got /\ known' = known /\ listed' = listed /\ lane' = lane
      \/ /\ ws = s /\ got' = [got EXCEPT ![s] = Append(got[s], n)]
         /\ \/ known' = known /\ listed' = listed /\ lane' = lane
            \/ /\ known' = TRUE /\ listed' = peer[s].signs
               /\ lane' = [lane EXCEPT ![s] = Release(lane[s], peer[s].signs)]
  BY DEF FrameVerified, Current
<1>6. /\ \A t \in Socket \ {s} : lane'[t] = lane[t] /\ got'[t] = got[t]
      /\ ws # s => got'[s] = got[s] /\ lane'[s] = lane[s]
      /\ ws = s => got'[s] = Append(got[s], n)
  BY <1>1, <1>5 DEF TypeOK
<1>7. /\ Unsigned(s)' /\ Ordered(s)' /\ lane'[s].held \in {lane[s].held, <<>>}
      /\ known' => known \/ lane'[s].held = <<>>
  <2>1. CASE lane' = lane /\ known' = known
    BY <1>1, <1>2, <2>1, LaneKept
  <2>2. CASE /\ ws = s /\ known' = TRUE
             /\ lane' = [lane EXCEPT ![s] = Release(lane[s], peer[s].signs)]
    BY <1>2, <2>2, ReleaseSound
  <2>. QED
    BY <1>5, <2>1, <2>2
<1>8. Presence(s)'
  BY <1>1, <1>2, <1>3, <1>6 DEF Sound, Presence
<1>9. Handed(s)'
  <2>1. ASSUME ws = s
        PROVE  /\ Len(got'[s]) = n /\ \A i \in 1 .. Len(got'[s]) : got'[s][i] = i
               /\ session[s].started
    <3>. DEFINE g == got[s]
    <3>1. /\ Len(g) = session[s].lastSeq /\ \A i \in 1 .. Len(g) : g[i] = i
          /\ session[s].started
      BY <1>1, <1>2, <2>1 DEF Sound, Handed
    <3>2. g \in Seq(1 .. MaxFrames)
      BY <1>1 DEF TypeOK
    <3>. HIDE DEF g
    <3>3. /\ Len(Append(g, n)) = n /\ \A i \in 1 .. Len(g) : Append(g, n)[i] = i
          /\ Append(g, n)[n] = n
      BY <1>2, <1>4, <3>1, <3>2, Appended
    <3>4. \A i \in 1 .. n : i \in 1 .. Len(g) \/ i = n
      BY <1>2, <1>4, <3>1
    <3>5. got'[s] = Append(g, n)
      BY <1>6, <2>1 DEF g
    <3>. QED
      BY <3>1, <3>3, <3>4, <3>5
  <2>. QED
    BY <1>2, <1>3, <2>1 DEF Handed
<1>10. Queued(s)'
  <2>1. Expected(s)' = Expected(s) + 1
    BY <1>2, <1>3, <1>4 DEF Expected
  <2>. QED
    BY <1>1, <1>2, <1>3, <2>1, QueueAdvances
<1>11. Quiet(s)'
  BY <1>1, <1>2, <1>3, <1>7 DEF Sound, Quiet
<1>12. \A t \in Socket \ {s} : Unmoved(t)
  BY <1>1, <1>2, <1>3, <1>5, <1>6 DEF Unmoved
<1>13. FeaturesAreOfPeer'
  BY <1>2, <1>5 DEF IInv, FeaturesAreOfPeer
<1>. QED
  BY <1>1, <1>7, <1>8, <1>9, <1>10, <1>11, <1>12, <1>13, OnlyOneMoves DEF Sound

-----------------------------------------------------------------------------
(***************************************************************************)
(* The theorems.                                                           *)
(***************************************************************************)
\* No socket has been opened yet: the invariant holds.
LEMMA InvInit == Init => IInv
<1>. SUFFICES ASSUME Init PROVE IInv
  OBVIOUS
<1>. USE DEF Verified, Ended
<1>1. TypeOK
  BY InitType
<1>2. FeaturesAreOfPeer
  BY DEF Init, FeaturesAreOfPeer
<1>3. ASSUME NEW s \in Socket
      PROVE  Sound(s)
  <2>1. /\ ws # s /\ state[s] = "new" /\ session[s] = Fresh /\ peer[s].next = 0 /\ ~faulty[s]
        /\ lane[s] = [held |-> <<>>, out |-> <<>>, wire |-> <<>>]
        /\ chain[s] = <<>> /\ step[s] = "idle" /\ got[s] = <<>>
    BY Bounds DEF Init
  <2>2. /\ ~session[s].verified /\ ~session[s].closed /\ session[s].lastSeq = 0
        /\ session[s].failure = "none" /\ Len(<<>>) = 0
    BY <2>1, EmptySeq DEF Fresh
  <2>3. Presence(s)
    BY <2>1, <2>2 DEF Presence
  <2>4. Handed(s)
    BY <2>1, <2>2 DEF Handed
  <2>5. Queued(s)
    BY <2>1, <2>2 DEF Queued, Expected
  <2>6. Quiet(s)
    BY <2>1, <2>2 DEF Quiet
  <2>7. Unsigned(s)
    BY <2>1, <2>2 DEF Unsigned
  <2>8. Ordered(s)
    BY <2>1, <2>2 DEF Ordered
  <2>. QED
    BY <2>3, <2>4, <2>5, <2>6, <2>7, <2>8 DEF Sound
<1>. QED
  BY <1>1, <1>2, <1>3 DEF IInv

\* Every step keeps it.
LEMMA InvNext == IInv /\ [Next]_vars => IInv'
<1>. SUFFICES ASSUME IInv, [Next]_vars PROVE IInv'
  OBVIOUS
<1>1. CASE UNCHANGED vars
  <2>1. TypeOK' /\ FeaturesAreOfPeer'
    BY <1>1 DEF IInv, TypeOK, FeaturesAreOfPeer, vars, client, inbound
  <2>2. ASSUME NEW t \in Socket PROVE Unmoved(t) /\ Sound(t) /\ TypeOK
    <3>1. sends \in Nat
      BY Ids DEF IInv
    <3>. QED
      BY <1>1, <3>1 DEF IInv, Unmoved, vars, client, inbound
  <2>. QED
    BY <2>1, <2>2, UnmovedSound DEF IInv
<1>2. ASSUME NEW report \in BOOLEAN, Send(report) PROVE IInv'
  <2>1. ws \in Socket
    BY <1>2 DEF Send, IInv, TypeOK
  <2>. QED
    BY <1>2, <2>1, InvSend
<1>3. ASSUME NEW s \in Socket,
             \/ Connect(s) \/ HelloTimeout(s) \/ (\E refused \in BOOLEAN : Closed(s, refused))
             \/ (\E i \in 1 .. MaxSends : Sign(s, i)) \/ Leave(s)
      PROVE  IInv'
  BY <1>3, InvConnect, InvHelloTimeout, InvClosed, InvSign, InvLeave
<1>4. ASSUME NEW s \in Socket,
             \/ Arrive(s) \/ NextFrame(s)
             \/ HelloVerified(s) \/ Opened(s) \/ FrameVerified(s) \/ Refuse(s)
      PROVE  IInv'
  BY <1>4, InvArrive, InvNextFrame, InvHelloVerified, InvOpened, InvFrameVerified, InvRefuse
<1>. QED
  BY <1>1, <1>2, <1>3, <1>4 DEF Next

\* The inductive invariant holds throughout.
THEOREM Invariance == Spec => []IInv
BY InvInit, InvNext, PTL DEF Spec

\* handleRaw and #dispatchRawMessage: on every socket the client is given the
\* frames 1, 2, 3, ... of the control plane without a gap or a repetition, and
\* not before onVerified has started the session's work.
THEOREM FramesInSequence == Spec => []InSequence
<1>1. IInv => InSequence
  <2>. SUFFICES ASSUME IInv, NEW s \in Socket
                PROVE  /\ got[s] = [i \in 1 .. Len(got[s]) |-> i]
                       /\ got[s] # <<>> => session[s].started
    BY DEF InSequence
  <2>1. TypeOK /\ Sound(s) /\ got[s] \in Seq(1 .. MaxFrames)
    BY DEF IInv, TypeOK
  <2>2. CASE ws # s
    <3>1. got[s] = <<>>
      BY <2>1, <2>2 DEF Sound, Presence
    <3>2. Len(<<>>) = 0 /\ <<>> = [i \in 1 .. 0 |-> i]
      OBVIOUS
    <3>. QED
      BY <3>1, <3>2
  <2>3. CASE ws = s
    <3>1. /\ Len(got[s]) = session[s].lastSeq /\ \A i \in 1 .. Len(got[s]) : got[s][i] = i
          /\ Verified(s) /\ step[s] # "open" => session[s].started
          /\ ~Verified(s) \/ step[s] = "open" => session[s].lastSeq = 0
      BY <2>1, <2>3 DEF Sound, Handed
    <3>2. got[s] \in [1 .. Len(got[s]) -> 1 .. MaxFrames]
      BY <2>1, LenProperties
    <3>3. got[s] = [i \in 1 .. Len(got[s]) |-> i]
      BY <3>1, <3>2
    <3>4. got[s] # <<>> => Len(got[s]) # 0
      BY <2>1, EmptySeq
    <3>. QED
      BY <3>1, <3>3, <3>4
  <2>. QED
    BY <2>2, <2>3
<1>. QED
  BY <1>1, Invariance, PTL

\* #fail and noteClosed: a session is judged to be without the panel's key, and
\* the client parks, only when a frame really was damaged or the proof refused;
\* lost, late and overlapping work of any amount does not lead there.
THEOREM RefusalsAreReal == Spec => []NoFalseRefusal
<1>1. IInv => NoFalseRefusal
  BY DEF IInv, Sound, Queued, NoFalseRefusal
<1>. QED
  BY <1>1, Invariance, PTL

\* send, peerFeaturesKnown and #sendVerified: no report reaches a control plane
\* that understands signatures in the clear, unless its signature failed.
THEOREM ReportsAreSigned == Spec => []NoUnsignedReport
<1>1. IInv => NoUnsignedReport
  <2>. SUFFICES ASSUME IInv, NEW s \in Socket, NEW item \in Range(lane[s].wire),
                       item.report, item.how = "plain"
                PROVE  ~peer[s].signs
    BY DEF NoUnsignedReport
  <2>1. TypeOK /\ Sound(s) /\ lane[s] \in Lane
    BY DEF IInv, TypeOK
  <2>2. PICK i \in 1 .. Len(lane[s].wire) : item = lane[s].wire[i]
    BY <2>1, LaneFields, LenProperties DEF Range
  <2>. QED
    BY <2>1, <2>2 DEF Sound, Unsigned
<1>. QED
  BY <1>1, Invariance, PTL

\* #sendVerified: the sends leave in their order, however long each signature
\* takes; the reports that waited for the attach frame keep theirs.
THEOREM OrderKept == Spec => []SendOrderKept
<1>1. IInv => SendOrderKept
  <2>. SUFFICES ASSUME IInv, NEW s \in Socket,
                       NEW i \in DOMAIN lane[s].wire, NEW j \in DOMAIN lane[s].wire, i < j
                PROVE  Before(lane[s].wire[i], lane[s].wire[j])
    BY DEF SendOrderKept, Before
  <2>1. Sound(s) /\ lane[s] \in Lane
    BY DEF IInv, TypeOK
  <2>2. DOMAIN lane[s].wire = 1 .. Len(lane[s].wire)
    BY <2>1, LaneFields, LenProperties
  <2>. QED
    BY <2>1, <2>2 DEF Sound, Ordered
<1>. QED
  BY <1>1, Invariance, PTL

\* Where the wire of a socket may grow: the three places that call socket.send.
LEMMA WireGrows ==
  ASSUME IInv, [Next]_vars, NEW s \in Socket, Len(lane'[s].wire) > Len(lane[s].wire)
  PROVE  session[s].verified /\ ~session[s].closed /\ state[s] = "open"
<1>. USE DEF Verified, Ended
<1>1. /\ TypeOK /\ Sound(s) /\ lane \in [Socket -> Lane] /\ Len(lane[s].wire) \in Nat
      /\ lane[s] \in Lane /\ Len(<<>>) = 0
  BY Ids, LaneFields, EmptySeq DEF IInv, TypeOK
<1>2. lane'[s].wire # lane[s].wire /\ lane'[s].wire # <<>> /\ lane' # lane
  BY <1>1
<1>3. ASSUME NEW report \in BOOLEAN, Send(report)
      PROVE  session[s].verified /\ ~session[s].closed /\ state[s] = "open"
  <2>1. ws \in Socket
    BY <1>1, <1>3 DEF Send, TypeOK
  <2>2. CASE ws = s
    BY <1>2, <1>3, <2>2 DEF Send
  <2>3. CASE ws # s
    <3>1. lane'[s] = lane[s]
      BY <1>1, <1>3, <2>1, <2>3 DEF Send
    <3>. QED
      BY <1>2, <3>1
  <2>. QED
    BY <2>2, <2>3
<1>4. ASSUME NEW t \in Socket, NEW failure, Fails(t, failure)
      PROVE  FALSE
  <2>1. lane'[s].wire = lane[s].wire
    BY <1>1, <1>4 DEF Fails, Lane
  <2>. QED
    BY <1>2, <2>1
<1>5. ASSUME NEW t \in Socket, NEW refused \in BOOLEAN, Closed(t, refused)
      PROVE  FALSE
  <2>1. lane' = [lane EXCEPT ![t].held = <<>>, ![t].wire = <<>>]
    BY <1>5 DEF Closed
  <2>2. lane'[s].wire = <<>> \/ lane'[s] = lane[s]
    BY <1>1, <2>1 DEF Lane
  <2>. QED
    BY <1>2, <2>2
<1>6. ASSUME NEW t \in Socket, NEW i \in 1 .. MaxSends, Sign(t, i)
      PROVE  FALSE
  <2>1. PICK l \in Lane : lane' = [lane EXCEPT ![t] = l] /\ l.wire = lane[t].wire
    BY <1>1, <1>6, SignShape
  <2>2. lane'[s] = IF t = s THEN l ELSE lane[s]
    BY <1>1, <2>1
  <2>. QED
    BY <1>2, <2>1, <2>2
<1>7. ASSUME NEW t \in Socket, Leave(t)
      PROVE  session[s].verified /\ ~session[s].closed /\ state[s] = "open"
  <2>1. /\ t # s => lane'[s] = lane[s]
        /\ t = s /\ ~MayLeave(s) => lane'[s].wire = lane[s].wire
        /\ lane[t].out # <<>>
    BY <1>1, <1>7, LeaveShape DEF Leave
  <2>2. t = s /\ MayLeave(s)
    BY <1>2, <2>1
  <2>3. Verified(s)
    BY <1>1, <2>1, <2>2 DEF Sound, Quiet
  <2>. QED
    BY <2>2, <2>3 DEF MayLeave
<1>8. ASSUME NEW t \in Socket, FrameVerified(t)
      PROVE  session[s].verified /\ ~session[s].closed /\ state[s] = "open"
  <2>1. ws = t /\ lane' = [lane EXCEPT ![t] = Release(lane[t], peer[t].signs)] /\ Verified(t)
    BY <1>2, <1>8 DEF FrameVerified, Current
  <2>2. t = s
    <3>1. t # s => lane'[s] = lane[s]
      BY <1>1, <2>1
    <3>. QED
      BY <1>2, <3>1
  <2>. DEFINE l == lane[s]
              late == Late(l, peer[s].signs)
  <2>3. /\ peer[s].signs \in BOOLEAN /\ l.wire \in Seq(Item) /\ Len(late) = Len(l.held)
        /\ late \in Seq(Item) /\ l.held \in Seq(1 .. MaxSends)
    BY <1>1, LaneFields, LateType, ZenonT(60) DEF TypeOK
  <2>4. lane'[s] = Release(l, peer[s].signs)
    BY <1>1, <2>1, <2>2
  <2>. HIDE DEF l
  <2>5. lane'[s].wire = l.wire \/ lane'[s].wire = l.wire \o late
    BY <1>1, <2>3, <2>4, ReleaseShape, ZenonT(60) DEF l
  <2>. HIDE DEF late
  <2>6. l.held # <<>>
    <3>1. l.held = <<>> => late = <<>>
      BY <1>1, <2>3, EmptySeq
    <3>2. l.held = <<>> => l.wire \o late = l.wire
      BY <2>3, <3>1, ConcatEmptySeq
    <3>. QED
      BY <1>2, <2>5, <3>2 DEF l
  <2>7. ~Ended(s) /\ state[s] \in {"open", "closing"}
    BY <1>1, <2>1, <2>2, <2>6 DEF Sound, Quiet, Presence, l
  <2>. QED
    BY <1>1, <2>1, <2>2, <2>7 DEF Sound, Presence
<1>9. ASSUME NEW t \in Socket,
             \/ Connect(t) \/ Arrive(t) \/ NextFrame(t) \/ HelloVerified(t) \/ Opened(t)
      PROVE  FALSE
  BY <1>2, <1>9 DEF Connect, Arrive, NextFrame, HelloVerified, Opened
<1>10. ASSUME NEW t \in Socket, HelloTimeout(t) \/ Refuse(t)
       PROVE  FALSE
  BY <1>4, <1>10 DEF HelloTimeout, Refuse
<1>11. ~UNCHANGED vars
  BY <1>2 DEF vars
<1>. QED
  BY <1>3, <1>5, <1>6, <1>7, <1>8, <1>9, <1>10, <1>11 DEF Next

\* send, #sendVerified and peerFeaturesKnown: nothing goes out on a socket
\* before its hello verified nor once its session has ended, whatever was still
\* held or being signed at that moment.
THEOREM NothingOutsideSession == Spec => SilentOutsideSession
<1>1. IInv /\ [Next]_vars =>
        [\A s \in Socket : Len(lane[s].wire') > Len(lane[s].wire) =>
           session[s].verified /\ ~session[s].closed /\ state[s] = "open"]_vars
  BY WireGrows
<1>. QED
  BY <1>1, Invariance, PTL DEF Spec, SilentOutsideSession
=============================================================================
