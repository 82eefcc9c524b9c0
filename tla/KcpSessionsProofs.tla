-------------------------- MODULE KcpSessionsProofs --------------------------
(* Proofs about KcpSessions, for any number of streams and of numbers for   *)
(* conversations.                                                           *)
EXTENDS KcpSessions, TLAPS

-----------------------------------------------------------------------------
(* The inductive invariant.                                                 *)

Typed ==
  /\ increment \in Convs
  /\ st \in [Streams -> {"idle", "chosen", "open", "closed", "failed"}]
  /\ conv \in [Streams -> Convs]
  /\ core \in [Streams -> Core]
  /\ sessions \in [Convs -> Entry]
  /\ overlapped \subseteq Streams

\* A number is claimed from the moment it is chosen until its session is buried.
Claims(c) == st[c] = "chosen" \/ Live(c)

\* A stream has a control block exactly after its session was put in the map.
Inserted ==
  \A c \in Streams :
    /\ core[c] = "none" <=> st[c] \in {"idle", "chosen", "failed"}
    /\ st[c] = "idle" => c \notin overlapped

Distinct ==
  \A c, d \in Streams :
    c # d /\ Claims(c) /\ Claims(d) /\ conv[c] = conv[d] => Tangled(conv[c])

Found == \A c \in Streams : Live(c) => sessions[conv[c]] = Active(c) \/ Tangled(conv[c])

Placed ==
  \A k \in Convs : sessions[k].kind = "active" /\ sessions[k].of \in Streams =>
    conv[sessions[k].of] = k /\ core[sessions[k].of] # "none"

IndInv == Typed /\ Inserted /\ Distinct /\ Found /\ Placed

USE SessionsAssumption

\* Counting modulo ConvMod stays within the numbers.
LEMMA ModInConvs == \A m, n \in Nat : (m + n) % ConvMod \in Convs
BY DEF Convs

\* The kinds of entry of a map.
LEMMA EntryFields == \A e \in Entry : e.kind \in {"none", "active", "dead", "old"}
BY DEF Entry

\* What the entry of a session holds.
LEMMA ActiveEntry == \A c \in Streams : Active(c) \in Entry /\ Active(c).kind = "active" /\ Active(c).of = c
BY DEF Entry, Active

\* What a free entry holds.
LEMMA FreeEntry == Free \in Entry /\ Free.kind = "none"
BY DEF Entry, Free

\* At first every entry is free but those that are held.
LEMMA InitInd == Init => IndInv
<1> SUFFICES ASSUME Init PROVE IndInv
  OBVIOUS
<1>1. 1 % ConvMod \in Convs /\ 0 \in Convs
  BY ModInConvs DEF Convs
<1>2. Typed
  BY <1>1 DEF Init, Typed, Core, Entry, Active, Free
<1>3. Inserted /\ Distinct /\ Found
  BY DEF Init, Inserted, Distinct, Found, Claims, Live
<1>4. Placed
  BY DEF Init, Placed, Active, Free
<1> QED
  BY <1>2, <1>3, <1>4 DEF IndInv

-----------------------------------------------------------------------------
(* Choosing a number.                                                       *)

\* A number is chosen that no entry has: whoever claims it has chosen it as well, and overlaps.
LEMMA ChooseInd == ASSUME NEW c \in Streams, IndInv, Choose(c) PROVE IndInv'
<1>1. PICK n \in 0..(ConvMod - 1) :
        /\ sessions[(increment + n) % ConvMod].kind = "none"
        /\ conv' = [conv EXCEPT ![c] = (increment + n) % ConvMod]
        /\ increment' = (increment + n) % ConvMod
  BY DEF Choose
<1>2. (increment + n) % ConvMod \in Convs
  BY ModInConvs DEF IndInv, Typed, Convs
<1>3. PICK k \in Convs : /\ sessions[k].kind = "none"
                        /\ conv' = [conv EXCEPT ![c] = k]
                        /\ increment' = k
  BY <1>1, <1>2
<1>0. /\ st[c] = "idle" /\ st' = [st EXCEPT ![c] = "chosen"]
      /\ core' = core /\ sessions' = sessions
  BY DEF Choose
<1>4. /\ overlapped \subseteq overlapped' /\ overlapped' \subseteq Streams
      /\ \A d \in Streams : st[d] = "chosen" => c \in overlapped' /\ d \in overlapped'
      /\ \A d \in overlapped' \ overlapped : d = c \/ st[d] = "chosen"
  BY DEF Choose, Overlaps, IndInv, Typed
<1>5. core[c] = "none" /\ c \notin overlapped
  BY <1>0, <1>3 DEF IndInv, Inserted
<1>6. Typed'
  BY <1>2, <1>0, <1>3, <1>4 DEF IndInv, Typed
<1>7. Inserted'
  BY <1>0, <1>3, <1>4, <1>5 DEF IndInv, Typed, Inserted
<1>8. ASSUME NEW j \in Convs, Tangled(j) PROVE Tangled(j)'
  BY <1>0, <1>3, <1>4, <1>5, <1>8 DEF IndInv, Typed, Tangled
<1>9. ASSUME NEW d \in Streams, d # c, Claims(d), conv[d] = k PROVE Tangled(k)'
  <2>1. CASE st[d] = "chosen"
    BY <1>0, <1>3, <1>4, <2>1 DEF IndInv, Typed, Tangled
  <2>2. CASE Live(d)
    <3>1. sessions[conv[d]] # Active(d)
      BY <1>0, <1>3, <1>9, ActiveEntry
    <3> QED
      BY <1>2, <1>8, <1>9, <2>2, <3>1 DEF IndInv, Found
  <2> QED
    BY <1>9, <2>1, <2>2 DEF Claims
<1>10. Distinct'
  <2> SUFFICES ASSUME NEW d \in Streams, NEW e \in Streams, d # e,
                      Claims(d)', Claims(e)', conv'[d] = conv'[e]
               PROVE  Tangled(conv[d])'
    BY DEF Distinct
  <2>1. \A f \in Streams : f # c => conv'[f] = conv[f] /\ (Claims(f)' <=> Claims(f))
    BY <1>0, <1>3 DEF IndInv, Typed, Claims, Live
  <2>2. conv'[c] = k
    BY <1>0, <1>3 DEF IndInv, Typed
  <2>3. CASE d = c
    BY <1>9, <2>1, <2>2, <2>3
  <2>4. CASE e = c
    BY <1>9, <2>1, <2>2, <2>4
  <2>5. CASE d # c /\ e # c
    <3>1. conv[d] \in Convs /\ Tangled(conv[d])
      BY <2>1, <2>5 DEF IndInv, Typed, Distinct
    <3> QED
      BY <1>8, <2>1, <2>5, <3>1
  <2> QED
    BY <2>3, <2>4, <2>5
<1>11. Found'
  <2> SUFFICES ASSUME NEW d \in Streams, Live(d)'
               PROVE  (sessions[conv[d]] = Active(d) \/ Tangled(conv[d]))'
    BY DEF Found
  <2>1. d # c /\ Live(d) /\ conv'[d] = conv[d] /\ conv[d] \in Convs
    BY <1>0, <1>3, <1>5 DEF IndInv, Typed, Live
  <2>2. CASE Tangled(conv[d])
    BY <1>8, <2>1, <2>2
  <2>3. CASE sessions[conv[d]] = Active(d)
    BY <1>0, <1>3, <2>1, <2>3 DEF Active
  <2> QED
    BY <2>1, <2>2, <2>3 DEF IndInv, Found
<1>12. Placed'
  BY <1>0, <1>3, <1>5 DEF IndInv, Typed, Placed
<1> QED
  BY <1>6, <1>7, <1>10, <1>11, <1>12 DEF IndInv

-----------------------------------------------------------------------------
(* Steps that choose no number.                                             *)

\* What claims a number after such a step claimed it before, and no entry of an
\* active session is touched.
LEMMA KeepInd ==
  ASSUME IndInv, Typed',
         conv' = conv, overlapped' = overlapped,
         \A c \in Streams :
           /\ Claims(c)' => Claims(c)
           /\ Live(c)' => Live(c)
           /\ core'[c] = "none" <=> core[c] = "none"
           /\ st'[c] \in {"idle", "chosen", "failed"} <=> st[c] \in {"idle", "chosen", "failed"}
           /\ st'[c] = "idle" => st[c] = "idle",
         \A k \in Convs : \/ sessions'[k] = sessions[k]
                          \/ sessions[k].kind # "active" /\ sessions'[k].kind # "active"
  PROVE  IndInv'
<1>1. \A k : Tangled(k)' <=> Tangled(k)
  BY DEF Tangled
<1>2. Inserted'
  BY DEF IndInv, Inserted
<1>3. Distinct'
  BY <1>1 DEF IndInv, Distinct
<1>4. Found'
  <2> SUFFICES ASSUME NEW c \in Streams, Live(c)', ~Tangled(conv[c])
               PROVE  sessions'[conv[c]] = Active(c)
    BY <1>1 DEF Found, Active
  <2>1. sessions[conv[c]] = Active(c) /\ conv[c] \in Convs
    BY DEF IndInv, Typed, Found
  <2> QED
    BY <2>1, ActiveEntry
<1>5. Placed'
  BY DEF IndInv, Placed
<1> QED
  BY <1>2, <1>3, <1>4, <1>5 DEF IndInv

\* The entry that is replaced is of a stream that overlapped.
LEMMA InsertInd == ASSUME NEW c \in Streams, IndInv, Insert(c) PROVE IndInv'
<1>1. /\ st[c] = "chosen" /\ st' = [st EXCEPT ![c] = "open"]
      /\ core' = [core EXCEPT ![c] = "open"]
      /\ sessions' = [sessions EXCEPT ![conv[c]] = Active(c)]
      /\ conv' = conv /\ overlapped' = overlapped /\ increment' = increment
  BY DEF Insert, history
<1>2. core[c] = "none" /\ Claims(c)
  BY <1>1 DEF IndInv, Inserted, Claims
<1>3. Typed'
  BY <1>1, ActiveEntry DEF IndInv, Typed, Core
<1>4. \A k : Tangled(k)' <=> Tangled(k)
  BY <1>1 DEF Tangled
<1>5. \A d \in Streams : d # c => (Claims(d)' <=> Claims(d)) /\ (Live(d)' <=> Live(d))
  BY <1>1 DEF IndInv, Typed, Claims, Live
<1>6. Inserted'
  BY <1>1 DEF IndInv, Typed, Inserted
<1>7. Distinct'
  BY <1>1, <1>2, <1>4, <1>5 DEF IndInv, Distinct
<1>8. Found'
  <2> SUFFICES ASSUME NEW d \in Streams, Live(d)', ~Tangled(conv[d])
               PROVE  sessions'[conv[d]] = Active(d)
    BY <1>1, <1>4 DEF Found, Active
  <2>1. conv[c] \in Convs /\ conv[d] \in Convs
    BY DEF IndInv, Typed
  <2>2. CASE d = c
    BY <1>1, <2>1, <2>2 DEF IndInv, Typed
  <2>3. CASE d # c
    <3>1. Live(d) /\ conv[d] # conv[c]
      BY <1>2, <1>5, <2>3 DEF IndInv, Distinct, Claims
    <3> QED
      BY <1>1, <2>1, <3>1 DEF IndInv, Typed, Found
  <2> QED
    BY <2>2, <2>3
<1>9. Placed'
  <2> SUFFICES ASSUME NEW k \in Convs, sessions'[k].kind = "active", sessions'[k].of \in Streams
               PROVE  conv[sessions'[k].of] = k /\ core'[sessions'[k].of] # "none"
    BY <1>1 DEF Placed
  <2>1. CASE k = conv[c]
    BY <1>1, <2>1, ActiveEntry DEF IndInv, Typed
  <2>2. CASE k # conv[c]
    BY <1>1, <2>2 DEF IndInv, Typed, Placed
  <2> QED
    BY <2>1, <2>2
<1> QED
  BY <1>3, <1>6, <1>7, <1>8, <1>9 DEF IndInv

\* The entry that clean_callback buries is its own, or the number is tangled.
LEMMA CleanInd == ASSUME NEW c \in Streams, IndInv, Clean(c) PROVE IndInv'
<1> DEFINE k == conv[c]  s == sessions[k]
<1>1. /\ core[c] = "ended" /\ Live(c) /\ k \in Convs
      /\ conv' = conv /\ overlapped' = overlapped /\ increment' = increment /\ st' = st
  BY DEF Clean, history, Live, IndInv, Typed
<1>2. \A j : Tangled(j)' <=> Tangled(j)
  BY <1>1 DEF Tangled
<1>3. CASE s.kind # "active"
  <2>1. core' = [core EXCEPT ![c] = "cleaned"] /\ sessions' = sessions
    BY <1>3 DEF Clean, SetCore
  <2>2. Typed'
    BY <1>1, <2>1 DEF IndInv, Typed, Core
  <2> QED
    BY <1>1, <2>1, <2>2, KeepInd DEF IndInv, Typed, Claims, Live
<1>4. CASE s.kind = "active"
  <2>1. /\ sessions' = [sessions EXCEPT ![k].kind = "dead"]
        /\ core' = [core EXCEPT ![c] = "cleaned",
                                ![s.of] = IF s.of = c THEN "cleaned"
                                          ELSE IF @ = "open" THEN "closing" ELSE @]
    BY <1>4 DEF Clean
  <2>2. \A j \in Convs : j # k => sessions'[j] = sessions[j]
    BY <2>1 DEF IndInv, Typed
  <2>3. sessions'[k] \in Entry /\ sessions'[k].kind = "dead"
    BY <1>1, <2>1 DEF IndInv, Typed, Entry
  <2>4. \A d \in Streams : core'[d] = IF d = c THEN "cleaned"
                                      ELSE IF d = s.of /\ core[d] = "open" THEN "closing" ELSE core[d]
    BY <2>1 DEF IndInv, Typed
  <2>5. Typed'
    BY <1>1, <2>1, <2>3 DEF IndInv, Typed, Core
  <2>6. \A d \in Streams : Live(d)' <=> Live(d) /\ d # c
    BY <1>1, <2>4 DEF Live
  <2>7. Inserted'
    BY <1>1, <2>4 DEF IndInv, Inserted
  <2>8. Distinct'
    BY <1>1, <1>2, <2>6 DEF IndInv, Distinct, Claims
  <2>9. Found'
    <3> SUFFICES ASSUME NEW d \in Streams, Live(d)', ~Tangled(conv[d])
                 PROVE  sessions'[conv[d]] = Active(d)
      BY <1>1, <1>2 DEF Found, Active
    <3>1. Live(d) /\ d # c /\ sessions[conv[d]] = Active(d) /\ conv[d] \in Convs
      BY <2>6 DEF IndInv, Typed, Found
    <3>2. conv[d] # k
      BY <1>1, <3>1 DEF IndInv, Distinct, Claims
    <3> QED
      BY <2>2, <3>1, <3>2
  <2>10. Placed'
    <3>1. \A d \in Streams : core[d] # "none" => core'[d] # "none"
      BY <2>4
    <3> QED
      BY <1>1, <2>2, <2>3, <3>1 DEF IndInv, Placed
  <2> QED
    BY <2>5, <2>7, <2>8, <2>9, <2>10 DEF IndInv
<1> QED
  BY <1>3, <1>4

-----------------------------------------------------------------------------
(* The other steps keep to what is claimed.                                 *)

\* Only the state of a stream, or of the listener, changes.
LEMMA CloseStreamInd == ASSUME NEW c \in Streams, IndInv, CloseStream(c) PROVE IndInv'
<1> DEFINE s == sessions[conv[c]]
<1>1. /\ st[c] = "open" /\ st' = [st EXCEPT ![c] = "closed"]
      /\ conv' = conv /\ overlapped' = overlapped /\ increment' = increment /\ sessions' = sessions
  BY DEF CloseStream, history
<1>2. core' = core \/ (core[s.of] = "open" /\ core' = [core EXCEPT ![s.of] = "closing"])
  BY DEF CloseStream, SetCore
<1>3. \A d \in Streams : core'[d] = core[d] \/ (core[d] = "open" /\ core'[d] = "closing")
  BY <1>2 DEF IndInv, Typed
<1>4. Typed'
  BY <1>1, <1>2 DEF IndInv, Typed, Core
<1>5. \A d \in Streams : (Live(d)' <=> Live(d)) /\ (Claims(d)' <=> Claims(d))
  BY <1>1, <1>3 DEF IndInv, Typed, Live, Claims
<1> QED
  BY <1>1, <1>3, <1>4, <1>5, KeepInd DEF IndInv, Typed

\* A datagram moves the block that its number leads to, and no entry but dead ones.
LEMMA ConnectorReceivesInd == ASSUME NEW m \in net, IndInv, ConnectorReceives(m) PROVE IndInv'
<1> DEFINE s == sessions'[m.conv]
<1>1. /\ sessions' = Retain(sessions) /\ st' = st /\ conv' = conv
      /\ overlapped' = overlapped /\ increment' = increment
  BY DEF ConnectorReceives
<1>2. \/ core' = core
      \/ core[s.of] \in {"open", "closing"} /\ core' = [core EXCEPT ![s.of] = "ended"]
  BY DEF ConnectorReceives, SetCore
<1>3. \A d \in Streams :
        core'[d] = core[d] \/ (core[d] \in {"open", "closing"} /\ core'[d] = "ended")
  BY <1>2 DEF IndInv, Typed
<1>4. Typed'
  BY <1>1, <1>2, FreeEntry DEF IndInv, Typed, Core, Retain
<1>5. \A d \in Streams : (Live(d)' <=> Live(d)) /\ (Claims(d)' <=> Claims(d))
  BY <1>1, <1>3 DEF Live, Claims
<1>6. \A k \in Convs : \/ sessions'[k] = sessions[k]
                       \/ sessions[k].kind # "active" /\ sessions'[k].kind # "active"
  BY <1>1, FreeEntry DEF IndInv, Typed, Retain
<1> QED
  BY <1>1, <1>3, <1>4, <1>5, <1>6, KeepInd

\* An entry that ages leads to no live session.
LEMMA AgesInd == ASSUME NEW k \in Convs, IndInv, Ages(k) PROVE IndInv'
<1>1. /\ sessions[k].kind = "dead" /\ sessions' = [sessions EXCEPT ![k].kind = "old"]
      /\ UNCHANGED <<increment, st, conv, core, overlapped>>
  BY DEF Ages
<1>2. sessions'[k] \in Entry /\ sessions'[k].kind = "old"
  BY <1>1 DEF IndInv, Typed, Entry
<1>3. \A j \in Convs : j # k => sessions'[j] = sessions[j]
  BY <1>1 DEF IndInv, Typed
<1>4. Typed'
  BY <1>1, <1>2 DEF IndInv, Typed
<1>5. \A d \in Streams : (Live(d)' <=> Live(d)) /\ (Claims(d)' <=> Claims(d))
  BY <1>1 DEF Live, Claims
<1> QED
  BY <1>1, <1>2, <1>3, <1>4, <1>5, KeepInd

\* A task that ends leaves its entry for the callback.
LEMMA ConnectorStopsInd == ASSUME NEW c \in Streams, IndInv, ConnectorStops(c) PROVE IndInv'
<1>1. /\ core[c] \in {"open", "closing"} /\ core' = [core EXCEPT ![c] = "ended"]
      /\ UNCHANGED <<increment, st, conv, sessions, overlapped>>
  BY DEF ConnectorStops, SetCore
<1>2. Typed'
  BY <1>1 DEF IndInv, Typed, Core
<1>3. \A d \in Streams : (Live(d)' <=> Live(d)) /\ (Claims(d)' <=> Claims(d))
  BY <1>1 DEF IndInv, Typed, Live, Claims
<1> QED
  BY <1>1, <1>2, <1>3, KeepInd DEF IndInv, Typed

\* A connect that finds no number takes none.
LEMMA NoMoreConvInd == ASSUME NEW c \in Streams, IndInv, NoMoreConv(c) PROVE IndInv'
<1>1. /\ st[c] = "idle" /\ st' = [st EXCEPT ![c] = "failed"]
      /\ UNCHANGED <<increment, conv, core, sessions, overlapped>>
  BY DEF NoMoreConv, history
<1>2. Typed'
  BY <1>1 DEF IndInv, Typed
<1>3. \A d \in Streams : (Live(d)' <=> Live(d)) /\ (Claims(d)' <=> Claims(d))
  BY <1>1 DEF IndInv, Typed, Live, Claims
<1> QED
  BY <1>1, <1>2, <1>3, KeepInd DEF IndInv, Typed

connector == <<increment, st, conv, core, sessions, overlapped>>

\* So does a datagram of another stream.
LEMMA HeldInd == ASSUME IndInv, ConnectorReceivesHeld PROVE IndInv'
<1>1. sessions' = Retain(sessions) /\ UNCHANGED <<increment, st, conv, core, overlapped>>
  BY DEF ConnectorReceivesHeld, history
<1>2. Typed'
  BY <1>1, FreeEntry DEF IndInv, Typed, Retain
<1>3. \A d \in Streams : (Live(d)' <=> Live(d)) /\ (Claims(d)' <=> Claims(d))
  BY <1>1 DEF Live, Claims
<1>4. \A k \in Convs : \/ sessions'[k] = sessions[k]
                       \/ sessions[k].kind # "active" /\ sessions'[k].kind # "active"
  BY <1>1, FreeEntry DEF IndInv, Typed, Retain
<1> QED
  BY <1>1, <1>2, <1>3, <1>4, KeepInd

\* What happens at the listener is no concern of the numbers the connector gives.
LEMMA UnchangedInd == ASSUME IndInv, UNCHANGED connector PROVE IndInv'
BY DEF connector, IndInv, Typed, Inserted, Distinct, Found, Placed, Claims, Live, Tangled, Active

\* Every step preserves the inductive invariant.
LEMMA StepInd == IndInv /\ [Next]_vars => IndInv'
<1> SUFFICES ASSUME IndInv, [Next]_vars PROVE IndInv'
  OBVIOUS
<1>1. CASE UNCHANGED vars
  BY <1>1, UnchangedInd DEF vars, history, connector
<1>2. ASSUME NEW c \in Streams, Choose(c) \/ NoMoreConv(c) \/ Insert(c) \/ CloseStream(c)
             \/ ConnectorStops(c) \/ Clean(c)
      PROVE  IndInv'
  BY <1>2, ChooseInd, NoMoreConvInd, InsertInd, CloseStreamInd, ConnectorStopsInd, CleanInd
<1>3. ASSUME NEW c \in Streams, ConnectorSends(c) PROVE IndInv'
  BY <1>3, UnchangedInd DEF ConnectorSends, history, connector
<1>4. ASSUME NEW k \in Convs, ListenerSends(k) \/ CloseAccepted(k) \/ ListenerStops(k)
             \/ CleanAccepted(k) \/ AgesAccepted(k)
      PROVE  IndInv'
  BY <1>4, UnchangedInd DEF ListenerSends, CloseAccepted, ListenerStops, CleanAccepted,
                            AgesAccepted, history, connector
<1>5. ASSUME NEW k \in Convs, Ages(k) PROVE IndInv'
  BY <1>5, AgesInd
<1>6. ASSUME NEW m \in net, ConnectorReceives(m) PROVE IndInv'
  BY <1>6, ConnectorReceivesInd
<1>7. ASSUME NEW m \in net, ListenerReceives(m) PROVE IndInv'
  BY <1>7, UnchangedInd DEF ListenerReceives, connector
<1>8. CASE ConnectorReceivesHeld
  BY <1>8, HeldInd
<1>9. CASE ListenerReceivesHeld
  BY <1>9, UnchangedInd DEF ListenerReceivesHeld, history, connector
<1> QED
  BY <1>1, <1>2, <1>3, <1>4, <1>5, <1>6, <1>7, <1>8, <1>9 DEF Next

\* The types, the claims on conversation numbers and what was inserted for them hold
\* after every step of connectors, listeners and the network (net/kcp/mod.rs).
THEOREM Invariance == Spec => []IndInv
BY InitInd, StepInd, PTL DEF Spec

-----------------------------------------------------------------------------
(* What follows.                                                            *)

\* Two sessions of the connector have the same number only if connects overlapped.
THEOREM NumbersAreShared == Spec => []SharedOnlyIfOverlapped
<1>1. IndInv => SharedOnlyIfOverlapped
  BY DEF IndInv, Distinct, Claims, SharedOnlyIfOverlapped
<1> QED
  BY <1>1, Invariance, PTL

Untangled(c) == ~Tangled(conv[c]) /\ ~Outlived(conv[c])

\* A step that closes a session is the close of its own stream, or the exceptions apply.
LEMMA OwnClose ==
  ASSUME IndInv, [Next]_vars, NEW c \in Streams, core[c] = "open", core'[c] = "closing",
         Untangled(c)
  PROVE  st[c] = "open" /\ st'[c] = "closed"
<1>1. ASSUME NEW d \in Streams, CloseStream(d) PROVE st[c] = "open" /\ st'[c] = "closed"
  <2> DEFINE s == sessions[conv[d]]
  <2>1. /\ st[d] = "open" /\ st' = [st EXCEPT ![d] = "closed"]
        /\ s.kind = "active" /\ s.of = c /\ conv[d] \in Convs
    BY <1>1 DEF CloseStream, SetCore, IndInv, Typed
  <2>2. conv[c] = conv[d]
    BY <2>1 DEF IndInv, Placed
  <2>3. CASE Live(d)
    <3>1. sessions[conv[d]] = Active(d)
      BY <2>2, <2>3 DEF IndInv, Found, Untangled
    <3> QED
      BY <2>1, <3>1, ActiveEntry DEF IndInv, Typed
  <2>4. CASE ~Live(d)
    <3>1. core[d] = "cleaned"
      BY <2>1, <2>4 DEF IndInv, Typed, Inserted, Live, Core
    <3> QED
      BY <2>1, <2>2, <3>1 DEF Untangled, Outlived
  <2> QED
    BY <2>3, <2>4
<1>2. ASSUME NEW d \in Streams, Clean(d) PROVE FALSE
  <2> DEFINE s == sessions[conv[d]]
  <2>1. core[d] = "ended" /\ d # c /\ Live(d) /\ conv[d] \in Convs
    BY <1>2 DEF Clean, Live, IndInv, Typed
  <2>2. s.kind = "active" /\ s.of = c
    BY <1>2, <2>1 DEF Clean, SetCore, IndInv, Typed
  <2>3. conv[c] = conv[d]
    BY <2>1, <2>2 DEF IndInv, Placed
  <2>4. sessions[conv[d]] = Active(d)
    BY <2>1, <2>3 DEF IndInv, Found, Untangled
  <2> QED
    BY <2>1, <2>2, <2>4, ActiveEntry
<1>3. ASSUME NEW d \in Streams, Choose(d) \/ NoMoreConv(d) \/ Insert(d) \/ ConnectorSends(d)
             \/ ConnectorStops(d)
      PROVE  FALSE
  BY <1>3 DEF Choose, NoMoreConv, Insert, ConnectorSends, ConnectorStops, SetCore, IndInv, Typed
<1>4. ASSUME NEW k \in Convs, ListenerSends(k) \/ CloseAccepted(k) \/ ListenerStops(k)
             \/ CleanAccepted(k) \/ AgesAccepted(k) \/ Ages(k)
      PROVE  FALSE
  BY <1>4 DEF ListenerSends, CloseAccepted, ListenerStops, CleanAccepted, AgesAccepted, Ages
<1>5. ASSUME NEW m \in net, ConnectorReceives(m) PROVE FALSE
  BY <1>5 DEF ConnectorReceives, SetCore, IndInv, Typed
<1>6. ASSUME NEW m \in net, ListenerReceives(m) PROVE FALSE
  BY <1>6 DEF ListenerReceives
<1>7. CASE ConnectorReceivesHeld \/ ListenerReceivesHeld \/ UNCHANGED vars
  BY <1>7 DEF ConnectorReceivesHeld, ListenerReceivesHeld, vars
<1> QED
  BY <1>1, <1>2, <1>3, <1>4, <1>5, <1>6, <1>7 DEF Next

\* Streams and clean-up callbacks close no session but their own, unless its number
\* is tangled or belongs to a stream that outlived its own session.
THEOREM ClosesAreOwn == Spec => ClosesOwn
<1>1. IndInv /\ [Next]_vars =>
        [\A c \in Streams :
           core[c] = "open" /\ core'[c] = "closing" /\ ~Tangled(conv[c]) /\ ~Outlived(conv[c])
             => st[c] = "open" /\ st'[c] = "closed"]_vars
  BY OwnClose DEF Untangled
<1> QED
  BY <1>1, Invariance, PTL DEF Spec, ClosesOwn

-----------------------------------------------------------------------------
(* Whose the entries, datagrams and history are.                            *)

\* An entry of the connector's map is of a stream that chose its number and was inserted.
Owned ==
  \A k \in Convs : sessions[k].of \in Streams =>
    conv[sessions[k].of] = k /\ core[sessions[k].of] # "none"
\* The numbers of other programs' sessions are chosen by nobody.
Unheld ==
  /\ \A k \in Held : sessions[k] = Active(NoStream)
  /\ \A c \in Streams : st[c] \in {"chosen", "open", "closed"} => conv[c] \notin Held
\* A datagram carries the number of the stream it is of.
Addressed == \A m \in net : core[m.of] # "none" /\ conv[m.of] = m.conv
\* The listener's entries are of streams of their number, and its control blocks agree.
Managed ==
  \A k \in Convs :
    /\ manager[k].kind # "none" => conv[manager[k].of] = k /\ core[manager[k].of] # "none"
    /\ manager[k].kind = "none" => lcore[k] = "none"
    /\ manager[k].kind = "active" => lcore[k] \in {"open", "closing", "ended"}
    /\ manager[k].kind \in {"dead", "old"} => lcore[k] = "cleaned"
\* History is about streams that were inserted.
Recorded ==
  /\ \A c \in untidy : core[c] # "none"
  /\ \A p \in mixed : core[p[1]] # "none"

\* All of it.
Base == TypeOK /\ Owned /\ Unheld /\ Addressed /\ Managed /\ Recorded

\* What is in a datagram.
LEMMA Datagrams ==
  ASSUME NEW to \in {"connector", "listener"}, NEW k \in Convs, NEW c \in Streams,
         NEW type \in {"data", "cls", "clf"}
  PROVE  /\ Msg(to, k, c, type) \in Datagram
         /\ Msg(to, k, c, type).to = to /\ Msg(to, k, c, type).conv = k
         /\ Msg(to, k, c, type).of = c /\ Msg(to, k, c, type).type = type
BY DEF Msg, Datagram

\* What can be in one.
LEMMA DatagramFields ==
  ASSUME NEW m \in Datagram
  PROVE  /\ m.to \in {"connector", "listener"} /\ m.conv \in Convs /\ m.of \in Streams
         /\ m.type \in {"data", "cls", "clf"}
BY DEF Datagram

\* An entry that is buried stays the entry of its stream.
LEMMA Buried ==
  ASSUME NEW e \in Entry, NEW s \in {"none", "active", "dead", "old"}
  PROVE  LET b == [e EXCEPT !.kind = s] IN b \in Entry /\ b.kind = s /\ b.of = e.of
BY DEF Entry

\* Kinds of entries, and whose they can be.
LEMMA OwnersTyped ==
  ASSUME TypeOK, NEW k \in Convs
  PROVE  /\ manager[k].kind \in {"none", "active", "dead", "old"}
         /\ sessions[k].kind \in {"none", "active", "dead", "old"}
         /\ manager[k].kind # "none" => manager[k].of \in Streams
         /\ sessions[k].kind # "none" /\ k \notin Held => sessions[k].of \in Streams
<1>1. manager[k] \in Entry /\ sessions[k] \in Entry
  BY DEF TypeOK
<1>2. \A e \in Entry : /\ e.kind \in {"none", "active", "dead", "old"}
                       /\ e.of \in Streams \union {NoStream}
  BY DEF Entry
<1> QED BY <1>1, <1>2 DEF TypeOK

\* Retain frees the old entries and no other.
LEMMA Retained ==
  ASSUME NEW map \in [Convs -> Entry]
  PROVE  /\ Retain(map) \in [Convs -> Entry]
         /\ \A k \in Convs : Retain(map)[k] = IF map[k].kind = "old" THEN Free ELSE map[k]
BY FreeEntry DEF Retain

\* A stream keeps its number and its control block.
LEMMA Lasting ==
  ASSUME IndInv, Base, [Next]_vars, NEW c \in Streams, core[c] # "none"
  PROVE  core'[c] # "none" /\ conv'[c] = conv[c]
<1>1. ASSUME NEW d \in Streams, Choose(d) PROVE core'[c] # "none" /\ conv'[c] = conv[c]
  <2>1. PICK x : core' = core /\ conv' = [conv EXCEPT ![d] = x] /\ st[d] = "idle"
    BY <1>1 DEF Choose
  <2>2. c # d
    BY <2>1 DEF IndInv, Inserted
  <2> QED BY <2>1, <2>2 DEF Base, TypeOK
<1>2. ASSUME NEW d \in Streams, NoMoreConv(d) \/ ConnectorSends(d)
      PROVE core'[c] # "none" /\ conv'[c] = conv[c]
  BY <1>2 DEF NoMoreConv, ConnectorSends
<1>3. ASSUME NEW d \in Streams, Insert(d) \/ ConnectorStops(d)
      PROVE core'[c] # "none" /\ conv'[c] = conv[c]
  BY <1>3 DEF Insert, ConnectorStops, SetCore, Base, TypeOK
<1>4. ASSUME NEW d \in Streams, CloseStream(d)
      PROVE core'[c] # "none" /\ conv'[c] = conv[c]
  BY <1>4 DEF CloseStream, SetCore, Base, TypeOK
<1>5. ASSUME NEW d \in Streams, Clean(d)
      PROVE core'[c] # "none" /\ conv'[c] = conv[c]
  BY <1>5 DEF Clean, SetCore, Base, TypeOK
<1>6. ASSUME NEW k \in Convs, \/ ListenerSends(k) \/ CloseAccepted(k) \/ ListenerStops(k)
                              \/ CleanAccepted(k) \/ Ages(k) \/ AgesAccepted(k)
      PROVE core'[c] # "none" /\ conv'[c] = conv[c]
  BY <1>6 DEF ListenerSends, CloseAccepted, ListenerStops, CleanAccepted, Ages, AgesAccepted
<1>7. ASSUME NEW m \in net, ConnectorReceives(m)
      PROVE core'[c] # "none" /\ conv'[c] = conv[c]
  BY <1>7 DEF ConnectorReceives, SetCore, Base, TypeOK
<1>8. ASSUME NEW m \in net, ListenerReceives(m)
      PROVE core'[c] # "none" /\ conv'[c] = conv[c]
  BY <1>8 DEF ListenerReceives
<1>9. CASE ConnectorReceivesHeld \/ ListenerReceivesHeld \/ UNCHANGED vars
  BY <1>9 DEF ConnectorReceivesHeld, ListenerReceivesHeld, vars
<1> QED BY <1>1, <1>2, <1>3, <1>4, <1>5, <1>6, <1>7, <1>8, <1>9 DEF Next

\* Nothing is connected, held or sent.
LEMMA BaseInit == Init => Base
<1> SUFFICES ASSUME Init PROVE Base
  OBVIOUS
<1>1. 1 % ConvMod \in Convs /\ 0 \in Convs
  BY ModInConvs DEF Convs
<1>2. \A k \in Convs : Free \in Entry /\ Active(NoStream) \in Entry
  BY DEF Free, Active, Entry
<1>3. TypeOK
  BY <1>1, <1>2 DEF Init, TypeOK, Core, Free, Active
<1>4. Held \subseteq Convs
  BY DEF Convs
<1> QED BY <1>3, <1>4 DEF Init, Base, Owned, Unheld, Addressed, Managed, Recorded, Free, Active

\* A number that is chosen is not held.
LEMMA ChooseBase ==
  ASSUME NEW c \in Streams, IndInv, Base, Choose(c), IndInv' PROVE Base'
<1>1. PICK n \in 0..(ConvMod - 1) :
        /\ sessions[(increment + n) % ConvMod].kind = "none"
        /\ conv' = [conv EXCEPT ![c] = (increment + n) % ConvMod]
        /\ increment' = (increment + n) % ConvMod
  BY DEF Choose
<1>2. (increment + n) % ConvMod \in Convs
  BY ModInConvs DEF Base, TypeOK, Convs
<1>3. PICK k \in Convs : /\ sessions[k].kind = "none"
                        /\ conv' = [conv EXCEPT ![c] = k]
                        /\ increment' = k
  BY <1>1, <1>2
<1>4. /\ st[c] = "idle" /\ st' = [st EXCEPT ![c] = "chosen"] /\ core[c] = "none"
      /\ UNCHANGED <<core, sessions, manager, lcore, net, untidy, mixed>>
  BY DEF Choose, IndInv, Inserted
<1>5. k \notin Held
  <2>1. Active(NoStream).kind # "none"
    BY DEF Active
  <2> QED BY <1>3, <2>1 DEF Base, Unheld
<1>6. overlapped' \subseteq Streams
  BY DEF IndInv, Typed
<1>7. \A d \in Streams : core[d] # "none" => conv'[d] = conv[d]
  BY <1>3, <1>4 DEF Base, TypeOK
<1>8. TypeOK'
  <2>1. Typed' /\ overlapped' \subseteq Streams
    BY DEF IndInv, Typed
  <2> QED BY <1>4, <2>1 DEF Base, TypeOK, Typed
<1>9. Unheld' /\ Recorded'
  BY <1>3, <1>4, <1>5 DEF Base, TypeOK, Unheld, Recorded, Active
<1>10. Owned'
  BY <1>4, <1>7 DEF Base, Owned
<1>11. Addressed'
  BY <1>4, <1>7, DatagramFields DEF Base, TypeOK, Addressed
<1>12. Managed'
  <2>1. \A j \in Convs : manager[j].kind # "none" => manager[j].of \in Streams
    BY OwnersTyped DEF Base
  <2> QED BY <1>4, <1>7, <2>1 DEF Base, Managed
<1> QED BY <1>8, <1>9, <1>10, <1>11, <1>12 DEF Base

\* The entry that is put in the map is that of the stream.
LEMMA InsertBase ==
  ASSUME NEW c \in Streams, IndInv, Base, Insert(c), IndInv', [Next]_vars PROVE Base'
<1>1. /\ st[c] = "chosen" /\ st' = [st EXCEPT ![c] = "open"]
      /\ core' = [core EXCEPT ![c] = "open"]
      /\ sessions' = [sessions EXCEPT ![conv[c]] = Active(c)]
      /\ UNCHANGED <<increment, conv, manager, lcore, net, overlapped, untidy, mixed>>
  BY DEF Insert, history
<1>2. conv[c] \in Convs /\ conv[c] \notin Held
  BY <1>1 DEF Base, TypeOK, Unheld
<1>3. \A k \in Convs : sessions'[k] = IF k = conv[c] THEN Active(c) ELSE sessions[k]
  BY <1>1 DEF Base, TypeOK
<1>4. \A d \in Streams : core'[d] = IF d = c THEN "open" ELSE core[d]
  BY <1>1 DEF Base, TypeOK
<1>5. TypeOK'
  <2>1. c # NoStream
    OBVIOUS
  <2>2. sessions' \in [Convs -> Entry]
    BY <1>1, ActiveEntry DEF Base, TypeOK
  <2>3. \A k \in Convs : (sessions'[k].kind = "none" \/ k \in Held) <=> sessions'[k].of = NoStream
    BY <1>2, <1>3, <2>1, ActiveEntry DEF Base, TypeOK
  <2> QED BY <1>1, <2>2, <2>3 DEF Base, TypeOK, Core
<1>6. Owned'
  BY <1>1, <1>3, <1>4, ActiveEntry DEF Base, Owned
<1>7. Unheld'
  BY <1>1, <1>2, <1>3 DEF Base, TypeOK, Unheld, Convs, Active
<1>8. Addressed'
  BY <1>1, <1>4, DatagramFields DEF Base, TypeOK, Addressed
<1>9. Managed'
  <2>1. \A j \in Convs : manager[j].kind # "none" => manager[j].of \in Streams
    BY OwnersTyped DEF Base
  <2> QED BY <1>1, <1>4, <2>1 DEF Base, Managed
<1>10. Recorded'
  <2>1. \A p \in mixed : p[1] \in Streams
    BY DEF Base, TypeOK
  <2> QED BY <1>1, <1>4, <2>1 DEF Base, TypeOK, Recorded
<1> QED BY <1>5, <1>6, <1>7, <1>8, <1>9, <1>10 DEF Base

\* What an action that changes no entry of the connector, no number and no state of a
\* stream has to keep.
LEMMA CoreBase ==
  ASSUME IndInv, Base, [Next]_vars, IndInv', NEW c \in Streams,
         UNCHANGED <<increment, st, conv, sessions, manager, lcore, net, mixed>>,
         core' \in [Streams -> Core], overlapped' = overlapped,
         untidy' = untidy \/ (untidy' = untidy \union {c} /\ core[c] # "none")
  PROVE  Base'
<1>1. \A d \in Streams : core[d] # "none" => core'[d] # "none" /\ conv'[d] = conv[d]
  BY Lasting
<1>2. TypeOK'
  BY DEF Base, TypeOK
<1>3. Owned' /\ Unheld'
  BY <1>1 DEF Base, Owned, Unheld, Active
<1>4. Addressed'
  BY <1>1, DatagramFields DEF Base, TypeOK, Addressed
<1>5. Managed'
  <2>1. \A j \in Convs : manager[j].kind # "none" => manager[j].of \in Streams
    BY OwnersTyped DEF Base
  <2> QED BY <1>1, <2>1 DEF Base, Managed
<1>6. Recorded'
  <2>1. untidy \subseteq Streams /\ \A p \in mixed : p[1] \in Streams
    BY DEF Base, TypeOK
  <2> QED BY <1>1, <2>1 DEF Base, Recorded
<1> QED BY <1>2, <1>3, <1>4, <1>5, <1>6 DEF Base

\* The task of a stream stops.
LEMMA StopsBase ==
  ASSUME IndInv, Base, [Next]_vars, IndInv', NEW c \in Streams, ConnectorStops(c)
  PROVE  Base'
<1>1. core' = [core EXCEPT ![c] = "ended"] /\ core[c] # "none"
  BY DEF ConnectorStops, SetCore
<1>2. core' \in [Streams -> Core]
  BY <1>1 DEF Base, TypeOK, Core
<1> QED BY <1>1, <1>2, CoreBase DEF ConnectorStops

\* The states of streams change with core's.
LEMMA StreamBase ==
  ASSUME IndInv, Base, [Next]_vars, IndInv', NEW c \in Streams, NoMoreConv(c) \/ CloseStream(c)
  PROVE  Base'
<1>1. \A d \in Streams : core[d] # "none" => core'[d] # "none" /\ conv'[d] = conv[d]
  BY Lasting
<1>2. UNCHANGED <<increment, conv, sessions, manager, lcore, net, overlapped, untidy, mixed>>
  BY DEF NoMoreConv, CloseStream, history
<1>3. Typed'
  BY DEF IndInv
<1>4. TypeOK'
  BY <1>2, <1>3 DEF Base, TypeOK, Typed
<1>5. \A d \in Streams : st'[d] \in {"chosen", "open", "closed"} => st[d] \in {"chosen", "open", "closed"}
  BY DEF NoMoreConv, CloseStream, Base, TypeOK
<1>6. Owned' /\ Unheld'
  BY <1>1, <1>2, <1>5 DEF Base, Owned, Unheld, Active
<1>7. Addressed'
  BY <1>1, <1>2, DatagramFields DEF Base, TypeOK, Addressed
<1>8. Managed'
  <2>1. \A j \in Convs : manager[j].kind # "none" => manager[j].of \in Streams
    BY OwnersTyped DEF Base
  <2> QED BY <1>1, <1>2, <2>1 DEF Base, Managed
<1>9. Recorded'
  <2>1. untidy \subseteq Streams /\ \A p \in mixed : p[1] \in Streams
    BY DEF Base, TypeOK
  <2> QED BY <1>1, <1>2, <2>1 DEF Base, Recorded
<1> QED BY <1>4, <1>6, <1>7, <1>8, <1>9 DEF Base

\* Of the connector's map, only the kinds of entries of streams change.
LEMMA SessionsBase ==
  ASSUME IndInv, Base, [Next]_vars, IndInv', NEW k \in Convs \ Held, NEW s \in {"dead", "old"},
         sessions' = [sessions EXCEPT ![k].kind = s], sessions[k].kind # "none",
         UNCHANGED <<increment, st, conv, manager, lcore, overlapped, mixed>>,
         net' \subseteq net, core' \in [Streams -> Core],
         untidy' = untidy \/ untidy' = untidy \union {sessions[k].of}
  PROVE  Base'
<1>1. \A d \in Streams : core[d] # "none" => core'[d] # "none" /\ conv'[d] = conv[d]
  BY Lasting
<1>2. /\ sessions' \in [Convs -> Entry]
      /\ \A j \in Convs : sessions'[j].of = sessions[j].of /\ (j # k => sessions'[j] = sessions[j])
      /\ sessions'[k].kind = s
  <2>1. sessions \in [Convs -> Entry] /\ sessions[k] \in Entry
    BY DEF Base, TypeOK
  <2>0. s \in {"none", "active", "dead", "old"}
    OBVIOUS
  <2>2. LET b == [sessions[k] EXCEPT !.kind = s] IN b \in Entry /\ b.kind = s /\ b.of = sessions[k].of
    BY <2>0, <2>1, Buried, Zenon
  <2>3. sessions' = [sessions EXCEPT ![k] = [sessions[k] EXCEPT !.kind = s]]
    BY <2>1
  <2> QED BY <2>1, <2>2, <2>3
<1>8. sessions[k].of \in Streams /\ core[sessions[k].of] # "none"
  BY OwnersTyped DEF Base, Owned
<1>3. TypeOK'
  <2>1. untidy' \subseteq Streams
    BY <1>8 DEF Base, TypeOK
  <2> QED BY <1>2, <2>1 DEF Base, TypeOK
<1>4. Owned' /\ Unheld'
  <2>1. Held \subseteq Convs
    BY DEF Convs
  <2> QED BY <1>1, <1>2, <2>1 DEF Base, Owned, Unheld, Active
<1>5. Addressed'
  BY <1>1, DatagramFields DEF Base, TypeOK, Addressed
<1>6. Managed'
  <2>1. \A j \in Convs : manager[j].kind # "none" => manager[j].of \in Streams
    BY OwnersTyped DEF Base
  <2> QED BY <1>1, <2>1 DEF Base, Managed
<1>7. Recorded'
  <2>1. untidy \subseteq Streams /\ \A p \in mixed : p[1] \in Streams
    BY DEF Base, TypeOK
  <2> QED BY <1>1, <1>8, <2>1 DEF Base, Recorded
<1> QED BY <1>3, <1>4, <1>5, <1>6, <1>7 DEF Base

\* clean_callback buries the entry, not its owner.
LEMMA CleanBase ==
  ASSUME IndInv, Base, [Next]_vars, IndInv', NEW c \in Streams, Clean(c)
  PROVE  Base'
<1>1. conv[c] \in Convs \ Held
  <2>1. core[c] = "ended"
    BY DEF Clean
  <2>2. st[c] \in {"chosen", "open", "closed"}
    BY <2>1 DEF IndInv, Inserted, Base, TypeOK
  <2> QED BY <2>2 DEF Base, TypeOK, Unheld
<1>2. core' \in [Streams -> Core]
  BY DEF Typed, IndInv
<1>3. CASE sessions[conv[c]].kind = "active"
  <2>1. sessions' = [sessions EXCEPT ![conv[c]].kind = "dead"]
    BY <1>3 DEF Clean
  <2> QED BY <1>1, <1>2, <1>3, <2>1, SessionsBase DEF Clean, history
<1>4. CASE sessions[conv[c]].kind # "active"
  <2>1. sessions' = sessions
    BY <1>4 DEF Clean
  <2> QED BY <1>2, <2>1, CoreBase DEF Clean, history
<1> QED BY <1>3, <1>4

\* The thirty seconds are over at one end.
LEMMA AgesBase ==
  ASSUME IndInv, Base, [Next]_vars, IndInv', NEW k \in Convs, Ages(k)
  PROVE  Base'
<1>1. k \notin Held
  <2>1. Active(NoStream).kind # "dead"
    BY DEF Active
  <2> QED BY <2>1 DEF Ages, Base, Unheld
<1>2. /\ net' \subseteq net /\ core' \in [Streams -> Core]
      /\ untidy' = untidy \/ untidy' = untidy \union {sessions[k].of}
  BY DEF Ages, StillUnderWay, Base, TypeOK
<1> QED BY <1>1, <1>2, SessionsBase DEF Ages

\* Of the listener, the control block of one number changes, and the kind of its entry.
LEMMA ManagerBase ==
  ASSUME IndInv, Base, [Next]_vars, IndInv', NEW k \in Convs, NEW s \in {"active", "dead", "old"},
         NEW l \in {"open", "closing", "ended", "cleaned"},
         (manager' = manager /\ s = manager[k].kind) \/ manager' = [manager EXCEPT ![k].kind = s],
         lcore' = [lcore EXCEPT ![k] = l], manager[k].kind # "none",
         s = "active" <=> l # "cleaned",
         UNCHANGED <<increment, st, conv, core, sessions, overlapped, mixed>>,
         net' \subseteq net,
         untidy' = untidy \/ untidy' = untidy \union {manager[k].of}
  PROVE  Base'
<1>1. \A d \in Streams : core[d] # "none" => core'[d] # "none" /\ conv'[d] = conv[d]
  BY Lasting
<1>2. /\ manager' \in [Convs -> Entry]
      /\ \A j \in Convs : manager'[j].of = manager[j].of /\ (j # k => manager'[j] = manager[j])
      /\ manager'[k].kind = s
  <2>1. manager \in [Convs -> Entry] /\ manager[k] \in Entry
    BY DEF Base, TypeOK
  <2>0. s \in {"none", "active", "dead", "old"}
    OBVIOUS
  <2>2. LET b == [manager[k] EXCEPT !.kind = s] IN b \in Entry /\ b.kind = s /\ b.of = manager[k].of
    BY <2>0, <2>1, Buried, Zenon
  <2>3. CASE manager' = [manager EXCEPT ![k].kind = s]
    <3>1. manager' = [manager EXCEPT ![k] = [manager[k] EXCEPT !.kind = s]]
      BY <2>1, <2>3
    <3> QED BY <2>1, <2>2, <3>1
  <2>4. CASE manager' = manager /\ s = manager[k].kind
    BY <2>1, <2>4
  <2> QED BY <2>3, <2>4
<1>3. manager[k].of \in Streams /\ core[manager[k].of] # "none"
  BY OwnersTyped DEF Base, Managed
<1>4. TypeOK'
  <2>1. lcore' \in [Convs -> Core] /\ untidy' \subseteq Streams
    BY <1>3 DEF Base, TypeOK, Core
  <2> QED BY <1>2, <2>1 DEF Base, TypeOK
<1>5. Owned' /\ Unheld'
  BY <1>1 DEF Base, Owned, Unheld, Active
<1>6. Addressed'
  BY <1>1, DatagramFields DEF Base, TypeOK, Addressed
<1>7. Managed'
  <2>1. \A j \in Convs : manager[j].kind # "none" => manager[j].of \in Streams
    BY OwnersTyped DEF Base
  <2>2. \A j \in Convs : lcore'[j] = IF j = k THEN l ELSE lcore[j]
    BY DEF Base, TypeOK
  <2> QED BY <1>1, <1>2, <2>1, <2>2 DEF Base, Managed
<1>8. Recorded'
  <2>1. untidy \subseteq Streams /\ \A p \in mixed : p[1] \in Streams
    BY DEF Base, TypeOK
  <2> QED BY <1>1, <1>3, <2>1 DEF Base, Recorded
<1> QED BY <1>4, <1>5, <1>6, <1>7, <1>8 DEF Base

\* A stream the listener accepted is closed or ends.
LEMMA AcceptedBase ==
  ASSUME IndInv, Base, [Next]_vars, IndInv', NEW k \in Convs,
         \/ CloseAccepted(k) \/ ListenerStops(k) \/ CleanAccepted(k) \/ AgesAccepted(k)
  PROVE  Base'
<1>1. \A s : s = lcore[k] => lcore = [lcore EXCEPT ![k] = s]
  BY DEF Base, TypeOK
<1>2. manager[k].kind \in {"none", "active", "dead", "old"} /\ lcore[k] \in Core
  BY OwnersTyped DEF Base, TypeOK
<1>3. CASE CloseAccepted(k)
  <2>1. manager[k].kind = "active"
    BY <1>2, <1>3 DEF CloseAccepted, Base, Managed
  <2> QED BY <1>3, <2>1, ManagerBase DEF CloseAccepted, SetLcore, history
<1>4. CASE ListenerStops(k)
  <2>1. manager[k].kind = "active"
    BY <1>2, <1>4 DEF ListenerStops, Base, Managed
  <2> QED BY <1>4, <2>1, ManagerBase DEF ListenerStops, SetLcore, history
<1>5. CASE CleanAccepted(k)
  <2>1. manager[k].kind = "active"
    BY <1>2, <1>5 DEF CleanAccepted, Base, Managed
  <2> QED BY <1>5, <2>1, ManagerBase DEF CleanAccepted, SetLcore, history
<1>6. CASE AgesAccepted(k)
  <2>1. manager[k].kind = "dead" /\ lcore[k] = "cleaned" /\ net' \subseteq net
    BY <1>6 DEF AgesAccepted, Base, Managed, StillUnderWay
  <2> QED BY <1>1, <1>6, <2>1, ManagerBase DEF AgesAccepted, history
<1> QED BY <1>3, <1>4, <1>5, <1>6

\* A datagram of a stream that has a control block, under its number.
LEMMA SendsBase ==
  ASSUME IndInv, Base, [Next]_vars, IndInv', NEW to \in {"connector", "listener"}, NEW c \in Streams,
         NEW type \in {"data", "cls", "clf"}, core[c] # "none",
         net' = net \union {Msg(to, conv[c], c, type)},
         UNCHANGED <<increment, st, conv, core, sessions, manager, lcore, history>>
  PROVE  Base'
<1> DEFINE m == Msg(to, conv[c], c, type)
<1>1. m \in Datagram /\ m.of = c /\ m.conv = conv[c]
  BY Datagrams DEF Base, TypeOK
<1> HIDE DEF m
<1>2. UNCHANGED <<overlapped, untidy, mixed>> /\ net' = net \union {m}
  BY DEF history, m
<1>3. TypeOK'
  BY <1>1, <1>2 DEF Base, TypeOK
<1>4. Owned' /\ Unheld' /\ Managed'
  BY DEF Base, Owned, Unheld, Active, Managed
<1>5. Addressed' /\ Recorded'
  BY <1>1, <1>2 DEF Base, Addressed, Recorded
<1> QED BY <1>3, <1>4, <1>5 DEF Base

\* Both ends send for themselves.
LEMMA SendingBase ==
  ASSUME IndInv, Base, [Next]_vars, IndInv',
         (\E c \in Streams : ConnectorSends(c)) \/ (\E k \in Convs : ListenerSends(k))
  PROVE  Base'
<1>1. ASSUME NEW c \in Streams, ConnectorSends(c) PROVE Base'
  <2>1. /\ core[c] # "none"
        /\ \E type \in {"data", "cls", "clf"} : net' = net \union {Msg("listener", conv[c], c, type)}
    BY <1>1 DEF ConnectorSends
  <2> QED BY <1>1, <2>1, SendsBase DEF ConnectorSends
<1>2. ASSUME NEW k \in Convs, ListenerSends(k) PROVE Base'
  <2>1. manager[k].of \in Streams /\ core[manager[k].of] # "none" /\ conv[manager[k].of] = k
    BY <1>2, OwnersTyped DEF ListenerSends, Base, Managed
  <2>2. \E type \in {"data", "cls", "clf"} : net' = net \union {Msg("connector", k, manager[k].of, type)}
    BY <1>2 DEF ListenerSends
  <2> QED BY <1>2, <2>1, <2>2, SendsBase DEF ListenerSends
<1> QED BY <1>1, <1>2

\* Whose a datagram that is received is.
LEMMA Received ==
  ASSUME IndInv, Base, NEW m \in net
  PROVE  /\ m.to \in {"connector", "listener"} /\ m.conv \in Convs \ Held /\ m.of \in Streams
         /\ m.type \in {"data", "cls", "clf"}
         /\ core[m.of] # "none" /\ conv[m.of] = m.conv
<1>1. /\ m.to \in {"connector", "listener"} /\ m.conv \in Convs /\ m.of \in Streams
      /\ m.type \in {"data", "cls", "clf"}
  BY DatagramFields DEF Base, TypeOK
<1>2. core[m.of] # "none" /\ conv[m.of] = m.conv
  BY DEF Base, Addressed
<1>3. st[m.of] \in {"chosen", "open", "closed"}
  BY <1>1, <1>2 DEF IndInv, Inserted, Base, TypeOK
<1> QED BY <1>1, <1>2, <1>3 DEF Base, Unheld

\* An answer, or none, to a datagram.
LEMMA AnswerBase ==
  ASSUME IndInv, Base, NEW m \in net, NEW to \in {"connector", "listener"}, NEW reply,
         reply = {} \/ \E d \in Streams, type \in {"data", "cls", "clf"} :
                         /\ reply = {Msg(to, m.conv, d, type)}
                         /\ core[d] # "none" /\ conv[d] = m.conv,
         net' = (net \ {m}) \union reply,
         \A d \in Streams : core[d] # "none" => core'[d] # "none" /\ conv'[d] = conv[d]
  PROVE  net' \subseteq Datagram /\ Addressed'
<1>1. \A n \in net : n \in Datagram /\ n.of \in Streams
  BY DatagramFields DEF Base, TypeOK
<1>2. \A n \in reply : n \in Datagram /\ core[n.of] # "none" /\ conv[n.of] = n.conv /\ n.of \in Streams
  <2>1. CASE reply = {}
    BY <2>1
  <2>2. ASSUME NEW d \in Streams, NEW type \in {"data", "cls", "clf"},
               reply = {Msg(to, m.conv, d, type)}, core[d] # "none", conv[d] = m.conv
        PROVE  \A n \in reply : n \in Datagram /\ core[n.of] # "none" /\ conv[n.of] = n.conv /\ n.of \in Streams
    <3>1. m.conv \in Convs
      BY Received
    <3> QED BY <2>2, <3>1, Datagrams
  <2> QED BY <2>1, <2>2
<1>3. \A n \in net' : n \in net \/ n \in reply
  OBVIOUS
<1> QED BY <1>1, <1>2, <1>3 DEF Base, Addressed

\* What the connector does with a datagram.
LEMMA ConnectorReceivesBase ==
  ASSUME IndInv, Base, [Next]_vars, IndInv', NEW m \in net, ConnectorReceives(m)
  PROVE  Base'
<1> DEFINE s == sessions'[m.conv]
<1>1. \A d \in Streams : core[d] # "none" => core'[d] # "none" /\ conv'[d] = conv[d]
  BY Lasting
<1>2. /\ m.conv \in Convs \ Held /\ m.of \in Streams /\ core[m.of] # "none" /\ conv[m.of] = m.conv
  BY Received
<1>3. /\ sessions' \in [Convs -> Entry]
      /\ \A k \in Convs : sessions'[k] = IF sessions[k].kind = "old" THEN Free ELSE sessions[k]
  BY Retained DEF ConnectorReceives, Base, TypeOK
<1>4. s.kind = "active" => /\ s.of \in Streams /\ core[s.of] # "none" /\ conv[s.of] = m.conv
  <2>1. s.kind = "active" => s = sessions[m.conv]
    BY <1>2, <1>3, FreeEntry
  <2> QED BY <1>2, <2>1, OwnersTyped DEF Base, Owned
<1>5. UNCHANGED <<increment, st, conv, manager, lcore, overlapped, untidy>>
  BY DEF ConnectorReceives
<1>6. /\ mixed' \subseteq Streams \X Streams
      /\ \A p \in mixed' \ mixed : s.kind = "active" /\ p[1] = s.of
  <2>1. mixed' = mixed \union (IF s.kind = "active" THEN Foreign(s.of, m.of) ELSE {})
    BY DEF ConnectorReceives
  <2>2. s.kind = "active" => Foreign(s.of, m.of) \subseteq Streams \X Streams
    BY <1>2, <1>4 DEF Foreign
  <2>3. \A p \in Foreign(s.of, m.of) : p[1] = s.of
    BY DEF Foreign
  <2> QED BY <2>1, <2>2, <2>3 DEF Base, TypeOK
<1>7. net' \subseteq Datagram /\ Addressed'
  <2> DEFINE reply == IF s.kind # "active" THEN {Msg("listener", m.conv, m.of, "clf")}
                      ELSE IF m.type = "cls" /\ core[s.of] = "open"
                           THEN {Msg("listener", m.conv, s.of, "cls")} ELSE {}
  <2>1. net' = (net \ {m}) \union reply
    BY DEF ConnectorReceives
  <2>2. reply = {} \/ \E d \in Streams, type \in {"data", "cls", "clf"} :
                         /\ reply = {Msg("listener", m.conv, d, type)}
                         /\ core[d] # "none" /\ conv[d] = m.conv
    BY <1>2, <1>4
  <2> HIDE DEF reply, s
  <2> QED BY <1>1, <2>1, <2>2, AnswerBase
<1>8. TypeOK'
  <2>1. core' \in [Streams -> Core]
    BY DEF IndInv, Typed
  <2>2. \A k \in Convs : (sessions'[k].kind = "none" \/ k \in Held) <=> sessions'[k].of = NoStream
    <3>1. \A k \in Held : sessions[k].kind = "active"
      BY DEF Base, Unheld, Active
    <3>2. Free.kind = "none" /\ Free.of = NoStream
      BY DEF Free
    <3> QED BY <1>3, <3>1, <3>2 DEF Base, TypeOK
  <2> QED BY <1>3, <1>5, <1>6, <1>7, <2>1, <2>2 DEF Base, TypeOK
<1>9. Owned'
  <2>1. Free.of \notin Streams
    BY DEF Free
  <2> QED BY <1>1, <1>3, <2>1 DEF Base, Owned
<1>10. Unheld'
  <2>1. Held \subseteq Convs /\ \A k \in Held : sessions[k].kind = "active"
    BY DEF Base, Unheld, Active, Convs
  <2> QED BY <1>3, <1>5, <2>1 DEF Base, Unheld, Active
<1>11. Managed'
  <2>1. \A j \in Convs : manager[j].kind # "none" => manager[j].of \in Streams
    BY OwnersTyped DEF Base
  <2> QED BY <1>1, <1>5, <2>1 DEF Base, Managed
<1>12. Recorded'
  <2>1. untidy \subseteq Streams /\ \A p \in mixed : p[1] \in Streams
    BY DEF Base, TypeOK
  <2>2. \A p \in mixed' : p \in mixed \/ (s.kind = "active" /\ p[1] = s.of)
    BY <1>6
  <2> HIDE DEF s
  <2> QED BY <1>1, <1>4, <1>5, <2>1, <2>2 DEF Base, Recorded
<1> QED BY <1>7, <1>8, <1>9, <1>10, <1>11, <1>12 DEF Base

\* What the listener does with a datagram.
LEMMA ListenerDoes ==
  ASSUME IndInv, Base, NEW m \in net, ListenerReceives(m)
  PROVE  LET k == m.conv
             new == manager[k].kind \in {"none", "old"}
             of == IF new THEN m.of ELSE manager[k].of
             dead == manager[k].kind = "dead"
             state == IF new THEN "open" ELSE lcore[k]
         IN /\ manager' \in [Convs -> Entry]
            /\ manager'[k] = IF new THEN Active(m.of) ELSE manager[k]
            /\ \A j \in Convs \ {k} :
                 manager'[j] = IF manager[j].kind = "old" THEN Free ELSE manager[j]
            /\ lcore' \in [Convs -> Core]
            /\ lcore'[k] = IF dead THEN lcore[k]
                           ELSE IF m.type # "data" /\ state \in {"open", "closing"} THEN "ended"
                           ELSE state
            /\ \A j \in Convs \ {k} :
                 lcore'[j] = IF manager[j].kind \in {"none", "old"} THEN "none" ELSE lcore[j]
            /\ of \in Streams /\ core[of] # "none" /\ conv[of] = k
            /\ net' = (net \ {m}) \union
                 (IF dead THEN {Msg("connector", k, m.of, "clf")}
                  ELSE IF m.type = "cls" /\ state = "open"
                       THEN {Msg("connector", k, of, "cls")} ELSE {})
            /\ mixed' = mixed \union (IF dead THEN {} ELSE Foreign(of, m.of))
            /\ untidy' = untidy \union (IF dead /\ of # m.of THEN {m.of} ELSE {})
<1> DEFINE k == m.conv
           new == manager[k].kind \in {"none", "old"}
           of == IF new THEN m.of ELSE manager[k].of
           dead == manager[k].kind = "dead"
           state == IF new THEN "open" ELSE lcore[k]
           map == Retain(manager)
<1>1. k \in Convs /\ m.of \in Streams /\ core[m.of] # "none" /\ conv[m.of] = k
  BY Received
<1>2. /\ map \in [Convs -> Entry]
      /\ \A j \in Convs : map[j] = IF manager[j].kind = "old" THEN Free ELSE manager[j]
  BY Retained DEF Base, TypeOK
<1>3. Free.kind = "none"
  BY DEF Free
<1>4. /\ (map[k].kind = "none") = new /\ (~new => map[k] = manager[k])
      /\ (map[k].kind = "dead") = dead
  BY <1>1, <1>2, <1>3, OwnersTyped DEF Base
<1>5. of \in Streams /\ core[of] # "none" /\ conv[of] = k
  BY <1>1, OwnersTyped DEF Base, Managed
<1>6. IF map[k].kind = "none" THEN of = m.of ELSE of = map[k].of
  BY <1>4
<1>7. /\ manager' = IF new THEN [map EXCEPT ![k] = Active(m.of)] ELSE map
      /\ lcore' = [j \in Convs |->
             IF j = k /\ ~dead
             THEN IF m.type # "data" /\ state \in {"open", "closing"} THEN "ended" ELSE state
             ELSE IF map[j].kind = "none" THEN "none" ELSE lcore[j]]
      /\ net' = (net \ {m}) \union
                 (IF dead THEN {Msg("connector", k, m.of, "clf")}
                  ELSE IF m.type = "cls" /\ state = "open"
                       THEN {Msg("connector", k, of, "cls")} ELSE {})
      /\ mixed' = mixed \union (IF dead THEN {} ELSE Foreign(of, m.of))
      /\ untidy' = untidy \union (IF dead /\ of # m.of THEN {m.of} ELSE {})
  BY <1>4 DEF ListenerReceives
<1>8. manager' \in [Convs -> Entry]
  BY <1>1, <1>2, <1>7, ActiveEntry
<1>9. /\ manager'[k] = IF new THEN Active(m.of) ELSE manager[k]
      /\ \A j \in Convs \ {k} :
           manager'[j] = IF manager[j].kind = "old" THEN Free ELSE manager[j]
  BY <1>1, <1>2, <1>4, <1>7
<1>10. \A j \in Convs : (map[j].kind = "none") = (manager[j].kind \in {"none", "old"})
  BY <1>2, <1>3, OwnersTyped DEF Base
<1>11. state \in Core /\ lcore \in [Convs -> Core]
  BY <1>1 DEF Base, TypeOK, Core
<1> HIDE DEF map, state
<1>12. lcore' \in [Convs -> Core]
  BY <1>7, <1>11 DEF Core
<1>13. /\ lcore'[k] = IF dead THEN lcore[k]
                     ELSE IF m.type # "data" /\ state \in {"open", "closing"} THEN "ended"
                     ELSE state
       /\ \A j \in Convs \ {k} :
                 lcore'[j] = IF manager[j].kind \in {"none", "old"} THEN "none" ELSE lcore[j]
  BY <1>1, <1>4, <1>7, <1>10
<1> QED BY <1>5, <1>7, <1>8, <1>9, <1>12, <1>13 DEF state

\* So all it does keeps the base.
LEMMA ListenerReceivesBase ==
  ASSUME IndInv, Base, [Next]_vars, IndInv', NEW m \in net, ListenerReceives(m)
  PROVE  Base'
<1> DEFINE k == m.conv
           new == manager[k].kind \in {"none", "old"}
           of == IF new THEN m.of ELSE manager[k].of
           dead == manager[k].kind = "dead"
           state == IF new THEN "open" ELSE lcore[k]
<1>1. k \in Convs /\ m.of \in Streams /\ core[m.of] # "none" /\ conv[m.of] = k
  BY Received
<1>2. /\ manager' \in [Convs -> Entry] /\ lcore' \in [Convs -> Core]
      /\ manager'[k] = IF new THEN Active(m.of) ELSE manager[k]
      /\ \A j \in Convs \ {k} : manager'[j] = IF manager[j].kind = "old" THEN Free ELSE manager[j]
      /\ lcore'[k] = IF dead THEN lcore[k]
                     ELSE IF m.type # "data" /\ state \in {"open", "closing"} THEN "ended" ELSE state
      /\ \A j \in Convs \ {k} :
           lcore'[j] = IF manager[j].kind \in {"none", "old"} THEN "none" ELSE lcore[j]
      /\ of \in Streams /\ core[of] # "none" /\ conv[of] = k
      /\ net' = (net \ {m}) \union
           (IF dead THEN {Msg("connector", k, m.of, "clf")}
            ELSE IF m.type = "cls" /\ state = "open"
                 THEN {Msg("connector", k, of, "cls")} ELSE {})
      /\ mixed' = mixed \union (IF dead THEN {} ELSE Foreign(of, m.of))
      /\ untidy' = untidy \union (IF dead /\ of # m.of THEN {m.of} ELSE {})
  BY ListenerDoes
<1> HIDE DEF of, state
<1>3. UNCHANGED <<increment, st, conv, core, sessions, overlapped>>
  BY DEF ListenerReceives
<1>4. Foreign(of, m.of) \subseteq Streams \X Streams /\ \A p \in Foreign(of, m.of) : p[1] = of
  BY <1>1, <1>2 DEF Foreign
<1>5. /\ Free.kind = "none" /\ Free.of = NoStream
      /\ Active(m.of).kind = "active" /\ Active(m.of).of = m.of
  BY DEF Free, Active
<1>6. TypeOK'
  <2>1. \A j \in Convs : manager'[j].kind = "none" <=> manager'[j].of = NoStream
    <3>1. \A j \in Convs : manager[j].kind = "none" <=> manager[j].of = NoStream
      BY DEF Base, TypeOK
    <3> QED BY <1>1, <1>2, <1>5, <3>1
  <2>2. mixed' \subseteq Streams \X Streams /\ untidy' \subseteq Streams
    BY <1>1, <1>2, <1>4 DEF Base, TypeOK
  <2>3. net' \subseteq Datagram /\ Addressed'
    <3> DEFINE reply == IF dead THEN {Msg("connector", k, m.of, "clf")}
                        ELSE IF m.type = "cls" /\ state = "open"
                             THEN {Msg("connector", k, of, "cls")} ELSE {}
    <3>1. reply = {} \/ \E d \in Streams, type \in {"data", "cls", "clf"} :
                         /\ reply = {Msg("connector", k, d, type)}
                         /\ core[d] # "none" /\ conv[d] = k
      BY <1>1, <1>2
    <3>2. net' = (net \ {m}) \union reply
      BY <1>2
    <3> HIDE DEF reply, dead
    <3> QED BY <1>3, <3>1, <3>2, AnswerBase
  <2> QED BY <1>2, <1>3, <2>1, <2>2, <2>3 DEF Base, TypeOK
<1>7. Addressed'
  <2> DEFINE reply == IF dead THEN {Msg("connector", k, m.of, "clf")}
                      ELSE IF m.type = "cls" /\ state = "open"
                           THEN {Msg("connector", k, of, "cls")} ELSE {}
  <2>1. reply = {} \/ \E d \in Streams, type \in {"data", "cls", "clf"} :
                         /\ reply = {Msg("connector", k, d, type)}
                         /\ core[d] # "none" /\ conv[d] = k
    BY <1>1, <1>2
  <2>2. net' = (net \ {m}) \union reply
    BY <1>2
  <2> HIDE DEF reply, dead
  <2> QED BY <1>3, <2>1, <2>2, AnswerBase
<1>8. Owned' /\ Unheld'
  BY <1>3 DEF Base, Owned, Unheld, Active
<1>9. Managed'
  <2>1. \A j \in Convs \ {k} :
          /\ manager'[j].kind # "none" => conv'[manager'[j].of] = j /\ core'[manager'[j].of] # "none"
          /\ manager'[j].kind = "none" => lcore'[j] = "none"
          /\ manager'[j].kind = "active" => lcore'[j] \in {"open", "closing", "ended"}
          /\ manager'[j].kind \in {"dead", "old"} => lcore'[j] = "cleaned"
    BY <1>2, <1>3, <1>5, OwnersTyped DEF Base, Managed
  <2>2. /\ manager'[k].kind # "none" => conv'[manager'[k].of] = k /\ core'[manager'[k].of] # "none"
        /\ manager'[k].kind = "none" => lcore'[k] = "none"
        /\ manager'[k].kind = "active" => lcore'[k] \in {"open", "closing", "ended"}
        /\ manager'[k].kind \in {"dead", "old"} => lcore'[k] = "cleaned"
    <3>1. CASE new
      BY <1>1, <1>2, <1>3, <1>5, <3>1 DEF state
    <3>2. CASE ~new
      <4>1. manager'[k] = manager[k] /\ state = lcore[k]
        BY <1>2, <3>2 DEF state
      <4>2. manager[k].kind \in {"active", "dead"}
        BY <1>1, <3>2, OwnersTyped DEF Base
      <4>3. lcore'[k] = lcore[k] \/ (manager[k].kind = "active" /\ lcore'[k] = "ended")
        BY <1>2, <4>1, <4>2
      <4>4. /\ conv[manager[k].of] = k /\ core[manager[k].of] # "none"
            /\ manager[k].kind = "active" => lcore[k] \in {"open", "closing", "ended"}
            /\ manager[k].kind = "dead" => lcore[k] = "cleaned"
        BY <1>1, <4>2 DEF Base, Managed
      <4> QED BY <1>3, <4>1, <4>2, <4>3, <4>4
    <3> QED BY <3>1, <3>2
  <2> QED BY <2>1, <2>2 DEF Managed
<1>10. Recorded'
  BY <1>1, <1>2, <1>3, <1>4 DEF Base, Recorded
<1> QED BY <1>6, <1>7, <1>8, <1>9, <1>10 DEF Base

\* A datagram of another stream frees the old entries.
LEMMA HeldBase ==
  ASSUME IndInv, Base, [Next]_vars, IndInv', ConnectorReceivesHeld \/ ListenerReceivesHeld
  PROVE  Base'
<1>1. Free.kind = "none" /\ Free.of = NoStream
  BY DEF Free
<1>2. UNCHANGED <<increment, st, conv, core, net, overlapped, untidy, mixed>>
  BY DEF ConnectorReceivesHeld, ListenerReceivesHeld, history
<1>3. /\ sessions' \in [Convs -> Entry]
      /\ \A k \in Convs : sessions'[k] = sessions[k] \/ (sessions[k].kind = "old" /\ sessions'[k] = Free)
  BY Retained DEF ConnectorReceivesHeld, ListenerReceivesHeld, Base, TypeOK
<1>4. /\ manager' \in [Convs -> Entry] /\ lcore' \in [Convs -> Core]
      /\ \A k \in Convs : \/ manager'[k] = manager[k] /\ lcore'[k] = lcore[k]
                          \/ manager[k].kind = "old" /\ manager'[k] = Free /\ lcore'[k] = "none"
  <2>1. CASE ConnectorReceivesHeld
    BY <2>1 DEF ConnectorReceivesHeld, Base, TypeOK
  <2>2. CASE ListenerReceivesHeld
    <3>1. /\ manager' \in [Convs -> Entry]
          /\ \A k \in Convs : manager'[k] = IF manager[k].kind = "old" THEN Free ELSE manager[k]
      BY <2>2, Retained DEF ListenerReceivesHeld, Base, TypeOK
    <3>2. lcore' = [k \in Convs |-> IF manager'[k].kind = "none" THEN "none" ELSE lcore[k]]
      BY <2>2 DEF ListenerReceivesHeld
    <3>3. lcore \in [Convs -> Core] /\ \A k \in Convs : manager[k].kind = "none" => lcore[k] = "none"
      BY DEF Base, TypeOK, Managed
    <3>4. lcore' \in [Convs -> Core]
      BY <3>2, <3>3 DEF Core
    <3> QED BY <1>1, <3>1, <3>2, <3>3, <3>4
  <2> QED BY <2>1, <2>2
<1>5. TypeOK'
  <2>1. \A k \in Held : sessions[k].kind = "active"
    BY DEF Base, Unheld, Active
  <2>2. \A k \in Convs : (sessions'[k].kind = "none" \/ k \in Held) <=> sessions'[k].of = NoStream
    BY <1>1, <1>3, <2>1 DEF Base, TypeOK
  <2>3. \A k \in Convs : manager'[k].kind = "none" <=> manager'[k].of = NoStream
    BY <1>1, <1>4 DEF Base, TypeOK
  <2> QED BY <1>2, <1>3, <1>4, <2>2, <2>3 DEF Base, TypeOK
<1>6. Owned'
  BY <1>1, <1>2, <1>3 DEF Base, Owned
<1>7. Unheld'
  <2>1. Held \subseteq Convs /\ \A k \in Held : sessions[k].kind = "active"
    <3>1. Held \subseteq Convs
      BY DEF Convs
    <3>2. \A k \in Held : sessions[k].kind = "active"
      BY DEF Base, Unheld, Active
    <3> QED BY <3>1, <3>2
  <2>2. \A k \in Held : sessions'[k] = sessions[k]
    BY <1>3, <2>1
  <2> QED BY <1>2, <2>2 DEF Base, Unheld, Active
<1>8. Addressed' /\ Recorded'
  BY <1>2 DEF Base, Addressed, Recorded
<1>9. Managed'
  BY <1>1, <1>2, <1>4 DEF Base, Managed
<1> QED BY <1>5, <1>6, <1>7, <1>8, <1>9 DEF Base

\* The base is kept by every step.
LEMMA BaseStep == IndInv /\ IndInv' /\ Base /\ [Next]_vars => Base'
<1> SUFFICES ASSUME IndInv, IndInv', Base, [Next]_vars PROVE Base'
  OBVIOUS
<1>1. CASE UNCHANGED vars
  BY <1>1 DEF vars, history, Base, TypeOK, Owned, Unheld, Addressed, Managed, Recorded, Active
<1>2. ASSUME NEW c \in Streams, \/ Choose(c) \/ NoMoreConv(c) \/ Insert(c) \/ CloseStream(c)
                                \/ ConnectorSends(c) \/ ConnectorStops(c) \/ Clean(c)
      PROVE  Base'
  BY <1>2, ChooseBase, StreamBase, InsertBase, SendingBase, StopsBase, CleanBase
<1>3. ASSUME NEW k \in Convs,
             \/ ListenerSends(k) \/ CloseAccepted(k) \/ ListenerStops(k) \/ CleanAccepted(k)
             \/ Ages(k) \/ AgesAccepted(k)
      PROVE  Base'
  BY <1>3, SendingBase, AcceptedBase, AgesBase
<1>4. ASSUME NEW m \in net, ConnectorReceives(m) \/ ListenerReceives(m) PROVE Base'
  BY <1>4, ConnectorReceivesBase, ListenerReceivesBase
<1>5. CASE ConnectorReceivesHeld \/ ListenerReceivesHeld
  BY <1>5, HeldBase
<1> QED BY <1>1, <1>2, <1>3, <1>4, <1>5 DEF Next

-----------------------------------------------------------------------------
(* An orderly number leads to one stream at a time.                         *)

\* Nothing of the number is under way, and the listener has no session for it.
Quiet(k) == manager[k].kind # "active" /\ \A m \in net : m.conv # k

\* The listener has opened, or buried, the session of c.
Answering(k, c) == manager[k].kind \in {"active", "dead"} /\ manager[k].of = c

\* A datagram of k, while c has it.
Fits(m, k, c) ==
  /\ m.of = c
  /\ m.to = "connector" /\ m.type # "data" => lcore[k] # "open"
  /\ m.to = "listener" /\ m.type = "cls" => core[c] # "open"
  /\ m.to = "listener" /\ m.type = "clf" => sessions[k].kind = "dead"
  /\ ~Answering(k, c) /\ m.type # "clf" => m.to = "listener" /\ core[c] \in {"open", "closing"}
  /\ ~Answering(k, c) /\ m.type = "clf" => sessions[k].kind = "dead"

\* All of k is of c; the ends of c agree on whether it is open.
OneStream(k, c) ==
  /\ sessions[k].kind = "active" => core[c] \in {"open", "closing", "ended"}
  /\ manager[k].kind = "active" => manager[k].of = c
  /\ lcore[k] = "open" => core[c] \in {"open", "closing"}
  /\ manager[k].of = c /\ lcore[k] \in {"ended", "cleaned"} => core[c] # "open"
  /\ \A m \in net : m.conv = k => Fits(m, k, c)

\* A number leads to one stream, or to none.
AloneAt(k) ==
  IF sessions[k].kind \in {"active", "dead"} THEN OneStream(k, sessions[k].of) ELSE Quiet(k)

\* Orderly numbers lead to one stream each, and a chosen one to none.
Apart ==
  /\ \A k \in Convs \ Held : Orderly(k) => AloneAt(k)
  /\ \A c \in Streams : st[c] = "chosen" /\ ~Tangled(conv[c]) => sessions[conv[c]].kind = "none"

\* A number that is orderly was so before.
LEMMA OrderlyBefore ==
  ASSUME IndInv, Base, Base', [Next]_vars, NEW k \in Convs, Orderly(k)'
  PROVE  Orderly(k)
<1>1. ASSUME NEW c \in overlapped PROVE c \in overlapped' /\ conv'[c] = conv[c]
  <2>1. c \in Streams /\ st[c] # "idle"
    BY DEF IndInv, Inserted, Typed
  <2>2. CASE \E d \in Streams : Choose(d)
    <3>1. PICK d \in Streams : Choose(d)
      BY <2>2
    <3>2. d # c
      BY <2>1, <3>1 DEF Choose
    <3>3. PICK x : conv' = [conv EXCEPT ![d] = x]
      BY <3>1 DEF Choose
    <3> QED BY <2>1, <3>1, <3>2, <3>3 DEF Choose, Overlaps, Base, TypeOK
  <2>3. CASE ~\E d \in Streams : Choose(d)
    BY <2>1, <2>3
    DEF Next, vars, history, NoMoreConv, Insert, CloseStream, ConnectorSends, ConnectorStops, Clean,
        ListenerSends, CloseAccepted, ListenerStops, CleanAccepted, Ages, AgesAccepted,
        ConnectorReceives, ListenerReceives, ConnectorReceivesHeld, ListenerReceivesHeld
  <2> QED BY <2>2, <2>3
<1>2. ASSUME NEW c \in untidy PROVE c \in untidy' /\ conv'[c] = conv[c]
  <2>1. c \in Streams /\ core[c] # "none"
    BY DEF Base, TypeOK, Recorded
  <2>2. conv'[c] = conv[c]
    BY <2>1, Lasting
  <2>3. untidy \subseteq untidy'
    BY DEF Next, vars, history, Choose, NoMoreConv, Insert, CloseStream, ConnectorSends, ConnectorStops, Clean,
        ListenerSends, CloseAccepted, ListenerStops, CleanAccepted, Ages, AgesAccepted,
        ConnectorReceives, ListenerReceives, ConnectorReceivesHeld, ListenerReceivesHeld
  <2> QED BY <2>2, <2>3
<1> QED BY <1>1, <1>2 DEF Orderly, Tangled

\* While a number is orderly, a stream whose task is not over is the one it leads to.
LEMMA LiveIs ==
  ASSUME IndInv, Base, NEW k \in Convs, Orderly(k), NEW c \in Streams, conv[c] = k, Live(c)
  PROVE  sessions[k].kind = "active" /\ sessions[k].of = c
BY ActiveEntry DEF IndInv, Found, Orderly

\* What does not touch a number.
LEMMA Untouched ==
  ASSUME Base, NEW k \in Convs \ Held, AloneAt(k),
         \/ sessions'[k] = sessions[k]
         \/ sessions[k].kind = "old" /\ sessions'[k] = Free,
         \/ manager'[k] = manager[k] /\ lcore'[k] = lcore[k]
         \/ manager[k].kind = "old" /\ manager'[k] = Free /\ lcore'[k] = "none",
         \A m \in net' : m.conv = k => m \in net,
         \/ core'[sessions[k].of] = core[sessions[k].of]
         \/ core[sessions[k].of] = "open" /\ core'[sessions[k].of] = "closing"
         \/ sessions[k].of \notin Streams
  PROVE  AloneAt(k)'
<1>1. Free.kind = "none" /\ Free.of = NoStream
  BY DEF Free
<1>2. CASE sessions[k].kind \in {"active", "dead"}
  <2> DEFINE c == sessions[k].of
  <2>1. c \in Streams /\ sessions'[k] = sessions[k]
    BY <1>2, OwnersTyped DEF Base
  <2>2. OneStream(k, c)
    BY <1>2 DEF AloneAt
  <2>3. core'[c] = core[c] \/ (core[c] = "open" /\ core'[c] = "closing")
    BY <2>1
  <2> HIDE DEF c
  <2>4. CASE manager'[k] = manager[k] /\ lcore'[k] = lcore[k]
    <3>1. OneStream(k, c)'
      BY <2>1, <2>2, <2>3, <2>4 DEF OneStream, Fits, Answering, c
    <3> QED BY <1>2, <2>1, <3>1 DEF AloneAt, c
  <2>5. CASE manager[k].kind = "old" /\ manager'[k] = Free /\ lcore'[k] = "none"
    <3>1. OneStream(k, c)'
      BY <1>1, <2>1, <2>2, <2>3, <2>5 DEF OneStream, Fits, Answering, c
    <3> QED BY <1>2, <2>1, <3>1 DEF AloneAt, c
  <2> QED BY <2>4, <2>5
<1>3. CASE sessions[k].kind \notin {"active", "dead"}
  <2>1. Quiet(k)'
    BY <1>1, <1>3 DEF AloneAt, Quiet
  <2> QED BY <1>1, <1>3, <2>1 DEF AloneAt
<1> QED BY <1>2, <1>3

\* The steps that change neither map nor the network.
LEMMA ConnectApart ==
  ASSUME IndInv, Base, Apart, IndInv', Base', [Next]_vars, NEW c \in Streams,
         Choose(c) \/ NoMoreConv(c) \/ CloseStream(c) \/ ConnectorStops(c),
         NEW k \in Convs \ Held, Orderly(k)'
  PROVE  AloneAt(k)'
<1>1. Orderly(k) /\ AloneAt(k)
  BY OrderlyBefore DEF Apart
<1>2. UNCHANGED <<sessions, manager, lcore, net>>
  BY DEF Choose, NoMoreConv, CloseStream, ConnectorStops
<1>3. \A d \in Streams : \/ core'[d] = core[d]
                         \/ core[d] = "open" /\ core'[d] = "closing"
                         \/ d = c /\ c \in untidy' /\ conv'[c] = conv[c]
  BY DEF Choose, NoMoreConv, CloseStream, ConnectorStops, SetCore, Base, TypeOK
<1>4. sessions[k].of \in Streams => conv[sessions[k].of] = k
  BY DEF Base, Owned
<1>5. sessions[k].of = c /\ c \in untidy' /\ conv'[c] = conv[c] => ~Orderly(k)'
  BY <1>4 DEF Orderly
<1> QED BY <1>1, <1>2, <1>3, <1>5, Untouched

\* A session is put in the map: its number was free at both ends, or the number is tangled.
LEMMA InsertApart ==
  ASSUME IndInv, Base, Apart, IndInv', Base', [Next]_vars, NEW c \in Streams, Insert(c),
         NEW k \in Convs \ Held, Orderly(k)'
  PROVE  AloneAt(k)'
<1>1. Orderly(k) /\ AloneAt(k)
  BY OrderlyBefore DEF Apart
<1>2. /\ st[c] = "chosen" /\ core' = [core EXCEPT ![c] = "open"]
      /\ sessions' = [sessions EXCEPT ![conv[c]] = Active(c)]
      /\ UNCHANGED <<manager, lcore, net>>
  BY DEF Insert
<1>3. sessions[k].of \in Streams => conv[sessions[k].of] = k
  BY DEF Base, Owned
<1>4. CASE conv[c] # k
  <2>1. sessions'[k] = sessions[k]
    BY <1>2, <1>4 DEF Base, TypeOK
  <2>2. core'[sessions[k].of] = core[sessions[k].of] \/ sessions[k].of \notin Streams
    BY <1>2, <1>3, <1>4 DEF Base, TypeOK
  <2> QED BY <1>1, <1>2, <2>1, <2>2, Untouched
<1>5. CASE conv[c] = k
  <2>1. sessions[k].kind = "none" /\ core[c] = "none"
    BY <1>1, <1>2, <1>5 DEF Apart, Orderly, IndInv, Inserted
  <2>2. Quiet(k)
    BY <1>1, <2>1 DEF AloneAt
  <2>3. sessions'[k].kind = "active" /\ sessions'[k].of = c
    BY <1>2, <1>5, ActiveEntry DEF Base, TypeOK
  <2>4. manager[k].kind \in {"none", "dead", "old"} /\ lcore[k] \in {"none", "cleaned"}
    BY <2>2, OwnersTyped DEF Quiet, Base, Managed
  <2>5. manager[k].of = c => lcore[k] = "none"
    BY <2>1, <2>4 DEF Base, Managed
  <2>6. core'[c] = "open"
    BY <1>2 DEF Base, TypeOK
  <2>7. OneStream(k, c)'
    BY <1>2, <2>2, <2>4, <2>5, <2>6 DEF OneStream, Quiet
  <2> QED BY <2>3, <2>7 DEF AloneAt
<1> QED BY <1>4, <1>5

\* The end of a stream buries its own session.
LEMMA CleanApart ==
  ASSUME IndInv, Base, Apart, IndInv', Base', [Next]_vars, NEW c \in Streams, Clean(c),
         NEW k \in Convs \ Held, Orderly(k)'
  PROVE  AloneAt(k)'
<1>1. Orderly(k) /\ AloneAt(k)
  BY OrderlyBefore DEF Apart
<1>2. core[c] = "ended" /\ Live(c) /\ UNCHANGED <<manager, lcore, net>>
  BY DEF Clean, Live
<1>3. sessions[k].of \in Streams => conv[sessions[k].of] = k
  BY DEF Base, Owned
<1>4. CASE conv[c] # k
  <2>0. conv[c] \in Convs
    BY DEF Base, TypeOK
  <2>1. sessions'[k] = sessions[k]
    BY <1>4 DEF Clean, Base, TypeOK
  <2>2. core'[sessions[k].of] = core[sessions[k].of] \/ sessions[k].of \notin Streams
    <3>1. sessions[conv[c]].of \in Streams => conv[sessions[conv[c]].of] = conv[c]
      BY <2>0 DEF Base, Owned
    <3>2. sessions[k].of \in Streams => sessions[k].of # c /\ sessions[k].of # sessions[conv[c]].of
      BY <1>3, <1>4, <3>1
    <3> QED BY <3>2 DEF Clean, SetCore, Base, TypeOK
  <2> QED BY <1>1, <1>2, <2>1, <2>2, Untouched
<1>5. CASE conv[c] = k
  <2>1. sessions[k].kind = "active" /\ sessions[k].of = c
    BY <1>1, <1>2, <1>5, LiveIs
  <2>2. sessions' = [sessions EXCEPT ![k].kind = "dead"] /\ core'[c] = "cleaned"
    BY <1>5, <2>1 DEF Clean, Base, TypeOK
  <2>3. sessions'[k].kind = "dead" /\ sessions'[k].of = c
    <3>1. sessions[k] \in Entry /\ sessions \in [Convs -> Entry]
      BY DEF Base, TypeOK
    <3>2. sessions'[k] = [sessions[k] EXCEPT !.kind = "dead"]
      BY <2>2, <3>1
    <3> QED BY <2>1, <3>1, <3>2 DEF Entry
  <2>4. OneStream(k, c)
    BY <1>1, <2>1 DEF AloneAt
  <2>5. OneStream(k, c)'
    BY <1>2, <2>2, <2>3, <2>4 DEF OneStream, Fits, Answering
  <2> QED BY <2>3, <2>5 DEF AloneAt
<1> QED BY <1>4, <1>5

\* The connector sends for its own stream.
LEMMA ConnectorSendsApart ==
  ASSUME IndInv, Base, Apart, IndInv', Base', [Next]_vars, NEW c \in Streams, ConnectorSends(c),
         NEW k \in Convs \ Held, Orderly(k)'
  PROVE  AloneAt(k)'
<1>1. Orderly(k) /\ AloneAt(k)
  BY OrderlyBefore DEF Apart
<1>2. /\ UNCHANGED <<core, sessions, manager, lcore>> /\ core[c] \in {"open", "closing"}
      /\ \E type \in {"data", "cls"} : /\ net' = net \union {Msg("listener", conv[c], c, type)}
                                       /\ type = "cls" => core[c] = "closing"
  BY DEF ConnectorSends
<1>3. PICK type \in {"data", "cls", "clf"} : /\ net' = net \union {Msg("listener", conv[c], c, type)}
                                             /\ type = "cls" => core[c] = "closing"
                                             /\ type # "clf"
  BY <1>2
<1>4. PICK n : /\ n.to = "listener" /\ n.conv = conv[c] /\ n.of = c /\ n.type = type
               /\ net' = net \union {n}
  <2>1. LET n == Msg("listener", conv[c], c, type)
        IN n.to = "listener" /\ n.conv = conv[c] /\ n.of = c /\ n.type = type
    BY Datagrams DEF Base, TypeOK
  <2> QED BY <1>3, <2>1
<1>6. CASE conv[c] # k
  <2>1. \A m \in net' : m.conv = k => m \in net
    BY <1>4, <1>6
  <2> QED BY <1>1, <1>2, <2>1, Untouched
<1>7. CASE conv[c] = k
  <2>1. sessions[k].kind = "active" /\ sessions[k].of = c
    BY <1>1, <1>2, <1>7, LiveIs DEF Live
  <2>2. OneStream(k, c)
    BY <1>1, <2>1 DEF AloneAt
  <2>3. Fits(n, k, c)'
    BY <1>2, <1>3, <1>4 DEF Fits
  <2>4. OneStream(k, c)'
    BY <1>2, <1>4, <2>2, <2>3 DEF OneStream, Fits, Answering
  <2> QED BY <1>2, <2>1, <2>4 DEF AloneAt
<1> QED BY <1>6, <1>7

\* The listener answers for the stream of its session.
LEMMA ListenerSendsApart ==
  ASSUME IndInv, Base, Apart, IndInv', Base', [Next]_vars, NEW j \in Convs, ListenerSends(j),
         NEW k \in Convs \ Held, Orderly(k)'
  PROVE  AloneAt(k)'
<1>1. Orderly(k) /\ AloneAt(k)
  BY OrderlyBefore DEF Apart
<1>2. /\ UNCHANGED <<core, sessions, manager, lcore>> /\ lcore[j] \in {"open", "closing"}
      /\ \E type \in {"data", "cls"} : /\ net' = net \union {Msg("connector", j, manager[j].of, type)}
                                       /\ type = "cls" => lcore[j] = "closing"
  BY DEF ListenerSends
<1>3. PICK type \in {"data", "cls", "clf"} : /\ net' = net \union {Msg("connector", j, manager[j].of, type)}
                                             /\ type = "cls" => lcore[j] = "closing"
                                             /\ type # "clf"
  BY <1>2
<1>4. manager[j].kind = "active" /\ manager[j].of \in Streams
  BY <1>2, OwnersTyped DEF Base, Managed
<1>5. PICK n : /\ n.to = "connector" /\ n.conv = j /\ n.of = manager[j].of /\ n.type = type
               /\ net' = net \union {n}
  <2>1. LET n == Msg("connector", j, manager[j].of, type)
        IN n.to = "connector" /\ n.conv = j /\ n.of = manager[j].of /\ n.type = type
    BY <1>4, Datagrams
  <2> QED BY <1>3, <2>1
<1>6. CASE j # k
  <2>1. \A m \in net' : m.conv = k => m \in net
    BY <1>5, <1>6
  <2> QED BY <1>1, <1>2, <2>1, Untouched
<1>7. CASE j = k
  <2> DEFINE c == sessions[k].of
  <2>1. sessions[k].kind \in {"active", "dead"} /\ OneStream(k, c)
    BY <1>1, <1>4, <1>7 DEF AloneAt, Quiet
  <2>2. manager[k].of = c
    BY <1>4, <1>7, <2>1 DEF OneStream
  <2>3. c' = c
    BY <1>2
  <2> HIDE DEF c
  <2>4. Fits(n, k, c)'
    BY <1>2, <1>3, <1>4, <1>5, <1>7, <2>2, <2>3 DEF Fits, Answering
  <2>5. OneStream(k, c)'
    BY <1>2, <1>5, <2>1, <2>3, <2>4 DEF OneStream, Fits, Answering
  <2> QED BY <1>2, <2>1, <2>5 DEF AloneAt, c
<1> QED BY <1>6, <1>7

\* A stream the listener accepted is closed or ends.
LEMMA AcceptedApart ==
  ASSUME IndInv, Base, Apart, IndInv', Base', [Next]_vars, NEW j \in Convs,
         CloseAccepted(j) \/ ListenerStops(j) \/ CleanAccepted(j),
         NEW k \in Convs \ Held, Orderly(k)'
  PROVE  AloneAt(k)'
<1>1. Orderly(k) /\ AloneAt(k)
  BY OrderlyBefore DEF Apart
<1>2. /\ UNCHANGED <<core, conv, sessions, net>> /\ lcore[j] \in {"open", "closing", "ended"}
      /\ \A i \in Convs \ {j} : manager'[i] = manager[i] /\ lcore'[i] = lcore[i]
  BY DEF CloseAccepted, ListenerStops, CleanAccepted, SetLcore, Base, TypeOK
<1>3. manager[j].kind = "active" /\ manager[j].of \in Streams /\ conv[manager[j].of] = j
  BY <1>2, OwnersTyped DEF Base, Managed
<1>4. CASE j # k
  BY <1>1, <1>2, <1>4, Untouched
<1>5. CASE j = k
  <2> DEFINE c == sessions[k].of
  <2>1. sessions[k].kind \in {"active", "dead"} /\ OneStream(k, c)
    BY <1>1, <1>3, <1>5 DEF AloneAt, Quiet
  <2>2. manager[k].of = c
    BY <1>3, <1>5, <2>1 DEF OneStream
  <2>3. c' = c
    BY <1>2
  <2> HIDE DEF c
  <2>4. CASE CloseAccepted(j)
    <3>1. lcore[k] = "open" /\ lcore'[k] = "closing" /\ manager' = manager
      BY <1>5, <2>4 DEF CloseAccepted, SetLcore, Base, TypeOK
    <3> QED BY <1>2, <2>1, <2>3, <3>1 DEF AloneAt, OneStream, Fits, Answering, c
  <2>5. CASE ListenerStops(j)
    <3>1. manager[k].of \in untidy' /\ conv'[manager[k].of] = k
      BY <1>2, <1>3, <1>5, <2>5 DEF ListenerStops
    <3> QED BY <3>1 DEF Orderly
  <2>6. CASE CleanAccepted(j)
    <3>1. lcore[k] = "ended" /\ lcore'[k] = "cleaned" /\ manager' = [manager EXCEPT ![k].kind = "dead"]
      BY <1>5, <2>6 DEF CleanAccepted, SetLcore, Base, TypeOK
    <3>2. manager'[k].kind = "dead" /\ manager'[k].of = c
      <4>1. manager[k] \in Entry /\ manager \in [Convs -> Entry]
        BY DEF Base, TypeOK
      <4>2. manager'[k] = [manager[k] EXCEPT !.kind = "dead"]
        BY <3>1, <4>1
      <4> QED BY <2>2, <4>1, <4>2 DEF Entry
    <3>3. OneStream(k, c)'
      BY <1>2, <1>3, <1>5, <2>1, <2>2, <2>3, <3>1, <3>2 DEF OneStream, Fits, Answering
    <3> QED BY <1>2, <2>1, <3>3 DEF AloneAt, c
  <2> QED BY <2>4, <2>5, <2>6
<1> QED BY <1>4, <1>5

\* A session that was buried is forgotten thirty seconds later.
LEMMA AgesApart ==
  ASSUME IndInv, Base, Apart, IndInv', Base', [Next]_vars, NEW j \in Convs,
         Ages(j) \/ AgesAccepted(j),
         NEW k \in Convs \ Held, Orderly(k)'
  PROVE  AloneAt(k)'
<1>1. Orderly(k) /\ AloneAt(k)
  BY OrderlyBefore DEF Apart
<1>2. UNCHANGED <<core, conv, lcore>> /\ net' \subseteq net
  BY DEF Ages, AgesAccepted, StillUnderWay
<1>3. CASE j # k
  <2>1. sessions'[k] = sessions[k] /\ manager'[k] = manager[k]
    BY <1>3 DEF Ages, AgesAccepted, Base, TypeOK
  <2> QED BY <1>1, <1>2, <2>1, Untouched
<1>4. CASE j = k /\ Ages(j)
  <2> DEFINE c == sessions[k].of
  <2>1. /\ sessions[k].kind = "dead" /\ c \in Streams /\ OneStream(k, c) /\ Settled(k)
        /\ sessions' = [sessions EXCEPT ![k].kind = "old"] /\ manager' = manager
    BY <1>1, <1>4, OwnersTyped DEF Ages, AloneAt, Base
  <2>2. \A d \in Streams : conv[d] = k => ~Live(d)
    BY <1>1, <2>1, LiveIs
  <2>3. conv[c] = k
    BY <2>1 DEF Base, Owned
  <2>4. lcore[k] \notin {"open", "closing", "ended"}
    BY <2>1, <2>2, <2>3 DEF OneStream, Live, Settled
  <2>5. manager[k].kind # "active"
    BY <2>4 DEF Base, Managed
  <2>8. net' = StillUnderWay(k, {})
    <3>1. PICK late : /\ net' = StillUnderWay(k, late)
                      /\ untidy' = untidy \union (IF late = {} THEN {} ELSE {c})
      BY <1>4 DEF Ages
    <3>2. late # {} => c \in untidy' /\ conv'[c] = k
      BY <1>2, <2>3, <3>1
    <3> QED BY <3>1, <3>2 DEF Orderly
  <2>6. \A m \in net' : m.conv # k
    BY <1>1, <2>2, <2>4, <2>8 DEF StillUnderWay, Live
  <2>7. sessions'[k].kind = "old"
    <3>1. sessions[k] \in Entry /\ sessions \in [Convs -> Entry]
      BY DEF Base, TypeOK
    <3>2. sessions'[k] = [sessions[k] EXCEPT !.kind = "old"]
      BY <2>1, <3>1
    <3> QED BY <3>1, <3>2 DEF Entry
  <2> QED BY <2>1, <2>5, <2>6, <2>7 DEF AloneAt, Quiet
<1>5. CASE j = k /\ AgesAccepted(j)
  <2> DEFINE c == sessions[k].of
  <2>1. /\ manager[k].kind = "dead" /\ Settled(k) /\ sessions' = sessions
        /\ manager' = [manager EXCEPT ![k].kind = "old"]
        /\ \E late \in SUBSET Refusals(k) : net' = StillUnderWay(k, late)
    BY <1>5 DEF AgesAccepted
  <2>2. manager'[k].kind = "old" /\ manager'[k].of = manager[k].of
    <3>1. manager[k] \in Entry /\ manager \in [Convs -> Entry]
      BY DEF Base, TypeOK
    <3>2. manager'[k] = [manager[k] EXCEPT !.kind = "old"]
      BY <2>1, <3>1
    <3> QED BY <3>1, <3>2 DEF Entry
  <2>3. lcore[k] = "cleaned"
    BY <2>1 DEF Base, Managed
  <2>4. CASE sessions[k].kind \notin {"active", "dead"}
    BY <1>1, <1>2, <2>1, <2>2, <2>4 DEF AloneAt, Quiet
  <2>5. CASE sessions[k].kind \in {"active", "dead"}
    <3>1. c \in Streams /\ OneStream(k, c) /\ c' = c /\ conv[c] = k
      BY <1>1, <2>1, <2>5, OwnersTyped DEF AloneAt, Base, Owned
    <3> HIDE DEF c
    <3>2. CASE manager[k].of = c
      <4>1. ~\E d \in Streams : conv[d] = k /\ core[d] = "open"
        <5>1. \A d \in Streams : conv[d] = k /\ core[d] = "open" => d = c
          BY <1>1, LiveIs DEF Live, c
        <5> QED BY <2>3, <3>1, <3>2, <5>1 DEF OneStream
      <4>2. \A m \in net' : m \in net /\ (m.conv = k => m.type = "clf")
        BY <1>1, <2>1, <2>3, <4>1 DEF StillUnderWay, Refusals
      <4>3. sessions[k].kind = "dead"
        <5>1. ~Live(c)
          BY <2>1, <3>1, <4>1 DEF Settled, Live
        <5> QED BY <2>5, <3>1, <5>1 DEF OneStream, Live, c
      <4>4. ASSUME NEW m \in net', m.conv = k PROVE Fits(m, k, c)'
        <5>1. Fits(m, k, c) /\ m.type = "clf"
          BY <3>1, <4>2, <4>4 DEF OneStream
        <5> QED BY <1>2, <2>1, <2>3, <3>1, <4>3, <5>1 DEF Fits
      <4>5. OneStream(k, c)'
        BY <1>2, <2>1, <2>2, <2>3, <3>1, <3>2, <4>3, <4>4 DEF OneStream
      <4> QED BY <2>1, <2>5, <4>5 DEF AloneAt, c
    <3>3. CASE manager[k].of # c
      <4>1. ~Answering(k, c) /\ ~Answering(k, c)'
        BY <2>2, <3>1, <3>3 DEF Answering
      <4>2. OneStream(k, c)'
        BY <1>2, <2>1, <2>2, <2>3, <3>1, <3>3, <4>1 DEF OneStream, Fits
      <4> QED BY <2>1, <2>5, <4>2 DEF AloneAt, c
    <3> QED BY <3>2, <3>3
  <2> QED BY <2>4, <2>5
<1> QED BY <1>3, <1>4, <1>5

\* The one stream of an orderly number of which something is under way.
LEMMA ReceivedOf ==
  ASSUME IndInv, Base, Apart, NEW m \in net, Orderly(m.conv)
  PROVE  /\ sessions[m.conv].kind \in {"active", "dead"} /\ m.of = sessions[m.conv].of
         /\ m.of \in Streams /\ conv[m.of] = m.conv
         /\ OneStream(m.conv, m.of) /\ Fits(m, m.conv, m.of)
<1>1. m.conv \in Convs \ Held
  BY Received
<1>2. AloneAt(m.conv)
  BY <1>1 DEF Apart
<1>3. sessions[m.conv].kind \in {"active", "dead"} /\ OneStream(m.conv, sessions[m.conv].of)
  BY <1>2 DEF AloneAt, Quiet
<1>4. Fits(m, m.conv, sessions[m.conv].of)
  BY <1>3 DEF OneStream
<1> QED BY <1>3, <1>4, Received DEF Fits

\* What the connector does with a datagram of an orderly number.
LEMMA ConnectorReceivesApart ==
  ASSUME IndInv, Base, Apart, IndInv', Base', [Next]_vars, NEW m \in net, ConnectorReceives(m),
         NEW k \in Convs \ Held, Orderly(k)'
  PROVE  AloneAt(k)'
<1> DEFINE s == sessions'[m.conv]
<1>1. Orderly(k) /\ AloneAt(k)
  BY OrderlyBefore DEF Apart
<1>2. /\ m.conv \in Convs \ Held /\ m.of \in Streams /\ m.type \in {"data", "cls", "clf"}
  BY Received
<1>3. \A j \in Convs : sessions'[j] = IF sessions[j].kind = "old" THEN Free ELSE sessions[j]
  BY Retained DEF ConnectorReceives, Base, TypeOK
<1>4. s.kind = "active" => s = sessions[m.conv] /\ s.of \in Streams /\ conv[s.of] = m.conv
  <2>1. s.kind = "active" => s = sessions[m.conv]
    BY <1>2, <1>3, FreeEntry
  <2> QED BY <1>2, <2>1, OwnersTyped DEF Base, Owned
<1>5. /\ UNCHANGED <<conv, manager, lcore>> /\ m.to = "connector"
      /\ \/ /\ s.kind # "active" /\ core' = core
            /\ net' = (net \ {m}) \union {Msg("listener", m.conv, m.of, "clf")}
         \/ /\ s.kind = "active" /\ m.type = "data" /\ core' = core /\ net' = net \ {m}
         \/ /\ s.kind = "active" /\ m.type # "data" /\ core[s.of] \notin {"open", "closing"}
            /\ core' = core /\ net' = net \ {m}
         \/ /\ s.kind = "active" /\ m.type # "data" /\ core[s.of] \in {"open", "closing"}
            /\ core' = [core EXCEPT ![s.of] = "ended"]
            /\ net' = net \ {m} \/ net' = (net \ {m}) \union {Msg("listener", m.conv, s.of, "cls")}
  BY <1>2 DEF ConnectorReceives, SetCore
<1> HIDE DEF s
<1>6. CASE m.conv # k
  <2>1. \A n \in net' : n.conv = k => n \in net
    BY <1>2, <1>4, <1>5, <1>6, Datagrams
  <2>2. core'[sessions[k].of] = core[sessions[k].of] \/ sessions[k].of \notin Streams
    <3>1. sessions[k].of \in Streams => conv[sessions[k].of] = k
      BY DEF Base, Owned
    <3> QED BY <1>4, <1>5, <1>6, <3>1 DEF Base, TypeOK
  <2> QED BY <1>1, <1>3, <1>5, <2>1, <2>2, Untouched
<1>7. CASE m.conv = k
  <2>1. PICK c \in Streams :
          /\ sessions[k].kind \in {"active", "dead"} /\ c = sessions[k].of /\ m.of = c /\ conv[c] = k
          /\ OneStream(k, c) /\ Fits(m, k, c)
    BY <1>1, <1>7, ReceivedOf
  <2>2. Answering(k, c) \/ sessions[k].kind = "dead"
    BY <1>5, <1>2, <2>1 DEF Fits
  <2>3. sessions'[k] = sessions[k] /\ s = sessions[k]
    BY <1>3, <1>7, <2>1 DEF s
  <2>4. CASE s.kind # "active"
    <3>1. PICK n : /\ n.to = "listener" /\ n.conv = k /\ n.of = c /\ n.type = "clf"
                   /\ net' = (net \ {m}) \union {n}
      <4>1. LET n == Msg("listener", k, c, "clf")
            IN n.to = "listener" /\ n.conv = k /\ n.of = c /\ n.type = "clf"
        BY Datagrams
      <4> QED BY <1>5, <1>7, <2>1, <2>4, <4>1
    <3>2. core' = core /\ sessions[k].kind = "dead"
      BY <1>5, <2>1, <2>3, <2>4
    <3>3. Fits(n, k, c)'
      BY <1>5, <2>2, <2>3, <3>1, <3>2 DEF Fits, Answering
    <3>4. OneStream(k, c)'
      BY <1>5, <2>1, <2>2, <2>3, <3>1, <3>2, <3>3 DEF OneStream, Fits, Answering
    <3> QED BY <2>1, <2>3, <3>4 DEF AloneAt
  <2>5. CASE core' = core /\ net' = net \ {m}
    <3>1. OneStream(k, c)'
      BY <1>5, <2>1, <2>3, <2>5 DEF OneStream, Fits, Answering
    <3> QED BY <2>1, <2>3, <3>1 DEF AloneAt
  <2>6. CASE /\ s.kind = "active" /\ m.type # "data" /\ core[s.of] \in {"open", "closing"}
             /\ core' = [core EXCEPT ![s.of] = "ended"]
             /\ net' = net \ {m} \/ net' = (net \ {m}) \union {Msg("listener", m.conv, s.of, "cls")}
    <3>1. s.of = c /\ core'[c] = "ended" /\ lcore[k] # "open"
      BY <1>5, <2>1, <2>3, <2>6 DEF Base, TypeOK, Fits
    <3>2. \A n \in net' : \/ n \in net
                          \/ n.to = "listener" /\ n.conv = k /\ n.of = c /\ n.type = "cls"
      BY <1>7, <2>6, <3>1, Datagrams
    <3>3. OneStream(k, c)'
      <4>1. \A n \in net' : n.conv = k => Fits(n, k, c)'
        <5> SUFFICES ASSUME NEW n \in net', n.conv = k PROVE Fits(n, k, c)'
          OBVIOUS
        <5>1. CASE n \in net
          <6>1. Fits(n, k, c)
            BY <2>1, <5>1 DEF OneStream
          <6> QED BY <1>5, <2>2, <2>3, <3>1, <6>1 DEF Fits, Answering
        <5>2. CASE n.to = "listener" /\ n.conv = k /\ n.of = c /\ n.type = "cls"
          BY <1>5, <2>2, <2>3, <2>6, <3>1, <5>2 DEF Fits, Answering
        <5> QED BY <3>2, <5>1, <5>2
      <4> QED BY <1>5, <2>1, <3>1, <4>1 DEF OneStream
    <3> QED BY <2>1, <2>3, <3>3 DEF AloneAt
  <2> QED BY <1>5, <2>4, <2>5, <2>6
<1> QED BY <1>6, <1>7

\* What the listener does with one.
LEMMA ListenerReceivesApart ==
  ASSUME IndInv, Base, Apart, IndInv', Base', [Next]_vars, NEW m \in net, ListenerReceives(m),
         NEW k \in Convs \ Held, Orderly(k)'
  PROVE  AloneAt(k)'
<1> DEFINE j == m.conv
           new == manager[j].kind \in {"none", "old"}
           of == IF new THEN m.of ELSE manager[j].of
           dead == manager[j].kind = "dead"
           state == IF new THEN "open" ELSE lcore[j]
<1>1. Orderly(k) /\ AloneAt(k)
  BY OrderlyBefore DEF Apart
<1>2. /\ j \in Convs \ Held /\ m.of \in Streams /\ m.type \in {"data", "cls", "clf"}
      /\ conv[m.of] = j /\ m.to = "listener"
      /\ UNCHANGED <<conv, core, sessions>>
  BY Received DEF ListenerReceives
<1>3. /\ manager'[j] = IF new THEN Active(m.of) ELSE manager[j]
      /\ \A i \in Convs \ {j} : manager'[i] = IF manager[i].kind = "old" THEN Free ELSE manager[i]
      /\ lcore'[j] = IF dead THEN lcore[j]
                     ELSE IF m.type # "data" /\ state \in {"open", "closing"} THEN "ended" ELSE state
      /\ \A i \in Convs \ {j} :
           lcore'[i] = IF manager[i].kind \in {"none", "old"} THEN "none" ELSE lcore[i]
      /\ of \in Streams
      /\ net' = (net \ {m}) \union
           (IF dead THEN {Msg("connector", j, m.of, "clf")}
            ELSE IF m.type = "cls" /\ state = "open"
                 THEN {Msg("connector", j, of, "cls")} ELSE {})
      /\ untidy' = untidy \union (IF dead /\ of # m.of THEN {m.of} ELSE {})
  BY ListenerDoes
<1>4. \A n \in net' : \/ n \in net
                      \/ n.to = "connector" /\ n.conv = j /\ n.of = m.of /\ n.type = "clf" /\ dead
                      \/ /\ n.to = "connector" /\ n.conv = j /\ n.of = of /\ n.type = "cls"
                         /\ m.type = "cls" /\ state = "open" /\ ~dead
  BY <1>2, <1>3, Datagrams
<1>5. CASE j # k
  <2>1. \A n \in net' : n.conv = k => n \in net
    BY <1>4, <1>5
  <2>2. manager[k].kind = "none" => lcore[k] = "none"
    BY DEF Base, Managed
  <2>3. \/ manager'[k] = manager[k] /\ lcore'[k] = lcore[k]
        \/ manager[k].kind = "old" /\ manager'[k] = Free /\ lcore'[k] = "none"
    BY <1>3, <1>5, <2>2
  <2> QED BY <1>1, <1>2, <2>1, <2>3, Untouched
<1>6. CASE j = k
  <2>1. PICK c \in Streams :
          /\ sessions[k].kind \in {"active", "dead"} /\ c = sessions[k].of /\ m.of = c /\ conv[c] = k
          /\ OneStream(k, c) /\ Fits(m, k, c)
    BY <1>1, <1>6, ReceivedOf
  <2>2. \A n \in net : n.conv = k => Fits(n, k, c)
    BY <2>1 DEF OneStream
  <2>3. SUFFICES OneStream(k, c)'
    BY <1>2, <2>1 DEF AloneAt
  <2>4. m.type # "data" => core[c] # "open"
    <3>1. m.type = "cls" => core[c] # "open"
      BY <1>2, <2>1 DEF Fits
    <3>2. m.type = "clf" => sessions[k].kind = "dead"
      BY <1>2, <2>1 DEF Fits
    <3>3. sessions[k].kind = "dead" => core[c] # "open"
      BY <1>1, <2>1, LiveIs DEF Live
    <3> QED BY <1>2, <3>1, <3>2, <3>3
  <2>5. CASE dead
    <3>1. of = c
      <4>1. of # c => c \in untidy'
        BY <1>3, <2>1, <2>5
      <4> QED BY <1>2, <2>1, <4>1 DEF Orderly
    <3>2. /\ manager'[k] = manager[k] /\ manager[k].of = c /\ manager[k].kind = "dead"
          /\ lcore'[k] = lcore[k] /\ lcore[k] = "cleaned"
      BY <1>3, <1>6, <2>5, <3>1 DEF Base, Managed
    <3>3. \A n \in net' : n.conv = k => Fits(n, k, c)'
      BY <1>2, <1>4, <2>1, <2>2, <2>5, <3>2 DEF Fits, Answering
    <3> QED BY <1>2, <2>1, <3>2, <3>3 DEF OneStream
  <2>6. CASE manager[k].kind = "active"
    <3>1. /\ ~new /\ ~dead /\ manager'[k] = manager[k] /\ manager[k].of = c
          /\ of = c /\ state = lcore[k]
      BY <1>3, <1>6, <2>1, <2>6 DEF OneStream
    <3>2. /\ lcore'[k] = lcore[k] \/ (lcore'[k] = "ended" /\ m.type # "data")
          /\ m.type = "cls" /\ state = "open" => lcore'[k] = "ended"
      BY <1>3, <1>6, <3>1
    <3>3. \A n \in net' : n.conv = k => Fits(n, k, c)'
      <4> SUFFICES ASSUME NEW n \in net', n.conv = k PROVE Fits(n, k, c)'
        OBVIOUS
      <4>1. CASE n \in net
        <5>1. Fits(n, k, c)
          BY <2>2, <4>1
        <5> QED BY <1>2, <2>6, <3>1, <3>2, <5>1 DEF Fits, Answering
      <4>2. CASE n \notin net
        <5>1. /\ n.to = "connector" /\ n.of = c /\ n.type = "cls"
              /\ m.type = "cls" /\ state = "open"
          BY <1>4, <3>1, <4>2
        <5> QED BY <1>2, <2>6, <3>1, <3>2, <5>1 DEF Fits, Answering
      <4> QED BY <4>1, <4>2
    <3> QED BY <1>2, <2>1, <2>4, <2>6, <3>1, <3>2, <3>3 DEF OneStream
  <2>7. CASE new
    <3>1. /\ ~dead /\ manager'[k].kind = "active" /\ manager'[k].of = c /\ of = c /\ state = "open"
      BY <1>3, <1>6, <2>1, <2>7, ActiveEntry
    <3>2. /\ ~Answering(k, c)
          /\ m.type # "clf" => core[c] \in {"open", "closing"} /\ sessions[k].kind # "dead"
      <4>1. ~Answering(k, c)
        BY <1>6, <2>7 DEF Answering
      <4>2. m.type # "clf" => core[c] \in {"open", "closing"}
        BY <2>1, <4>1 DEF Fits
      <4>3. core[c] \in {"open", "closing"} => sessions[k].kind # "dead"
        BY <1>1, <2>1, LiveIs DEF Live
      <4> QED BY <4>1, <4>2, <4>3
    <3>3. /\ lcore'[k] = IF m.type # "data" THEN "ended" ELSE "open"
      BY <1>3, <1>6, <3>1
    <3>4. \A n \in net' : n.conv = k => Fits(n, k, c)'
      <4> SUFFICES ASSUME NEW n \in net', n.conv = k PROVE Fits(n, k, c)'
        OBVIOUS
      <4>1. CASE n \in net
        <5>1. Fits(n, k, c) /\ (n.to = "listener" \/ m.type = "clf")
          BY <2>2, <3>2, <4>1 DEF Fits
        <5>2. n.to = "connector" /\ n.type # "data" => lcore'[k] # "open"
          BY <1>2, <3>3, <5>1
        <5> QED BY <1>2, <3>1, <5>1, <5>2 DEF Fits, Answering
      <4>2. CASE n \notin net
        <5>1. /\ n.to = "connector" /\ n.of = c /\ n.type = "cls" /\ m.type = "cls"
          BY <1>4, <3>1, <4>2
        <5> QED BY <1>2, <3>1, <3>3, <5>1 DEF Fits, Answering
      <4> QED BY <4>1, <4>2
    <3> QED BY <1>2, <2>1, <2>4, <3>1, <3>2, <3>3, <3>4 DEF OneStream
  <2> QED BY <1>6, <2>5, <2>6, <2>7, OwnersTyped DEF Base
<1> QED BY <1>5, <1>6

\* What a datagram of another stream frees was free for an orderly number already.
LEMMA HeldApart ==
  ASSUME IndInv, Base, Apart, IndInv', Base', [Next]_vars,
         ConnectorReceivesHeld \/ ListenerReceivesHeld,
         NEW k \in Convs \ Held, Orderly(k)'
  PROVE  AloneAt(k)'
<1>1. Orderly(k) /\ AloneAt(k)
  BY OrderlyBefore DEF Apart
<1>2. UNCHANGED <<core, net>>
  BY DEF ConnectorReceivesHeld, ListenerReceivesHeld
<1>3. CASE ConnectorReceivesHeld
  <2>1. sessions'[k] = IF sessions[k].kind = "old" THEN Free ELSE sessions[k]
    BY <1>3, Retained DEF ConnectorReceivesHeld, Base, TypeOK
  <2>2. manager' = manager /\ lcore' = lcore
    BY <1>3 DEF ConnectorReceivesHeld
  <2> QED BY <1>1, <1>2, <2>1, <2>2, Untouched
<1>4. CASE ListenerReceivesHeld
  <2>1. manager'[k] = IF manager[k].kind = "old" THEN Free ELSE manager[k]
    BY <1>4, Retained DEF ListenerReceivesHeld, Base, TypeOK
  <2>2. lcore'[k] = IF manager'[k].kind = "none" THEN "none" ELSE lcore[k]
    BY <1>4 DEF ListenerReceivesHeld
  <2>3. manager[k].kind = "none" => lcore[k] = "none"
    BY DEF Base, Managed
  <2>4. \/ manager'[k] = manager[k] /\ lcore'[k] = lcore[k]
        \/ manager[k].kind = "old" /\ manager'[k] = Free /\ lcore'[k] = "none"
    BY <2>1, <2>2, <2>3, FreeEntry
  <2>5. sessions' = sessions
    BY <1>4 DEF ListenerReceivesHeld
  <2> QED BY <1>1, <1>2, <2>4, <2>5, Untouched
<1> QED BY <1>3, <1>4

\* Until its session is put in the map, the number that a stream chose is free.
LEMMA ChosenIsFree ==
  ASSUME IndInv, Base, Apart, IndInv', Base', [Next]_vars,
         NEW c \in Streams, st'[c] = "chosen", ~Tangled(conv[c])'
  PROVE  sessions'[conv'[c]].kind = "none"
<1> DEFINE k == conv'[c]
<1>0. k \in Convs /\ conv[c] \in Convs
  BY DEF Base, TypeOK
<1>1. ASSUME NEW d \in Streams, Choose(d) PROVE sessions'[k].kind = "none"
  <2>1. PICK x : /\ sessions[x].kind = "none" /\ conv' = [conv EXCEPT ![d] = x]
                 /\ st' = [st EXCEPT ![d] = "chosen"] /\ sessions' = sessions /\ st[d] = "idle"
                 /\ overlapped \subseteq overlapped'
    BY <1>1 DEF Choose, Overlaps
  <2>2. CASE d = c
    BY <2>1, <2>2 DEF Base, TypeOK
  <2>3. CASE d # c
    <3>1. st[c] = "chosen" /\ conv'[c] = conv[c]
      BY <2>1, <2>3 DEF Base, TypeOK
    <3>2. ~Tangled(conv[c])
      <4>1. \A e \in overlapped : e # d /\ e \in Streams
        BY <2>1 DEF IndInv, Inserted, Typed
      <4>2. \A e \in overlapped : conv'[e] = conv[e]
        BY <2>1, <4>1 DEF Base, TypeOK
      <4> QED BY <2>1, <3>1, <4>2 DEF Tangled
    <3> QED BY <2>1, <3>1, <3>2 DEF Apart
  <2> QED BY <2>2, <2>3
<1>2. ASSUME NEW d \in Streams, Insert(d) PROVE sessions'[k].kind = "none"
  <2>1. /\ st[d] = "chosen" /\ st' = [st EXCEPT ![d] = "open"] /\ UNCHANGED <<conv, overlapped>>
        /\ sessions' = [sessions EXCEPT ![conv[d]] = Active(d)]
    BY <1>2 DEF Insert, history
  <2>2. c # d /\ st[c] = "chosen" /\ ~Tangled(conv[c])
    BY <2>1 DEF Base, TypeOK, Tangled
  <2>3. conv[d] # conv[c]
    BY <2>1, <2>2 DEF IndInv, Distinct, Claims
  <2>4. sessions[conv[c]].kind = "none"
    BY <2>2 DEF Apart
  <2> QED BY <1>0, <2>1, <2>3, <2>4 DEF Base, TypeOK
<1>3. ASSUME NEW d \in Streams, NoMoreConv(d) \/ CloseStream(d) PROVE sessions'[k].kind = "none"
  <2>1. UNCHANGED <<conv, sessions, overlapped>> /\ st[c] = "chosen"
    BY <1>3 DEF NoMoreConv, CloseStream, history, Base, TypeOK
  <2> QED BY <2>1 DEF Apart, Tangled
<1>4. ASSUME UNCHANGED <<st, conv, overlapped>>,
             \A i \in Convs : sessions[i].kind = "none" => sessions'[i].kind = "none"
      PROVE  sessions'[k].kind = "none"
  BY <1>0, <1>4 DEF Apart, Tangled
<1>5. ASSUME NEW d \in Streams, Clean(d) PROVE sessions'[k].kind = "none"
  <2>1. \A i \in Convs : sessions[i].kind = "none" => sessions'[i] = sessions[i]
    BY <1>5 DEF Clean, Base, TypeOK
  <2> QED BY <1>4, <1>5, <2>1 DEF Clean, history
<1>6. ASSUME NEW i \in Convs, Ages(i) PROVE sessions'[k].kind = "none"
  <2>1. \A l \in Convs : sessions[l].kind = "none" => sessions'[l] = sessions[l]
    BY <1>6 DEF Ages, Base, TypeOK
  <2> QED BY <1>4, <1>6, <2>1 DEF Ages
<1>7. ASSUME NEW m \in net, ConnectorReceives(m) PROVE sessions'[k].kind = "none"
  <2>1. \A i \in Convs : sessions[i].kind = "none" => sessions'[i] = sessions[i]
    BY <1>7, Retained DEF ConnectorReceives, Base, TypeOK
  <2> QED BY <1>4, <1>7, <2>1 DEF ConnectorReceives
<1>8. CASE UNCHANGED <<st, conv, overlapped, sessions>>
  BY <1>4, <1>8
<1>9. CASE ConnectorReceivesHeld
  <2>1. \A i \in Convs : sessions[i].kind = "none" => sessions'[i] = sessions[i]
    BY <1>9, Retained DEF ConnectorReceivesHeld, Base, TypeOK
  <2> QED BY <1>4, <1>9, <2>1 DEF ConnectorReceivesHeld, history
<1> QED
  BY <1>1, <1>2, <1>3, <1>5, <1>6, <1>7, <1>8, <1>9
  DEF Next, vars, history, ConnectorSends, ConnectorStops, ListenerSends, CloseAccepted, ListenerStops,
      CleanAccepted, AgesAccepted, ListenerReceives, ListenerReceivesHeld

\* Orderly numbers stay apart in every step.
LEMMA ApartStep == IndInv /\ IndInv' /\ Base /\ Base' /\ Apart /\ [Next]_vars => Apart'
<1> SUFFICES ASSUME IndInv, IndInv', Base, Base', Apart, [Next]_vars PROVE Apart'
  OBVIOUS
<1>1. ASSUME NEW k \in Convs \ Held, Orderly(k)' PROVE AloneAt(k)'
  <2>1. CASE UNCHANGED vars
    <3>1. Orderly(k) /\ AloneAt(k)
      BY <1>1, OrderlyBefore DEF Apart
    <3>2. UNCHANGED <<sessions, manager, lcore, net, core>>
      BY <2>1 DEF vars
    <3> QED BY <3>1, <3>2, Untouched
  <2>2. ASSUME NEW c \in Streams, \/ Choose(c) \/ NoMoreConv(c) \/ Insert(c) \/ CloseStream(c)
                                  \/ ConnectorSends(c) \/ ConnectorStops(c) \/ Clean(c)
        PROVE  AloneAt(k)'
    BY <1>1, <2>2, ConnectApart, InsertApart, ConnectorSendsApart, CleanApart
  <2>3. ASSUME NEW j \in Convs,
               \/ ListenerSends(j) \/ CloseAccepted(j) \/ ListenerStops(j) \/ CleanAccepted(j)
               \/ Ages(j) \/ AgesAccepted(j)
        PROVE  AloneAt(k)'
    BY <1>1, <2>3, ListenerSendsApart, AcceptedApart, AgesApart
  <2>4. ASSUME NEW m \in net, ConnectorReceives(m) \/ ListenerReceives(m) PROVE AloneAt(k)'
    BY <1>1, <2>4, ConnectorReceivesApart, ListenerReceivesApart
  <2>5. CASE ConnectorReceivesHeld \/ ListenerReceivesHeld
    BY <1>1, <2>5, HeldApart
  <2> QED BY <2>1, <2>2, <2>3, <2>4, <2>5 DEF Next
<1> QED BY <1>1, ChosenIsFree DEF Apart

\* A session takes a datagram of another stream only under a number that is not orderly.
LEMMA MixedStep ==
  ASSUME IndInv, IndInv', Base, Base', Apart, NeverMixed, [Next]_vars, NEW p \in mixed'
  PROVE  ~Orderly(conv[p[1]])'
<1>1. CASE p \in mixed
  <2>1. p[1] \in Streams /\ conv'[p[1]] = conv[p[1]] /\ conv[p[1]] \in Convs
    <3>1. p[1] \in Streams /\ core[p[1]] # "none"
      BY <1>1 DEF Base, TypeOK, Recorded
    <3> QED BY <3>1, Lasting DEF Base, TypeOK
  <2> QED BY <1>1, <2>1, OrderlyBefore DEF NeverMixed
<1>2. CASE p \notin mixed
  <2>1. PICK m \in net : ConnectorReceives(m) \/ ListenerReceives(m)
    BY <1>2 DEF Next, vars, history, Choose, NoMoreConv, Insert, CloseStream, ConnectorSends,
       ConnectorStops, Clean, ListenerSends, CloseAccepted, ListenerStops, CleanAccepted, Ages, AgesAccepted,
       ConnectorReceivesHeld, ListenerReceivesHeld
  <2>2. m.conv \in Convs \ Held /\ conv' = conv
    BY <2>1, Received DEF ConnectorReceives, ListenerReceives
  <2>3. CASE ConnectorReceives(m)
    <3> DEFINE s == sessions'[m.conv]
    <3>1. s.kind = "active" /\ p \in Foreign(s.of, m.of)
      BY <1>2, <2>3 DEF ConnectorReceives
    <3>2. s = sessions[m.conv]
      BY <2>2, <2>3, <3>1, Retained, FreeEntry DEF ConnectorReceives, Base, TypeOK
    <3>3. p[1] = s.of /\ s.of # m.of
      BY <3>1 DEF Foreign
    <3>4. conv[s.of] = m.conv
      BY <2>2, <3>1, <3>2, OwnersTyped DEF Base, Owned
    <3>5. ~Orderly(m.conv)
      BY <3>2, <3>3, ReceivedOf
    <3> QED BY <2>2, <3>3, <3>4, <3>5, OrderlyBefore
  <2>4. CASE ListenerReceives(m)
    <3> DEFINE new == manager[m.conv].kind \in {"none", "old"}
               of == IF new THEN m.of ELSE manager[m.conv].of
               dead == manager[m.conv].kind = "dead"
    <3>1. conv[of] = m.conv /\ mixed' = mixed \union (IF dead THEN {} ELSE Foreign(of, m.of))
      BY <2>4, ListenerDoes
    <3>2. ~dead /\ p \in Foreign(of, m.of)
      BY <1>2, <3>1
    <3>3. p[1] = of /\ of # m.of
      BY <3>2 DEF Foreign
    <3>4. manager[m.conv].kind = "active" /\ of = manager[m.conv].of
      BY <2>2, <3>2, <3>3, OwnersTyped DEF Base
    <3>5. ~Orderly(m.conv)
      BY <3>3, <3>4, ReceivedOf DEF OneStream
    <3> QED BY <2>2, <3>1, <3>3, <3>5, OrderlyBefore
  <2> QED BY <2>1, <2>3, <2>4
<1> QED BY <1>1, <1>2

\* At first no number leads anywhere.
LEMMA ApartInit == Init => Apart /\ NeverMixed
<1> SUFFICES ASSUME Init PROVE Apart /\ NeverMixed
  OBVIOUS
<1>1. \A k \in Convs \ Held : AloneAt(k)
  BY DEF Init, AloneAt, Quiet, Free
<1> QED BY <1>1 DEF Init, Apart, NeverMixed

\* Whose entries and datagrams are, and that an orderly number leads to one stream.
THEOREM OneStreamANumber == Spec => [](Base /\ Apart /\ NeverMixed)
<1> DEFINE All == Base /\ Apart /\ NeverMixed
<1>1. Init => All
  BY BaseInit, ApartInit
<1>2. IndInv /\ IndInv' /\ All /\ [Next]_vars => All'
  <2> SUFFICES ASSUME IndInv, IndInv', All, [Next]_vars PROVE All'
    OBVIOUS
  <2>1. Base'
    BY BaseStep
  <2>2. Apart'
    BY <2>1, ApartStep
  <2>3. NeverMixed'
    BY <2>1, MixedStep DEF NeverMixed
  <2> QED BY <2>1, <2>2, <2>3
<1> QED BY <1>1, <1>2, Invariance, PTL DEF Spec

\* The control blocks, maps and datagrams of connectors and listeners (net/kcp/mod.rs) keep
\* their types, whatever is lost, repeated or late.
THEOREM TypeCorrect == Spec => []TypeOK
<1>1. Base => TypeOK
  BY DEF Base
<1> QED BY <1>1, OneStreamANumber, PTL

\* However many connects, numbers, losses and repeats: a number used again leads to no
\* session of a former stream, at either end, as long as its connects did not overlap, its
\* streams left nothing behind at the other end, and no CLF with which its dead sessions
\* answer each other was under way when the connector gave the number up.
THEOREM NumbersKeptApart == Spec => []NeverMixed
BY OneStreamANumber, PTL

=============================================================================
