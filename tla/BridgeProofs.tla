------------------------------ MODULE BridgeProofs ------------------------------
(***************************************************************************)
(* Modules Forward and Bridge: the types, that nothing written towards an  *)
(* open end is lost when a link ends in order, and that success stands for *)
(* two bound listeners; for every number of data connections, every amount *)
(* of data and every choice of faults.                                     *)
(***************************************************************************)
EXTENDS Bridge, TLAPS

Early == {"none", "offered", "joining"}

\* The streams have their types, one by one.
Counts ==
  /\ phase \in [Links -> Early \cup {"on", "off"}]
  /\ sent \in [Sides -> 0..MaxSend] /\ read \in [Sides -> 0..MaxSend]
  /\ written \in [Sides -> 0..MaxSend] /\ got \in [Sides -> 0..MaxSend]
  /\ \A s \in Sides : got[s] <= written[s] /\ written[s] <= read[s] /\ read[s] <= sent[s]
  /\ closed \in [Sides -> BOOLEAN] /\ over \in [Sides -> {"no", "eof", "reset"}]
  /\ cut \subseteq Links

\* Nothing is sent before a link is on; a link that is off and was not cut has passed on
\* all that goes to an end which is open; an end of file is read after all that was
\* passed on, on a link that stays off.
Idle == \A s \in Sides : phase[s[1]] \in Early => sent[s] = 0
Drained ==
  \A s \in Sides :
    phase[s[1]] = "off" /\ s[1] \notin cut => closed[s] \/ written[Other(s)] = sent[Other(s)]
AtEof ==
  \A s \in Sides :
    over[s] = "eof" => phase[s[1]] = "off" /\ got[Other(s)] = written[Other(s)]
Flow == Counts /\ Idle /\ Drained /\ AtEof

\* Where the control connection is while it is set up.
Setup ==
  /\ run \in {"await", "asked", "relay", "done"} /\ listening \in BOOLEAN
  /\ client \in {"new", "asking", "odd", "bound", "refused"}
  /\ server \in {"none", "asked", "bound", "refused"}
  /\ lost \subseteq Data
  /\ client = "new" => run = "await" /\ phase[Control] = "none"
  /\ run = "await" => client \in {"new", "asking", "odd"}
  /\ run = "asked" => client = "asking"
  /\ client # "new" /\ run \in {"await", "asked"} => phase[Control] = "joining"

IndInv == Flow /\ Setup /\ BoundIsListening

-----------------------------------------------------------------------------
(* The two sides of a link.                                                *)

\* The other side is a side of the same link, not this one, and opposite to this one.
LEMMA OtherIs ==
  ASSUME NEW s \in Sides
  PROVE  /\ s[1] \in Links /\ Other(s) \in Sides /\ Other(s)[1] = s[1]
         /\ Other(s) # s /\ Other(Other(s)) = s
BY DEF Sides, Other

\* The two sides of a link are sides, and of that link.
LEMMA BothIs ==
  ASSUME NEW l \in Links, NEW s \in Both(l)
  PROVE  s \in Sides /\ s[1] = l
BY DEF Sides, Both

\* The control link and the data links are different links, each with two sides.
LEMMA NearFar ==
  /\ Control \in Links /\ Near \in Sides /\ Far \in Sides
  /\ \A d \in Data : d \in Links /\ d # Control /\ <<d, "near">> \in Sides
BY BridgeAssumption DEF Near, Far, Sides

\* The inductive invariant holds the type invariant.
LEMMA TypesFollow == IndInv => TypeOK
BY DEF IndInv, Flow, Counts, Early, Setup, TypeOK, ForwardTypeOK

-----------------------------------------------------------------------------
(* What ends and copies do.                                                *)

\* An end writes only on a link that is on, so neither an idle nor a drained link changes.
LEMMA PutInd ==
  ASSUME Flow, NEW s \in Sides, Put(s)
  PROVE  Flow'
<1>1. sent[s] + 1 \in 0..MaxSend /\ sent' = [sent EXCEPT ![s] = @ + 1]
  BY ForwardAssumption DEF Put, Flow, Counts
<1>2. phase[s[1]] = "on"
  BY DEF Put
<1>3. Counts'
  BY <1>1 DEF Put, Flow, Counts
<1>4. Idle'
  BY <1>1, <1>2 DEF Put, Flow, Counts, Idle, Early
<1>5. Drained'
  BY <1>1, <1>2, OtherIs DEF Put, Flow, Counts, Drained
<1>6. AtEof'
  BY <1>1 DEF Put, Flow, AtEof
<1> QED BY <1>3, <1>4, <1>5, <1>6 DEF Flow

\* An end reads at most what was written for it.
LEMMA GetInd ==
  ASSUME Flow, NEW s \in Sides, Get(s)
  PROVE  Flow'
<1>0. Other(s) \in Sides
  BY OtherIs
<1>1. got[Other(s)] + 1 \in 0..MaxSend /\ got[Other(s)] + 1 <= written[Other(s)]
  BY <1>0, ForwardAssumption DEF Get, Flow, Counts
<1>2. Counts'
  BY <1>0, <1>1 DEF Get, Flow, Counts
<1>3. Idle' /\ Drained'
  BY DEF Get, Flow, Idle, Drained
<1>4. AtEof'
  BY <1>0, <1>1, OtherIs DEF Get, Flow, Counts, AtEof
<1> QED BY <1>2, <1>3, <1>4 DEF Flow

\* An end is told of the end of file only after it read what was written.
LEMMA ToldInd ==
  ASSUME Flow, NEW s \in Sides, Told(s)
  PROVE  Flow'
<1>1. Counts'
  BY DEF Told, Flow, Counts
<1>2. Idle' /\ Drained'
  BY DEF Told, Flow, Idle, Drained
<1>3. AtEof'
  BY DEF Told, Flow, Counts, AtEof
<1> QED BY <1>1, <1>2, <1>3 DEF Flow

\* An end that closes, on a link or before it, asks for less.
LEMMA ClosedInd ==
  ASSUME Flow, NEW s \in Sides, closed' = [closed EXCEPT ![s] = TRUE],
         UNCHANGED <<phase, sent, read, written, got, over, cut>>
  PROVE  Flow'
BY DEF Flow, Counts, Idle, Drained, AtEof

\* A copy reads at most what was sent.
LEMMA CopyReadInd ==
  ASSUME Flow, NEW s \in Sides, CopyRead(s)
  PROVE  Flow'
<1>1. read[s] + 1 \in 0..MaxSend /\ read[s] + 1 <= sent[s]
  BY ForwardAssumption DEF CopyRead, Flow, Counts
<1>2. Counts'
  BY <1>1 DEF CopyRead, Flow, Counts
<1> QED BY <1>2 DEF CopyRead, Flow, Idle, Drained, AtEof

\* Links that change their phase, one that is off staying off: nothing was sent on those
\* that come on, and those that go off are cut, idle or drained.
LEMMA PhaseInd ==
  ASSUME Flow, UNCHANGED streams, phase' \in [Links -> Early \cup {"on", "off"}],
         cut \subseteq cut', cut' \subseteq Links,
         \A l \in Links :
           \/ phase'[l] = phase[l]
           \/ phase[l] \in Early /\ phase'[l] \in Early \cup {"on"}
           \/ /\ phase'[l] = "off"
              /\ \/ l \in cut' \/ phase[l] \in Early
                 \/ \A s \in Both(l) : closed[s] \/ written[Other(s)] = sent[Other(s)]
  PROVE  Flow'
<1>1. Counts'
  BY DEF Flow, Counts, streams
<1>2. Idle'
  BY OtherIs DEF Flow, Idle, streams, Early
<1>3. ASSUME NEW s \in Sides, phase'[s[1]] = "off", s[1] \notin cut'
      PROVE  closed[s] \/ written[Other(s)] = sent[Other(s)]
  <2>1. s[1] \in Links /\ s \in Both(s[1]) /\ Other(s) \in Sides /\ Other(s)[1] = s[1]
    BY DEF Sides, Both, Other
  <2>2. CASE phase[s[1]] = "off"
    BY <1>3, <2>2 DEF Flow, Drained
  <2>3. CASE phase[s[1]] \in Early
    <3>1. sent[Other(s)] = 0
      BY <2>1, <2>3 DEF Flow, Idle
    <3>2. written[Other(s)] = 0
      BY <2>1, <3>1, ForwardAssumption DEF Flow, Counts
    <3> QED BY <3>1, <3>2
  <2> QED BY <1>3, <2>1, <2>2, <2>3
<1>4. Drained'
  BY <1>3 DEF Drained, streams
<1>5. AtEof'
  BY OtherIs DEF Flow, AtEof, streams, Early
<1> QED BY <1>1, <1>2, <1>4, <1>5 DEF Flow

\* A copy that reads nothing has written all it read: the link goes off drained.
LEMMA CopyEofInd ==
  ASSUME Flow, NEW s \in Sides, CopyEof(s)
  PROVE  Flow'
<1>1. \A r \in Both(s[1]) : r = s \/ r = Other(s)
  BY DEF Both, Sides, Other
<1>2. \A r \in Both(s[1]) : closed[r] \/ written[Other(r)] = sent[Other(r)]
  BY <1>1, OtherIs DEF CopyEof
<1>3. s[1] \in Links /\ phase' = [phase EXCEPT ![s[1]] = "off"]
  BY OtherIs DEF CopyEof, Off
<1>4. phase' \in [Links -> Early \cup {"on", "off"}] /\ cut' = cut /\ cut \subseteq Links
  BY <1>3 DEF CopyEof, Flow, Counts
<1>5. \A l \in Links : phase'[l] = phase[l] \/ (l = s[1] /\ phase'[l] = "off")
  BY <1>3 DEF Flow, Counts
<1> QED BY <1>2, <1>4, <1>5, PhaseInd DEF CopyEof

\* A copy writes what it has read; a write that fails cuts the link.
LEMMA CopyWriteInd ==
  ASSUME Flow, NEW s \in Sides, CopyWrite(s)
  PROVE  Flow'
<1>1. CASE written' = [written EXCEPT ![s] = @ + 1] /\ UNCHANGED <<phase, cut>>
  <2>1. written[s] + 1 \in 0..MaxSend /\ written[s] + 1 <= read[s] /\ phase[s[1]] = "on"
    BY ForwardAssumption DEF CopyWrite, Flow, Counts
  <2>2. Counts'
    BY <1>1, <2>1 DEF CopyWrite, Flow, Counts
  <2>3. Idle'
    BY <1>1 DEF CopyWrite, Flow, Idle
  <2>4. Drained' /\ AtEof'
    BY <1>1, <2>1, OtherIs DEF CopyWrite, Flow, Counts, Drained, AtEof
  <2> QED BY <2>2, <2>3, <2>4 DEF Flow
<1>2. CASE Off(s[1]) /\ cut' = cut \union {s[1]} /\ UNCHANGED written
  <2>1. s[1] \in Links /\ phase' = [phase EXCEPT ![s[1]] = "off"]
    BY <1>2, OtherIs DEF Off
  <2>2. phase' \in [Links -> Early \cup {"on", "off"}] /\ cut' \subseteq Links /\ cut \subseteq cut'
    BY <1>2, <2>1 DEF Flow, Counts
  <2>3. \A l \in Links : phase'[l] = phase[l] \/ (l \in cut' /\ phase'[l] = "off")
    BY <1>2, <2>1 DEF Flow, Counts
  <2>4. UNCHANGED streams
    BY <1>2 DEF CopyWrite, streams
  <2> QED BY <2>2, <2>3, <2>4, PhaseInd
<1> QED BY <1>1, <1>2 DEF CopyWrite

\* No copy and no end touches the set-up: a control connection that is on or off is set up.
LEMMA ForwardsInd ==
  ASSUME IndInv, NEW l \in Links, Copies(l) \/ Outside(l)
  PROVE  IndInv'
<1>1. PICK s \in Both(l) :
        CopyRead(s) \/ CopyWrite(s) \/ CopyEof(s) \/ Put(s) \/ Get(s) \/ Told(s) \/ CloseEnd(s)
  BY DEF Copies, Outside, Forwards, Ends
<1>2. s \in Sides
  BY BothIs
<1>3. Flow'
  BY <1>1, <1>2, CopyReadInd, CopyWriteInd, CopyEofInd, PutInd, GetInd, ToldInd, ClosedInd
  DEF IndInv, CloseEnd
<1>4. phase' = phase \/ (phase[s[1]] = "on" /\ phase' = [phase EXCEPT ![s[1]] = "off"])
  BY <1>1 DEF CopyRead, CopyWrite, CopyEof, Put, Get, Told, CloseEnd, Off
<1>5. s[1] \in Links /\ phase \in [Links -> Early \cup {"on", "off"}]
  BY <1>2, OtherIs DEF IndInv, Flow, Counts
<1>6. phase'[Control] = phase[Control] \/ phase[Control] = "on"
  BY <1>4, <1>5, NearFar
<1>7. UNCHANGED session
  BY DEF Copies, Outside
<1>8. Setup'
  BY <1>6, <1>7 DEF Setup, IndInv, session
<1> QED BY <1>3, <1>7, <1>8 DEF IndInv, BoundIsListening, session

-----------------------------------------------------------------------------
(* The set-up and the tasks.                                               *)

\* Only the phase of the control connection changes, from "joining" on or off.
LEMMA ControlInd ==
  ASSUME IndInv, phase[Control] \in Early, UNCHANGED <<streams, cut>>,
         NEW p \in Early \cup {"on", "off"}, phase' = [phase EXCEPT ![Control] = p]
  PROVE  Flow' /\ phase'[Control] = p
<1>1. phase' \in [Links -> Early \cup {"on", "off"}] /\ phase'[Control] = p
  BY NearFar DEF IndInv, Flow, Counts
<1>2. \A l \in Links : phase'[l] = phase[l] \/ (l = Control /\ phase'[l] = p)
  BY DEF IndInv, Flow, Counts
<1>3. cut' = cut /\ cut \subseteq Links /\ UNCHANGED streams
  BY DEF IndInv, Flow, Counts
<1>4. Flow
  BY DEF IndInv
<1> QED BY <1>1, <1>2, <1>3, <1>4, PhaseInd

\* The request waits for the bridge; nothing is bound yet.
LEMMA ClientAsksInd ==
  ASSUME IndInv, ClientAsks
  PROVE  IndInv'
<1>1. phase[Control] \in Early /\ "joining" \in Early \cup {"on", "off"}
  BY DEF ClientAsks, IndInv, Setup, Early
<1>2. Flow' /\ phase'[Control] = "joining"
  BY <1>1, ControlInd DEF ClientAsks
<1> QED BY <1>2 DEF ClientAsks, IndInv, Setup, BoundIsListening

\* With the listener go all that was asked for; nothing is claimed of a session that is
\* over.
LEMMA PassSetupInd ==
  ASSUME IndInv, PassSetup
  PROVE  IndInv'
<1>1. run = "await" /\ client \in {"asking", "odd"} /\ phase[Control] = "joining"
  BY DEF PassSetup, IndInv, Setup
<1>2. CASE run' = "asked" /\ server' = "asked" /\ UNCHANGED <<listening, client, phase>>
           /\ client = "asking"
  <2>1. Flow'
    BY <1>2 DEF PassSetup, IndInv, Flow, Counts, Idle, Drained, AtEof, streams
  <2> QED BY <1>1, <1>2, <2>1 DEF PassSetup, IndInv, Setup, BoundIsListening
<1>3. CASE Finish /\ DropControl
           /\ (UNCHANGED <<client, server>> \/ (client' = "refused" /\ UNCHANGED server))
  <2>1. Flow'
    BY <1>1, <1>3, ControlInd DEF PassSetup, DropControl, Early
  <2> QED BY <1>1, <1>3, <2>1 DEF PassSetup, Finish, IndInv, Setup, BoundIsListening
<1> QED BY <1>2, <1>3 DEF PassSetup

\* An answer of the server moves no link.
LEMMA ServerAnswersInd ==
  ASSUME IndInv, ServerAnswers
  PROVE  IndInv'
<1>1. Flow'
  BY DEF ServerAnswers, forward, streams, IndInv, Flow, Counts, Idle, Drained, AtEof
<1> QED BY <1>1 DEF ServerAnswers, forward, streams, IndInv, Setup, BoundIsListening

\* Success is passed on only with the server bound, and after the own listener is.
LEMMA PassAnswerInd ==
  ASSUME IndInv, PassAnswer
  PROVE  IndInv'
<1>1. run = "asked" /\ client = "asking" /\ phase[Control] = "joining"
  BY DEF PassAnswer, IndInv, Setup
<1>2. CASE server = "bound" /\ client' = "bound" /\ run' = "relay" /\ listening' = TRUE
           /\ phase' = [phase EXCEPT ![Control] = "on"]
  <2>1. Flow'
    BY <1>1, <1>2, ControlInd DEF PassAnswer, Early
  <2> QED BY <1>1, <1>2, <2>1 DEF PassAnswer, IndInv, Setup, BoundIsListening
<1>3. CASE Finish /\ DropControl /\ client' \in {client, "refused"}
  <2>1. Flow'
    BY <1>1, <1>3, ControlInd DEF PassAnswer, DropControl, Early
  <2> QED BY <1>1, <1>3, <2>1 DEF PassAnswer, Finish, IndInv, Setup, BoundIsListening
<1> QED BY <1>2, <1>3 DEF PassAnswer

\* run_bridge returns with its control connection and moves no other link.
LEMMA ControlDoneInd ==
  ASSUME IndInv, ControlDone
  PROVE  IndInv'
<1>1. Flow'
  BY DEF ControlDone, forward, streams, IndInv, Flow, Counts, Idle, Drained, AtEof
<1> QED BY <1>1 DEF ControlDone, Finish, forward, streams, IndInv, Setup, BoundIsListening

\* A data connection changes its phase: it is offered, joined, cut or refused.
LEMMA DataInd ==
  ASSUME IndInv, NEW d \in Data, UNCHANGED streams,
         NEW p \in Early \cup {"on", "off"}, phase' = [phase EXCEPT ![d] = p],
         \/ phase[d] \in Early /\ p # "off" /\ cut' = cut
         \/ p = "off" /\ cut' = cut \union {d},
         UNCHANGED session
  PROVE  IndInv'
<1>1. phase' \in [Links -> Early \cup {"on", "off"}] /\ phase'[Control] = phase[Control]
  BY NearFar DEF IndInv, Flow, Counts
<1>2. \A l \in Links : phase'[l] = phase[l] \/ (l = d /\ phase'[l] = p)
  BY DEF IndInv, Flow, Counts
<1>3. cut \subseteq cut' /\ cut' \subseteq Links /\ Flow /\ d \in Links
  BY NearFar DEF IndInv, Flow, Counts
<1>4. Flow'
  <2>1. CASE phase[d] \in Early /\ p # "off" /\ cut' = cut
    BY <2>1, <1>1, <1>2, <1>3, PhaseInd
  <2>2. CASE p = "off" /\ cut' = cut \union {d}
    BY <2>2, <1>1, <1>2, <1>3, PhaseInd
  <2> QED BY <2>1, <2>2
<1> QED BY <1>1, <1>4 DEF IndInv, Setup, BoundIsListening, session

\* A data connection changes its phase before anything was sent on it, or is cut.
LEMMA TaskInd ==
  ASSUME IndInv, NEW d \in Data, Offer(d) \/ Refuse(d) \/ Task(d)
  PROVE  IndInv'
<1>1. CASE Offer(d)
  BY <1>1, DataInd DEF Offer, Early
<1>2. CASE Refuse(d)
  BY <1>2, DataInd DEF Refuse, Off
<1>3. CASE Join(d)
  BY <1>3, DataInd DEF Join, Off, Early
<1>4. CASE Expire(d)
  BY <1>4, DataInd DEF Expire, Off
<1> QED BY <1>1, <1>2, <1>3, <1>4 DEF Task

\* A data connection that is reset while it waits moves no link.
LEMMA ResetEarlyInd ==
  ASSUME IndInv, NEW d \in Data, ResetEarly(d)
  PROVE  IndInv'
<1>1. Flow'
  BY NearFar, ClosedInd DEF ResetEarly, IndInv
<1> QED BY <1>1 DEF ResetEarly, IndInv, Setup, BoundIsListening

\* An error of accept takes the control connection along.
LEMMA AcceptInd ==
  ASSUME IndInv, NEW d \in Data, Accept(d)
  PROVE  IndInv'
<1>1. CASE d \notin lost /\ phase' = [phase EXCEPT ![d] = "joining"]
           /\ UNCHANGED <<run, listening, cut>>
  BY <1>1, DataInd DEF Accept, session, Early
<1>2. CASE d \notin lost /\ Off(d) /\ cut' = cut \union {d} /\ UNCHANGED <<run, listening>>
  BY <1>2, DataInd DEF Accept, Off, session
<1>3. CASE Finish /\ phase' = [phase EXCEPT ![d] = "off", ![Control] = "off"]
           /\ cut' = cut \union {d, Control}
  <2>1. phase' \in [Links -> Early \cup {"on", "off"}] /\ cut \subseteq cut' /\ cut' \subseteq Links
    BY <1>3, NearFar DEF IndInv, Flow, Counts
  <2>2. \A l \in Links : phase'[l] = phase[l] \/ (phase'[l] = "off" /\ l \in cut')
    BY <1>3, NearFar DEF IndInv, Flow, Counts
  <2>3. Flow'
    BY <2>1, <2>2, PhaseInd DEF Accept, IndInv
  <2>4. run = "relay" /\ client # "new" /\ UNCHANGED <<client, server, lost>>
    BY DEF Accept, IndInv, Setup
  <2> QED BY <1>3, <2>3, <2>4 DEF Finish, IndInv, Setup, BoundIsListening
<1> QED BY <1>1, <1>2, <1>3 DEF Accept

-----------------------------------------------------------------------------
\* Nothing has been asked or sent at first.
LEMMA InitInd == Init => IndInv
<1> SUFFICES ASSUME Init PROVE IndInv
  OBVIOUS
<1>1. /\ phase = [l \in Links |-> "none"] /\ cut = {}
      /\ sent = [s \in Sides |-> 0] /\ read = sent /\ written = sent /\ got = sent
      /\ closed = [s \in Sides |-> FALSE] /\ over = [s \in Sides |-> "no"]
  BY DEF Init, ForwardInit
<1>2. Counts
  BY <1>1, ForwardAssumption DEF Counts, Early
<1>3. \A s \in Sides : phase[s[1]] = "none" /\ over[s] = "no" /\ sent[s] = 0
  BY <1>1, OtherIs
<1>4. Idle /\ Drained /\ AtEof
  BY <1>3 DEF Idle, Drained, AtEof
<1>5. Setup /\ BoundIsListening
  BY <1>1, NearFar DEF Init, Setup, BoundIsListening
<1> QED BY <1>2, <1>4, <1>5 DEF IndInv, Flow

\* Stuttering.
LEMMA UnchangedInd ==
  ASSUME IndInv, UNCHANGED vars
  PROVE  IndInv'
BY DEF vars, session, forward, streams, IndInv, Flow, Counts, Idle, Drained, AtEof, Setup,
       BoundIsListening

\* Every step preserves the inductive invariant.
LEMMA StepInd == IndInv /\ [Next]_vars => IndInv'
BY ClientAsksInd, ServerAnswersInd, PassSetupInd, PassAnswerInd, ControlDoneInd, AcceptInd,
   TaskInd, ResetEarlyInd, ForwardsInd, UnchangedInd
DEF Next, Relay

-----------------------------------------------------------------------------
(* What follows.                                                           *)

\* The types, which IndInv gives, hold throughout (the variables of run_bridge and of
\* the Forward of each link).
THEOREM Types == Spec => []TypeOK
BY InitInd, StepInd, TypesFollow, PTL DEF Spec

\* run_bridge tells a client of success only with both listeners bound, and its own
\* stays bound as long as the session lasts.
THEOREM SuccessIsBound == Spec => []BoundIsListening
<1>1. IndInv => BoundIsListening
  BY DEF IndInv
<1> QED BY <1>1, InitInd, StepInd, PTL DEF Spec

\* The end of file means everything: io::forward loses nothing that was written towards
\* an end which is still open, unless the link was cut.
THEOREM NothingLost == Spec => []EofComplete
<1>1. IndInv => EofComplete
  <2>1. SUFFICES ASSUME IndInv, NEW s \in Sides, over[s] = "eof", ~closed[s], s[1] \notin cut
                 PROVE  got[Other(s)] = sent[Other(s)]
    BY DEF EofComplete
  <2>2. phase[s[1]] = "off" /\ got[Other(s)] = written[Other(s)]
    BY <2>1 DEF IndInv, Flow, AtEof
  <2> QED BY <2>1, <2>2 DEF IndInv, Flow, Drained
<1> QED BY <1>1, InitInd, StepInd, PTL DEF Spec
=============================================================================
