------------------------- MODULE TraceIngressProofs -------------------------
(***************************************************************************)
(* What TraceIngress guarantees for any number of connections, any events  *)
(* and any capacity.                                                       *)
(***************************************************************************)
EXTENDS TraceIngress, FiniteSetTheorems, TLAPS

\* Threads do not run past the events of their process, and hold a frame
\* exactly while they stamp or send it.
ThreadInv ==
    /\ \A p \in Procs : pos[p] <= Len(Script[p])
    /\ \A p \in Procs : at[p] = "opened" => pos[p] < Len(Script[p])
    /\ \A p \in Procs : at[p] \in {"stamping", "sending"} => frame[p] \in Frame

\* A frame that carries the number it was given.
Genuine(fr) == fr.seq \in 1..Len(stream) /\ fr.payload = stream[fr.seq]

FrameInv ==
    /\ nextSeq = Len(ingested) + 1
    /\ \A fr \in Carried : Genuine(fr)

Inv == TypeOK /\ ThreadInv /\ FrameInv

-----------------------------------------------------------------------------
(* Types.                                                                   *)

LEMMA InitInv == Init => Inv
<1>1. ASSUME Init PROVE TypeOK
  <2>1. /\ stream \in Seq(Payload)
        /\ channel \in Seq(Frame)
        /\ ingested \in Seq(Payload)
    BY <1>1 DEF Init
  <2>2. /\ at \in [Procs -> Labels]
        /\ pos \in [Procs -> Nat]
        /\ frame \in [Procs -> Frame \cup {None}]
        /\ openCount \in [Roots -> Nat]
        /\ norm \in [Roots -> {"absent", "pending", "deferred", "completed", "failed"}]
    BY <1>1 DEF Init, Labels
  <2> QED
    BY <1>1, <2>1, <2>2 DEF Init, TypeOK
<1>2. ASSUME Init PROVE ThreadInv
  BY <1>2, IngressAssumption DEF Init, ThreadInv
<1>3. ASSUME Init PROVE FrameInv
  BY <1>3 DEF Init, FrameInv, Carried
<1> QED
  BY <1>1, <1>2, <1>3 DEF Inv

LEMMA RootTypes == \A p \in Procs : RootOf[p] \in Roots /\ RootOf[p] \in Procs
BY IngressAssumption DEF Roots

\* The payload a thread holds after it has handled an event.
LEMMA EventType ==
    ASSUME TypeOK, ThreadInv, NEW p \in Procs,
           at[p] = "opened" \/ (at[p] = "reading" /\ pos[p] > 0 /\ ~AtEnd(p))
    PROVE  /\ Script[p][pos[p] + 1] \in Event
           /\ pos[p] + 1 \in 1..Len(Script[p])
<1>1. Script[p] \in Seq(Event) /\ pos[p] \in Nat
  BY IngressAssumption DEF TypeOK
<1>2. pos[p] + 1 \in 1..Len(Script[p])
  BY <1>1 DEF ThreadInv, AtEnd
<1> QED
  BY <1>1, <1>2

LEMMA AugmentType ==
    ASSUME TypeOK, ThreadInv, NEW p \in Procs, Augment(p)
    PROVE  TypeOK' /\ ThreadInv'
<1> DEFINE e == Script[p][pos[p] + 1]
           pl == [proc |-> p, ev |-> e.ev]
<1>1. e \in Event /\ pos[p] + 1 \in 1..Len(Script[p])
  BY EventType DEF Augment
<1>2. e.ev \in Events
  BY <1>1 DEF Event
<1>3. pl \in Payload /\ [seq |-> 0, payload |-> pl] \in Frame
  BY <1>2 DEF Payload, Frame
<1>4. RootOf[p] \in Roots
  BY RootTypes
<1>5. /\ tracked' \subseteq Roots
      /\ readOnly' \subseteq Roots
      /\ flagged' \subseteq Roots
  BY <1>4 DEF TypeOK, Augment, AugmentInline, AugmentFull
<1>6. pos' = [pos EXCEPT ![p] = pos[p] + 1] /\ pos[p] + 1 \in Nat
  BY <1>1 DEF Augment
<1>7. pos' \in [Procs -> Nat]
  BY <1>6 DEF TypeOK
<1>8. CASE AugmentInline(p, e)
  <2>1. TypeOK'
    BY <1>5, <1>7, <1>8 DEF TypeOK, Augment, AugmentInline, Goto, Labels, workerVars
  <2>2. ThreadInv'
    BY <1>1, <1>6, <1>8 DEF TypeOK, ThreadInv, AugmentInline, Goto
  <2> QED
    BY <2>1, <2>2
<1>9. CASE AugmentFull(p, e)
  <2>1. frame' \in [Procs -> Frame \cup {None}]
    BY <1>3, <1>9 DEF TypeOK, AugmentFull
  <2>2. TypeOK'
    BY <1>5, <1>7, <1>9, <2>1 DEF TypeOK, Augment, AugmentFull, Goto, Labels, workerVars
  <2>3. ThreadInv'
    BY <1>1, <1>3, <1>6, <1>9 DEF TypeOK, ThreadInv, AugmentFull, Goto
  <2> QED
    BY <2>2, <2>3
<1> QED
  BY <1>8, <1>9 DEF Augment

\* A thread moves on without an event or a frame.
LEMMA MoveKeepsThreadInv ==
    ASSUME TypeOK, ThreadInv, NEW p \in Procs, NEW label, Goto(p, label), UNCHANGED pos,
           frame' = frame \/ frame' = [frame EXCEPT ![p] = None],
           label \notin {"opened", "stamping", "sending"}
    PROVE  ThreadInv'
BY DEF TypeOK, ThreadInv, Goto

LEMMA ThreadTypes ==
    ASSUME TypeOK, ThreadInv, NEW p \in Procs, ThreadStep(p)
    PROVE  TypeOK' /\ ThreadInv'
<1>0. RootOf[p] \in Roots /\ RootOf[p] \in Procs
  BY RootTypes
<1>1. CASE Accept(p)
  <2>1. TypeOK'
    BY <1>1 DEF TypeOK, Accept, Goto, Labels, trackVars, workerVars
  <2> QED
    BY <1>1, <2>1, MoveKeepsThreadInv DEF Accept
<1>2. CASE Open(p)
  <2>1. openCount' \in [Roots -> Nat]
    BY <1>0, <1>2 DEF TypeOK, Open, CountUp
  <2>2. TypeOK'
    BY <1>2, <2>1 DEF TypeOK, Open, Goto, Labels, workerVars
  <2>3. pos[p] < Len(Script[p])
    <3>1. Len(Script[p]) \in Nat
      BY IngressAssumption
    <3> QED
      BY <1>2, <3>1 DEF Open, AtEnd
  <2>4. ThreadInv'
    BY <1>2, <2>3 DEF TypeOK, ThreadInv, Open, Goto
  <2> QED
    BY <2>2, <2>4
<1>3. CASE Augment(p)
  BY <1>3, AugmentType
<1>4. CASE Stamp(p)
  <2>1. frame[p] \in Frame /\ frame[p].payload \in Payload
    BY <1>4 DEF ThreadInv, Stamp, Frame
  <2>2. stream' \in Seq(Payload) /\ Len(stream) + 1 \in Nat
    BY <1>4, <2>1 DEF TypeOK, Stamp
  <2>3. [seq |-> Len(stream) + 1, payload |-> frame[p].payload] \in Frame
    BY <2>1, <2>2 DEF Frame
  <2>4. frame' = [frame EXCEPT ![p] = [seq |-> Len(stream) + 1, payload |-> frame[p].payload]]
    BY <1>4 DEF Stamp
  <2>5. frame' \in [Procs -> Frame \cup {None}] /\ frame'[p] \in Frame
    BY <2>3, <2>4 DEF TypeOK
  <2>6. TypeOK'
    BY <1>4, <2>2, <2>5 DEF TypeOK, Stamp, Goto, Labels, trackVars, workerVars
  <2>7. \A q \in Procs : q # p => frame'[q] = frame[q]
    BY <2>4 DEF TypeOK
  <2>8. ThreadInv'
    BY <1>4, <2>5, <2>7 DEF TypeOK, ThreadInv, Stamp, Goto
  <2> QED
    BY <2>6, <2>8
<1>5. CASE Send(p)
  <2>1. frame[p] \in Frame
    BY <1>5 DEF ThreadInv, Send
  <2>2. channel' \in Seq(Frame)
    BY <1>5, <2>1 DEF TypeOK, Send
  <2>3. PICK label \in {"done", "reading"} : Goto(p, label)
    BY <1>5 DEF Send
  <2>4. TypeOK'
    BY <1>5, <2>2, <2>3 DEF TypeOK, Send, Goto, Labels, trackVars
  <2> QED
    BY <1>5, <2>3, <2>4, MoveKeepsThreadInv DEF Send
<1>6. CASE SendFails(p)
  <2>1. PICK label \in {"done", "closing"} : Goto(p, label)
    BY <1>6 DEF SendFails
  <2>2. TypeOK'
    BY <1>6, <2>1 DEF TypeOK, SendFails, Goto, Labels, trackVars, workerVars
  <2> QED
    BY <1>6, <2>1, <2>2, MoveKeepsThreadInv DEF SendFails
<1>7. CASE CloseRecord(p)
  <2>1. PICK label \in {"done", "stale"} : Goto(p, label)
    BY <1>7 DEF CloseRecord
  <2>2. openCount[RootOf[p]] \in Nat
    BY <1>0 DEF TypeOK
  <2>3. openCount' \in [Roots -> Nat]
    <3>1. PICK n \in Nat : openCount' = openCount \/ openCount' = [openCount EXCEPT ![RootOf[p]] = n]
      <4>1. (IF openCount[RootOf[p]] > 1 THEN openCount[RootOf[p]] - 1 ELSE 0) \in Nat
        BY <2>2
      <4> QED
        BY <1>7, <4>1 DEF CloseRecord, CountDown
    <3> QED
      BY <3>1 DEF TypeOK
  <2>4. TypeOK'
    BY <1>7, <2>1, <2>3 DEF TypeOK, CloseRecord, Goto, Labels, workerVars
  <2> QED
    BY <1>7, <2>1, <2>4, MoveKeepsThreadInv DEF CloseRecord
<1>8. CASE CloseCheck(p)
  <2> DEFINE fr == [seq |-> 0, payload |-> [proc |-> RootOf[p], ev |-> "fallback"]]
  <2>1. fr \in Frame
    BY <1>0 DEF Frame, Payload
  <2>2. CASE /\ frame' = [frame EXCEPT ![p] = fr]
             /\ flagged' = flagged \cup {RootOf[p]}
             /\ Goto(p, "stamping")
    <3>1. frame' \in [Procs -> Frame \cup {None}] /\ flagged' \subseteq Roots
      BY <1>0, <2>1, <2>2 DEF TypeOK
    <3>2. TypeOK'
      BY <1>8, <2>2, <3>1 DEF TypeOK, CloseCheck, Goto, Labels, workerVars
    <3>3. ThreadInv'
      BY <1>8, <2>1, <2>2 DEF TypeOK, ThreadInv, CloseCheck, Goto
    <3> QED
      BY <3>2, <3>3
  <2>3. CASE Goto(p, "done") /\ UNCHANGED <<flagged, frame>>
    <3>1. TypeOK'
      BY <1>8, <2>3 DEF TypeOK, CloseCheck, Goto, Labels, workerVars
    <3> QED
      BY <1>8, <2>3, <3>1, MoveKeepsThreadInv DEF CloseCheck
  <2> QED
    BY <1>8, <2>2, <2>3 DEF CloseCheck
<1> QED
  BY <1>1, <1>2, <1>3, <1>4, <1>5, <1>6, <1>7, <1>8 DEF ThreadStep

\* What applying a payload does to the shared state.
LEMMA ApplyTypes ==
    ASSUME TypeOK, NEW pl \in Payload, Apply(pl)
    PROVE  /\ norm' \in [Roots -> {"absent", "pending", "deferred", "completed", "failed"}]
           /\ tracked' \subseteq Roots
           /\ readOnly' \subseteq Roots
           /\ openCount' \in [Roots -> Nat]
           /\ flagged' \subseteq Roots
<1> DEFINE r == RootOf[pl.proc]
<1>1. r \in Roots
  BY RootTypes DEF Payload
<1>2. \/ UNCHANGED norm
      \/ \E label \in {"pending", "deferred", "completed", "failed"} : NormIs(r, label)
  BY DEF Apply, Finalize
<1>3. UNCHANGED trackVars \/ Clear(r)
  BY DEF Apply, Finalize
<1>4. norm' \in [Roots -> {"absent", "pending", "deferred", "completed", "failed"}]
  BY <1>1, <1>2 DEF TypeOK, NormIs
<1> QED
  BY <1>1, <1>3, <1>4 DEF TypeOK, Clear, trackVars

LEMMA WorkerTypes ==
    ASSUME TypeOK, ThreadInv, FrameInv, WorkerStep
    PROVE  TypeOK' /\ ThreadInv'
<1>1. ThreadInv'
  BY DEF ThreadInv, WorkerStep, WorkerRecv, WorkerIngest, WorkerStops, threadVars
<1>2. CASE WorkerRecv
  <2>1. Head(channel) \in Frame /\ Tail(channel) \in Seq(Frame)
    BY <1>2 DEF TypeOK, WorkerRecv
  <2>2. /\ channel' \in Seq(Frame)
        /\ buffer' \subseteq Frame
        /\ worker' \in {"recv", "drain", "exited"}
        /\ shutting' \in BOOLEAN
    BY <1>2, <2>1 DEF TypeOK, WorkerRecv, AfterRecv
  <2> QED
    BY <1>1, <1>2, <2>2 DEF TypeOK, WorkerRecv, threadVars, trackVars
<1>3. CASE WorkerIngest
  <2>1. PICK fr \in buffer : /\ buffer' = buffer \ {fr}
                             /\ ingested' = Append(ingested, fr.payload)
                             /\ Apply(fr.payload)
    BY <1>3 DEF WorkerIngest
  <2>2. fr.payload \in Payload
    BY <2>1 DEF TypeOK, Frame
  <2>3. /\ norm' \in [Roots -> {"absent", "pending", "deferred", "completed", "failed"}]
        /\ tracked' \subseteq Roots
        /\ readOnly' \subseteq Roots
        /\ openCount' \in [Roots -> Nat]
        /\ flagged' \subseteq Roots
    BY <2>1, <2>2, ApplyTypes
  <2>4. ingested' \in Seq(Payload) /\ buffer' \subseteq Frame
    BY <2>1, <2>2 DEF TypeOK
  <2>5. nextSeq' \in Nat /\ worker' \in {"recv", "drain", "exited"}
    BY <1>3 DEF TypeOK, WorkerIngest, AfterIngest, AfterRecv
  <2> QED
    BY <1>1, <1>3, <2>3, <2>4, <2>5 DEF TypeOK, WorkerIngest, threadVars
<1>4. CASE WorkerStops
  BY <1>1, <1>4 DEF TypeOK, WorkerStops, threadVars, trackVars
<1> QED
  BY <1>2, <1>3, <1>4 DEF WorkerStep

LEMMA TypeStep ==
    ASSUME Inv, [Next]_vars
    PROVE  TypeOK' /\ ThreadInv'
<1> USE DEF Inv
<1>1. ASSUME NEW p \in Procs, Kill(p) PROVE TypeOK' /\ ThreadInv'
  BY <1>1 DEF TypeOK, ThreadInv, Kill, trackVars, workerVars
<1>2. ASSUME NEW p \in Procs, ReadError(p) PROVE TypeOK' /\ ThreadInv'
  <2>1. TypeOK'
    BY <1>2 DEF TypeOK, ReadError, Goto, Labels, trackVars, workerVars
  <2> QED
    BY <1>2, <2>1, MoveKeepsThreadInv DEF ReadError
<1>3. CASE RequestShutdown \/ DaemonExits
  BY <1>3
  DEF TypeOK, ThreadInv, RequestShutdown, DaemonExits, threadVars, trackVars, workerVars
<1>4. CASE UNCHANGED vars
  BY <1>4 DEF TypeOK, ThreadInv, vars, threadVars, trackVars, workerVars
<1> QED
  BY <1>1, <1>2, <1>3, <1>4, ThreadTypes, WorkerTypes DEF Next

-----------------------------------------------------------------------------
(* Frames on their way.                                                     *)

\* A thread that neither is sending nor begins to.
LEMMA MoveKeepsCarried ==
    ASSUME TypeOK, NEW p \in Procs, NEW label, Goto(p, label), label # "sending",
           at[p] # "sending", UNCHANGED <<channel, buffer>>,
           \A q \in Procs : q # p => frame'[q] = frame[q]
    PROVE  Carried' = Carried
<1>1. \A q \in Procs : at'[q] = "sending" <=> at[q] = "sending"
  BY DEF TypeOK, Goto
<1>2. \A q \in Procs : at[q] = "sending" => frame'[q] = frame[q]
  OBVIOUS
<1> QED
  BY <1>1, <1>2 DEF Carried

\* How a step changes what is on its way, what has been numbered and what has
\* been applied: it numbers a payload, applies the next one, or does neither.
LEMMA Flow ==
    ASSUME Inv, [Next]_vars
    PROVE  \/ \E p \in Procs, fr \in Frame :
                /\ stream' = Append(stream, fr.payload)
                /\ fr.seq = Len(stream) + 1
                /\ Carried' = Carried \cup {fr}
                /\ UNCHANGED <<ingested, nextSeq>>
           \/ \E fr \in buffer :
                /\ fr.seq = nextSeq
                /\ ingested' = Append(ingested, fr.payload)
                /\ nextSeq' = nextSeq + 1
                /\ Carried' \subseteq Carried
                /\ Carried \ {fr} \subseteq Carried'
                /\ UNCHANGED <<stream, shutting>>
           \/ /\ UNCHANGED <<stream, ingested, nextSeq>>
              /\ Carried' \subseteq Carried
              /\ shutting' \/ (Carried' = Carried /\ shutting' = shutting)
<1> USE DEF Inv
<1> DEFINE Still == /\ UNCHANGED <<stream, ingested, nextSeq>>
                    /\ Carried' \subseteq Carried
                    /\ shutting' \/ (Carried' = Carried /\ shutting' = shutting)
<1>1. ASSUME NEW p \in Procs, Accept(p) \/ Open(p) \/ CloseRecord(p) \/ ReadError(p)
      PROVE  Still
  <2>1. PICK label \in {"reading", "opened", "stale", "done"} : Goto(p, label)
    BY <1>1 DEF Accept, Open, CloseRecord, ReadError
  <2>2. at[p] # "sending" /\ UNCHANGED <<frame, workerVars, stream, shutting>>
    BY <1>1 DEF Accept, Open, CloseRecord, ReadError
  <2>3. Carried' = Carried
    BY <2>1, <2>2, MoveKeepsCarried DEF workerVars
  <2> QED
    BY <2>2, <2>3 DEF workerVars
<1>2. ASSUME NEW p \in Procs, Augment(p) \/ CloseCheck(p) PROVE Still
  <2>1. PICK label \in {"reading", "stamping", "done"} : Goto(p, label)
    BY <1>2 DEF Augment, AugmentInline, AugmentFull, CloseCheck
  <2>2. at[p] # "sending" /\ UNCHANGED <<workerVars, stream, shutting>>
    BY <1>2 DEF Augment, AugmentInline, AugmentFull, CloseCheck
  <2>3. \A q \in Procs : q # p => frame'[q] = frame[q]
    BY <1>2 DEF TypeOK, Augment, AugmentInline, AugmentFull, CloseCheck
  <2>4. Carried' = Carried
    BY <2>1, <2>2, <2>3, MoveKeepsCarried DEF workerVars
  <2> QED
    BY <2>2, <2>4 DEF workerVars
<1>3. ASSUME NEW p \in Procs, Stamp(p)
      PROVE  \E fr \in Frame : /\ stream' = Append(stream, fr.payload)
                               /\ fr.seq = Len(stream) + 1
                               /\ Carried' = Carried \cup {fr}
                               /\ UNCHANGED <<ingested, nextSeq>>
  <2> DEFINE fr == [seq |-> Len(stream) + 1, payload |-> frame[p].payload]
  <2>1. frame[p] \in Frame
    BY <1>3 DEF ThreadInv, Stamp
  <2>2. fr \in Frame /\ fr.payload = frame[p].payload /\ fr.seq = Len(stream) + 1
    BY <2>1 DEF TypeOK, Frame
  <2>3. frame'[p] = fr /\ \A q \in Procs : q # p => frame'[q] = frame[q]
    BY <1>3 DEF TypeOK, Stamp
  <2>4. /\ at[p] # "sending" /\ at'[p] = "sending"
        /\ \A q \in Procs : q # p => at'[q] = at[q]
    BY <1>3 DEF TypeOK, Stamp, Goto
  <2>5. UNCHANGED <<channel, buffer, ingested, nextSeq>> /\ stream' = Append(stream, frame[p].payload)
    BY <1>3 DEF Stamp, workerVars
  <2> HIDE DEF fr
  <2>6. Carried' = Carried \cup {fr}
    BY <2>3, <2>4, <2>5 DEF Carried
  <2> QED
    BY <2>2, <2>5, <2>6
<1>4. ASSUME NEW p \in Procs, Send(p) PROVE Still
  <2>1. frame[p] \in Frame /\ channel \in Seq(Frame)
    BY <1>4 DEF TypeOK, ThreadInv, Send
  <2>2. {channel'[i] : i \in 1..Len(channel')} = {channel[i] : i \in 1..Len(channel)} \cup {frame[p]}
    <3>1. channel' = Append(channel, frame[p])
      BY <1>4 DEF Send
    <3>2. /\ Len(channel') = Len(channel) + 1
          /\ channel'[Len(channel) + 1] = frame[p]
          /\ \A i \in 1..Len(channel) : channel'[i] = channel[i]
      BY <2>1, <3>1
    <3>3. Len(channel) \in Nat
      BY <2>1
    <3> QED
      BY <3>2, <3>3
  <2>3. /\ at[p] = "sending" /\ at'[p] # "sending"
        /\ \A q \in Procs : q # p => at'[q] = at[q]
    BY <1>4 DEF TypeOK, Send, Goto
  <2>4. \A q \in Procs : q # p => frame'[q] = frame[q]
    BY <1>4 DEF TypeOK, Send
  <2>5. Carried' = Carried
    BY <1>4, <2>2, <2>3, <2>4 DEF Carried, Send
  <2> QED
    BY <1>4, <2>5 DEF Send
<1>5. ASSUME NEW p \in Procs, SendFails(p) PROVE Still
  <2>1. at'[p] # "sending" /\ \A q \in Procs : q # p => at'[q] = at[q] /\ frame'[q] = frame[q]
    BY <1>5 DEF TypeOK, SendFails, Goto
  <2>2. Carried' \subseteq Carried
    BY <1>5, <2>1 DEF Carried, SendFails, workerVars
  <2> QED
    BY <1>5, <2>2 DEF SendFails, workerVars
<1>6. ASSUME NEW p \in Procs, Kill(p) PROVE Still
  BY <1>6 DEF Kill, Carried, workerVars
<1>7. CASE WorkerRecv
  <2>1. CASE Refused(Head(channel))
    BY <1>7, <2>1 DEF WorkerRecv, Carried, threadVars
  <2>2. CASE ~Refused(Head(channel))
    <3>1. channel \in Seq(Frame) /\ channel # <<>>
      BY <1>7 DEF TypeOK, WorkerRecv
    <3>2. channel' = Tail(channel) /\ buffer' = buffer \cup {Head(channel)}
      BY <1>7, <2>2 DEF WorkerRecv
    <3>3. {channel[i] : i \in 1..Len(channel)}
             = {channel'[i] : i \in 1..Len(channel')} \cup {Head(channel)}
      <4>1. /\ Len(channel) \in Nat /\ Len(channel) = Len(channel') + 1
            /\ channel[1] = Head(channel)
            /\ \A i \in 1..Len(channel') : channel'[i] = channel[i + 1]
        BY <3>1, <3>2
      <4>2. \A i \in 2..Len(channel) : i - 1 \in 1..Len(channel') /\ channel[i] = channel'[i - 1]
        BY <4>1
      <4>3. 1 \in 1..Len(channel) /\ \A i \in 1..Len(channel') : i + 1 \in 1..Len(channel)
        BY <4>1
      <4>4. \A i \in 1..Len(channel) : i = 1 \/ i \in 2..Len(channel)
        BY <4>1
      <4> QED
        BY <4>1, <4>2, <4>3, <4>4
    <3>4. Carried' = Carried
      BY <1>7, <3>2, <3>3 DEF WorkerRecv, Carried, threadVars
    <3> QED
      BY <1>7, <2>2, <3>4 DEF WorkerRecv
  <2> QED
    BY <2>1, <2>2
<1>8. CASE WorkerIngest
  <2>1. PICK fr \in buffer : /\ fr.seq = nextSeq
                             /\ buffer' = buffer \ {fr}
                             /\ ingested' = Append(ingested, fr.payload)
    BY <1>8 DEF WorkerIngest, IsNext
  <2>2. Carried' \subseteq Carried /\ Carried \ {fr} \subseteq Carried'
    BY <1>8, <2>1 DEF WorkerIngest, Carried, threadVars
  <2> QED
    BY <1>8, <2>1, <2>2 DEF WorkerIngest
<1>9. CASE WorkerStops \/ RequestShutdown \/ DaemonExits \/ UNCHANGED vars
  BY <1>9
  DEF WorkerStops, RequestShutdown, DaemonExits, vars, Carried, threadVars, workerVars
<1> QED
  BY <1>1, <1>2, <1>3, <1>4, <1>5, <1>6, <1>7, <1>8, <1>9 DEF Next, ThreadStep, WorkerStep

LEMMA FrameStep ==
    ASSUME Inv, [Next]_vars
    PROVE  FrameInv'
<1> USE DEF Inv
<1>0. /\ stream \in Seq(Payload) /\ ingested \in Seq(Payload)
      /\ \A fr \in Carried : Genuine(fr)
      /\ nextSeq = Len(ingested) + 1
  BY DEF TypeOK, FrameInv
<1>1. CASE \E fr \in Frame : /\ stream' = Append(stream, fr.payload)
                             /\ fr.seq = Len(stream) + 1
                             /\ Carried' = Carried \cup {fr}
                             /\ UNCHANGED <<ingested, nextSeq>>
  <2>1. PICK fr \in Frame : /\ stream' = Append(stream, fr.payload)
                            /\ fr.seq = Len(stream) + 1
                            /\ Carried' = Carried \cup {fr}
                            /\ UNCHANGED <<ingested, nextSeq>>
    BY <1>1
  <2>2. /\ Len(stream) \in Nat
        /\ Len(stream') = Len(stream) + 1
        /\ stream'[Len(stream) + 1] = fr.payload
        /\ \A i \in 1..Len(stream) : stream'[i] = stream[i]
    BY <1>0, <2>1 DEF Frame
  <2>3. Genuine(fr)'
    BY <2>1, <2>2 DEF Genuine
  <2>4. \A x \in Carried : Genuine(x)'
    BY <1>0, <2>2 DEF Genuine
  <2> QED
    BY <1>0, <2>1, <2>3, <2>4 DEF FrameInv
<1>2. CASE \E fr \in buffer : /\ ingested' = Append(ingested, fr.payload)
                              /\ nextSeq' = nextSeq + 1
                              /\ Carried' \subseteq Carried
                              /\ UNCHANGED stream
  <2>1. PICK fr \in buffer : ingested' = Append(ingested, fr.payload)
    BY <1>2
  <2>2. fr.payload \in Payload
    BY <2>1 DEF TypeOK, Frame
  <2>3. Len(ingested') = Len(ingested) + 1
    BY <1>0, <2>1, <2>2
  <2> QED
    BY <1>0, <1>2, <2>3 DEF FrameInv, Genuine
<1>3. CASE UNCHANGED <<stream, ingested, nextSeq>> /\ Carried' \subseteq Carried
  BY <1>0, <1>3 DEF FrameInv, Genuine
<1> QED
  BY <1>1, <1>2, <1>3, Flow

LEMMA InvHolds == Spec => []Inv
<1>1. Inv /\ [Next]_vars => Inv'
  BY TypeStep, FrameStep DEF Inv
<1> QED
  BY <1>1, InitInv, PTL DEF Spec

(* The ingress state is well typed in every reachable state: no thread runs *)
(* past its events or uses a frame it does not hold.                        *)
THEOREM IngressTypeCorrect == Spec => []TypeOK
<1>1. Inv => TypeOK
  BY DEF Inv
<1> QED
  BY <1>1, InvHolds, PTL

(* The trace ingress implements OrderedStream: for any number of threads    *)
(* and any capacity, across kills, read errors, overflow and shutdown, the  *)
(* ingest worker applies payloads in the order of their numbers, each once  *)
(* and none left out.                                                       *)
THEOREM InOrderDelivery == Spec => DeliversInOrder
<1>1. Init => Ordered!Init
  BY DEF Init, Ordered!Init
<1>2. Inv /\ [Next]_vars => [Ordered!Next]_<<stream, ingested>>
  <2> SUFFICES ASSUME Inv, [Next]_vars
               PROVE  Ordered!Next \/ UNCHANGED <<stream, ingested>>
    OBVIOUS
  <2>1. CASE \E fr \in Frame : /\ stream' = Append(stream, fr.payload)
                               /\ UNCHANGED ingested
    BY <2>1 DEF Ordered!Next, Ordered!Stamp, Frame
  <2>2. CASE \E fr \in buffer : /\ fr.seq = nextSeq
                                /\ ingested' = Append(ingested, fr.payload)
                                /\ UNCHANGED stream
    <3>1. PICK fr \in buffer : /\ fr.seq = nextSeq
                               /\ ingested' = Append(ingested, fr.payload)
      BY <2>2
    <3>2. Genuine(fr) /\ nextSeq = Len(ingested) + 1
      BY DEF Inv, FrameInv, Carried
    <3>3. Len(ingested) \in Nat /\ Len(stream) \in Nat
      BY DEF Inv, TypeOK
    <3>4. Len(ingested) < Len(stream) /\ fr.payload = stream[Len(ingested) + 1]
      BY <3>1, <3>2, <3>3 DEF Genuine
    <3> QED
      BY <2>2, <3>1, <3>4 DEF Ordered!Next, Ordered!Apply
  <2> QED
    BY <2>1, <2>2, Flow
<1> QED
  BY <1>1, <1>2, InvHolds, PTL DEF Spec, DeliversInOrder, Ordered!Spec

(* Until the daemon shuts down no ingress number is lost, so the worker can *)
(* never wait for a payload that nobody will send.                          *)
THEOREM NumbersKept == Spec => []NoNumberLost
<1>1. Init => NoNumberLost
  BY DEF Init, NoNumberLost
<1>2. ASSUME Inv, NoNumberLost, [Next]_vars PROVE NoNumberLost'
  <2> USE <1>2
  <2>0. Len(stream) \in Nat /\ Len(ingested) \in Nat /\ stream \in Seq(Payload)
        /\ ingested \in Seq(Payload)
    BY DEF Inv, TypeOK
  <2>00. shutting => shutting'
    BY DEF Next, vars, ThreadStep, WorkerStep, Accept, Open, Augment, Stamp, Send, SendFails,
           CloseRecord, CloseCheck, Kill, ReadError, WorkerRecv, WorkerIngest, WorkerStops,
           RequestShutdown, DaemonExits
  <2>1. CASE \E fr \in Frame : /\ stream' = Append(stream, fr.payload)
                               /\ fr.seq = Len(stream) + 1
                               /\ Carried' = Carried \cup {fr}
                               /\ UNCHANGED ingested
    <3>1. Len(stream') = Len(stream) + 1
      BY <2>0, <2>1 DEF Frame
    <3> QED
      BY <2>0, <2>00, <2>1, <3>1 DEF NoNumberLost
  <2>2. CASE \E fr \in buffer : /\ fr.seq = nextSeq
                                /\ ingested' = Append(ingested, fr.payload)
                                /\ Carried \ {fr} \subseteq Carried'
                                /\ UNCHANGED <<stream, shutting>>
    <3>1. PICK fr \in buffer : /\ fr.seq = nextSeq
                               /\ ingested' = Append(ingested, fr.payload)
                               /\ Carried \ {fr} \subseteq Carried'
      BY <2>2
    <3>2. fr.payload \in Payload
      BY DEF Inv, TypeOK, Frame
    <3>3. Len(ingested') = Len(ingested) + 1 /\ fr.seq = Len(ingested) + 1
      BY <2>0, <3>1, <3>2 DEF Inv, FrameInv
    <3> QED
      BY <2>0, <2>2, <3>1, <3>3 DEF NoNumberLost
  <2>3. CASE /\ UNCHANGED <<stream, ingested>>
             /\ shutting' \/ (Carried' = Carried /\ shutting' = shutting)
    BY <2>3 DEF NoNumberLost
  <2> QED
    BY <2>1, <2>2, <2>3, Flow
<1> QED
  BY <1>1, <1>2, InvHolds, PTL DEF Spec

-----------------------------------------------------------------------------
(* Fallbacks.  A fallback is made when no connection of the root is open,   *)
(* by the count.  So the count must never be short while the root runs:     *)
(* what could make it short, finalizing the root or a reader that gives up, *)
(* happens only when the root has ended or nothing is applied any more.     *)

\* The root has ended, or the worker has and nothing will be applied.
Over(r) == RootEnded(r) \/ worker = "exited"

\* A payload that ends a root is the root's own word, or stands for it.
Told(pl) == /\ pl.ev = "fallback" => IsRoot(pl.proc)
            /\ Terminal(pl.proc, pl.ev) => Over(pl.proc)

\* The connection of p is one of those counted for its root.  A root that
\* still runs stays counted, also when its connection could not be read.
Counted(p) ==
    \/ at[p] = "opened"
    \/ at[p] = "reading" /\ pos[p] > 0
    \/ at[p] \in {"stamping", "sending"} /\ frame[p].payload.ev # "fallback"
    \/ IsRoot(p) /\ pos[p] > 0

OpenOf(r) == {p \in Procs : RootOf[p] = r /\ Counted(p)}

CountIsNotShort(r) == IsFiniteSet(OpenOf(r)) /\ openCount[r] >= Cardinality(OpenOf(r))

CountInv == \A r \in Roots : Over(r) \/ CountIsNotShort(r)

\* Where a thread can be.
PlaceInv ==
    /\ \A p \in Procs : at[p] = "connecting" => pos[p] = 0
    /\ \A p \in Procs : at[p] \in {"stamping", "sending", "closing", "stale"} => pos[p] > 0
    /\ \A p \in Procs : at[p] = "closing" => worker = "exited"
    /\ \A r \in Roots : at[r] = "stale" => Over(r)
    /\ \A p \in Procs : ~IsRoot(p) /\ at[p] # "connecting"
                            => pos[RootOf[p]] > 0 \/ RootOf[p] \in dead

ToldInv ==
    /\ \A p \in Procs : at[p] = "stamping" => Told(frame[p].payload)
    /\ \A i \in 1..Len(stream) : Told(stream[i])

NormInv == \A r \in Roots : norm[r] \notin {"absent", "pending"} => RootEnded(r)

EndInv == PlaceInv /\ ToldInv /\ NormInv /\ CountInv /\ FallbackAfterEnd

LEMMA RootsAreProcs == \A r \in Roots : r \in Procs /\ RootOf[r] = r
BY IngressAssumption DEF Roots

\* Processes only get further.
LEMMA OnlyForward ==
    ASSUME Inv, [Next]_vars
    PROVE  /\ dead \subseteq dead'
           /\ worker = "exited" => worker' = "exited"
           /\ \A p \in Procs : \/ pos'[p] = pos[p]
                               \/ /\ pos'[p] = pos[p] + 1 /\ pos[p] # Len(Script[p])
                                  /\ at[p] # "connecting"
<1> USE DEF Inv
<1>1. ASSUME NEW p \in Procs, Augment(p)
      PROVE  /\ UNCHANGED dead /\ pos' = [pos EXCEPT ![p] = pos[p] + 1]
             /\ pos[p] # Len(Script[p]) /\ at[p] # "connecting"
  <2>1. Len(Script[p]) \in Nat
    BY IngressAssumption
  <2> QED
    BY <1>1, <2>1 DEF Augment, TypeOK, ThreadInv, AtEnd
<1>2. (\E p \in Procs : Augment(p)) \/ (UNCHANGED pos /\ dead \subseteq dead')
  BY DEF Next, vars, threadVars, ThreadStep, WorkerStep, Accept, Open, Stamp, Send, SendFails,
         CloseRecord, CloseCheck, Kill, ReadError, WorkerRecv, WorkerIngest, WorkerStops,
         RequestShutdown, DaemonExits
<1>3. worker = "exited" => worker' = "exited"
  BY DEF Next, vars, workerVars, ThreadStep, WorkerStep, Accept, Open, Augment, Stamp, Send,
         SendFails, CloseRecord, CloseCheck, Kill, ReadError, WorkerRecv, WorkerIngest,
         WorkerStops, RequestShutdown, DaemonExits
<1> QED
  BY <1>1, <1>2, <1>3 DEF TypeOK

\* A process that has ended stays so, and so does the worker.
LEMMA OverStays ==
    ASSUME Inv, [Next]_vars, NEW r \in Procs
    PROVE  /\ RootEnded(r) => RootEnded(r)'
           /\ Over(r) => Over(r)'
<1>1. ASSUME AtEnd(r) PROVE AtEnd(r)'
  BY <1>1, OnlyForward DEF AtEnd
<1>2. pos[r] \in Nat
  BY DEF Inv, TypeOK
<1>3. 1..pos[r] \subseteq 1..pos'[r]
  BY <1>2, OnlyForward
<1>4. RootEnded(r) => RootEnded(r)'
  BY <1>1, <1>3 DEF RootEnded
<1> QED
  BY <1>4, OnlyForward DEF Over

LEMMA ToldStays ==
    ASSUME Inv, [Next]_vars, NEW pl \in Payload, Told(pl)
    PROVE  Told(pl)'
BY OverStays DEF Told, Payload

LEMMA InitEnd == Init => EndInv
<1> SUFFICES ASSUME Init PROVE EndInv
  OBVIOUS
<1>1. PlaceInv /\ NormInv
  BY RootsAreProcs DEF Init, PlaceInv, NormInv
<1>2. ToldInv /\ FallbackAfterEnd
  BY DEF Init, ToldInv, FallbackAfterEnd
<1>3. ASSUME NEW r \in Roots PROVE CountIsNotShort(r)
  <2>1. OpenOf(r) = {}
    BY DEF Init, OpenOf, Counted
  <2> QED
    BY <2>1, FS_EmptySet DEF Init, CountIsNotShort
<1> QED
  BY <1>1, <1>2, <1>3 DEF EndInv, CountInv

\* The thread of one process moves and the others stay.
LEMMA OneMoves ==
    ASSUME TypeOK, NEW p \in Procs, NEW label, Goto(p, label)
    PROVE  at'[p] = label /\ \A q \in Procs : q # p => at'[q] = at[q]
BY DEF TypeOK, Goto

\* Threads come only after their root, and stop early only with the worker.
LEMMA PlaceStep ==
    ASSUME Inv, EndInv, [Next]_vars, RootReadFirst
    PROVE  PlaceInv'
<1> USE DEF Inv, EndInv
<1>0. /\ \A p \in Procs : RootOf[p] \in Roots /\ RootOf[p] \in Procs
      /\ \A r \in Roots : r \in Procs /\ RootOf[r] = r
      /\ \A p \in Procs : pos[p] \in Nat
  BY RootTypes, RootsAreProcs DEF TypeOK
<1>1. /\ \A p \in Procs : pos[p] > 0 => pos'[p] > 0
      /\ \A p \in Procs : at[p] = "connecting" => pos'[p] = pos[p]
      /\ \A p \in Procs : p \in dead => p \in dead'
      /\ worker = "exited" => worker' = "exited"
      /\ \A r \in Roots : Over(r) => Over(r)'
  BY <1>0, OnlyForward, OverStays
<1>2. CASE UNCHANGED at
  BY <1>0, <1>1, <1>2 DEF PlaceInv, IsRoot
<1>3. ASSUME NEW q \in Procs, NEW label \in Labels \ {"connecting"}, Goto(q, label),
             label \in {"stamping", "sending", "closing", "stale"} => pos'[q] > 0,
             label = "closing" => worker' = "exited",
             q \in Roots /\ label = "stale" => Over(q)',
             at[q] = "connecting" /\ ~IsRoot(q)
                => pos'[RootOf[q]] > 0 \/ RootOf[q] \in dead'
      PROVE  PlaceInv'
  BY <1>0, <1>1, <1>3, OneMoves DEF PlaceInv, IsRoot
<1>4. ASSUME NEW p \in Procs, Accept(p) PROVE PlaceInv'
  BY <1>3, <1>4, RootReadFirst DEF Accept, Labels
<1>5. ASSUME NEW p \in Procs, Open(p) PROVE PlaceInv'
  BY <1>3, <1>5 DEF Open, Labels
<1>6. ASSUME NEW p \in Procs, Augment(p) PROVE PlaceInv'
  <2>1. pos'[p] > 0
    BY <1>0, <1>6 DEF Augment, TypeOK
  <2>2. PICK label \in {"reading", "stamping"} : Goto(p, label)
    BY <1>6 DEF Augment, AugmentInline, AugmentFull
  <2> QED
    BY <1>3, <1>6, <2>1, <2>2 DEF Augment, Labels
<1>7. ASSUME NEW p \in Procs, Stamp(p) PROVE PlaceInv'
  <2>1. pos'[p] > 0
    BY <1>7 DEF Stamp, PlaceInv
  <2> QED
    BY <1>3, <1>7, <2>1 DEF Stamp, Labels
<1>8. ASSUME NEW p \in Procs, Send(p) PROVE PlaceInv'
  <2>1. PICK label \in {"done", "reading"} : Goto(p, label)
    BY <1>8 DEF Send
  <2> QED
    BY <1>3, <1>8, <2>1 DEF Send, Labels
<1>9. ASSUME NEW p \in Procs, SendFails(p) PROVE PlaceInv'
  <2>1. PICK label \in {"done", "closing"} : Goto(p, label)
    BY <1>9 DEF SendFails
  <2>2. pos'[p] > 0 /\ worker' = "exited"
    BY <1>1, <1>9 DEF SendFails, PlaceInv
  <2> QED
    BY <1>3, <1>9, <2>1, <2>2 DEF SendFails, Labels
<1>10. ASSUME NEW p \in Procs, CloseRecord(p) PROVE PlaceInv'
  <2>1. PICK label \in {"done", "stale"} : Goto(p, label) /\ (label = "stale" => pos[p] # 0)
    BY <1>10 DEF CloseRecord
  <2>2. label = "stale" => pos'[p] > 0
    BY <1>0, <1>1, <2>1
  <2>3. p \in Roots => Over(p)
    BY <1>10 DEF CloseRecord, PlaceInv, Over, RootEnded
  <2> QED
    BY <1>1, <1>3, <1>10, <2>1, <2>2, <2>3 DEF CloseRecord, Labels
<1>11. ASSUME NEW p \in Procs, CloseCheck(p) PROVE PlaceInv'
  <2>1. PICK label \in {"stamping", "done"} : Goto(p, label)
    BY <1>11 DEF CloseCheck
  <2>2. pos'[p] > 0
    BY <1>1, <1>11 DEF CloseCheck, PlaceInv
  <2> QED
    BY <1>3, <1>11, <2>1, <2>2 DEF CloseCheck, Labels
<1>12. ASSUME NEW p \in Procs, ReadError(p) PROVE PlaceInv'
  BY <1>3, <1>12 DEF ReadError, Labels
<1>13. (\E p \in Procs : ThreadStep(p) \/ ReadError(p)) \/ UNCHANGED at
  BY DEF Next, vars, threadVars, WorkerStep, Kill, WorkerRecv, WorkerIngest, WorkerStops,
         RequestShutdown, DaemonExits
<1> QED
  BY <1>2, <1>4, <1>5, <1>6, <1>7, <1>8, <1>9, <1>10, <1>11, <1>12, <1>13 DEF ThreadStep

\* A fallback is made only for a root that is over.
LEMMA FallbackIsDue ==
    ASSUME Inv, EndInv, RootReadFirst, NEW p \in Procs, at[p] = "stale", NeedsFallback(RootOf[p])
    PROVE  Over(RootOf[p])
<1> DEFINE r == RootOf[p]
<1> USE DEF Inv, EndInv
<1>0. r \in Roots /\ r \in Procs /\ RootOf[r] = r
  BY RootTypes, RootsAreProcs
<1>1. CASE IsRoot(p)
  BY <1>0, <1>1 DEF IsRoot, PlaceInv
<1>2. CASE ~IsRoot(p)
  <2> SUFFICES ASSUME ~Over(r) PROVE FALSE
    OBVIOUS
  <2>1. pos[r] > 0
    BY <1>2 DEF PlaceInv, Over, RootEnded, AtEnd
  <2>2. r \in OpenOf(r)
    BY <1>0, <2>1 DEF OpenOf, Counted, IsRoot
  <2>3. IsFiniteSet(OpenOf(r)) /\ openCount[r] >= Cardinality(OpenOf(r))
    BY <1>0 DEF CountInv, CountIsNotShort
  <2>4. Cardinality(OpenOf(r)) \in Nat /\ Cardinality(OpenOf(r)) # 0
    BY <2>2, <2>3, FS_CardinalityType, FS_EmptySet
  <2>5. openCount[r] = 0
    BY DEF NeedsFallback
  <2> QED
    BY <2>3, <2>4, <2>5
<1> QED
  BY <1>1, <1>2

\* What is stamped, and will be, ends only a root that is over.
LEMMA ToldStep ==
    ASSUME Inv, EndInv, [Next]_vars, RootReadFirst
    PROVE  ToldInv'
<1> USE DEF Inv, EndInv
<1>0. /\ \A p \in Procs : RootOf[p] \in Roots /\ RootOf[p] \in Procs
      /\ \A r \in Roots : r \in Procs /\ RootOf[r] = r
      /\ stream \in Seq(Payload)
  BY RootTypes, RootsAreProcs DEF TypeOK
<1>1. \A pl \in Payload : Told(pl) => Told(pl)'
  BY ToldStays
<1>2. \A p \in Procs : at[p] = "stamping" => frame[p].payload \in Payload /\ Told(frame[p].payload)
  BY DEF ThreadInv, Frame, ToldInv
<1>3. \A i \in 1..Len(stream) : stream[i] \in Payload /\ Told(stream[i])
  BY <1>0 DEF ToldInv
<1>4. ASSUME UNCHANGED stream,
             \A p \in Procs : at'[p] = "stamping" => at[p] = "stamping" /\ frame'[p] = frame[p]
      PROVE  ToldInv'
  BY <1>1, <1>2, <1>3, <1>4 DEF ToldInv
<1>5. ASSUME NEW p \in Procs, NEW pl \in Payload, UNCHANGED stream, at[p] # "stamping",
             Goto(p, "stamping"), frame' = [frame EXCEPT ![p] = [seq |-> 0, payload |-> pl]], Told(pl)'
      PROVE  ToldInv'
  BY <1>1, <1>2, <1>3, <1>5 DEF ToldInv, Goto, TypeOK
<1>6. ASSUME NEW p \in Procs, Augment(p) PROVE ToldInv'
  <2> DEFINE e == Script[p][pos[p] + 1]
  <2>1. /\ e \in Event /\ pos[p] + 1 \in 1..Len(Script[p])
        /\ pos' = [pos EXCEPT ![p] = @ + 1]
        /\ at[p] # "stamping"
    BY <1>6, EventType DEF Augment
  <2>2. PICK name \in Events : name = e.ev
    BY <2>1 DEF Event
  <2> DEFINE pl == [proc |-> p, ev |-> name]
  <2>3. pos'[p] = pos[p] + 1
    BY <2>1 DEF TypeOK
  <2>4. name \in {"exit", "atexit"} => RootEnded(p)'
    BY <2>1, <2>2, <2>3 DEF RootEnded
  <2>5. pl \in Payload /\ pl.ev = name /\ pl.proc = p /\ name # "fallback"
    BY DEF Payload, Events
  <2>6. Told(pl)'
    BY <2>4, <2>5 DEF Told, Terminal, Over
  <2>7. CASE AugmentInline(p, e)
    BY <1>4, <2>7 DEF AugmentInline, Goto, TypeOK
  <2>8. CASE AugmentFull(p, e)
    <3>1. /\ frame' = [frame EXCEPT ![p] = [seq |-> 0, payload |-> pl]]
          /\ Goto(p, "stamping") /\ UNCHANGED stream
      BY <2>2, <2>8 DEF AugmentFull
    <3> QED
      BY <1>5, <2>1, <2>5, <2>6, <3>1
  <2> QED
    BY <1>6, <2>7, <2>8 DEF Augment
<1>7. ASSUME NEW p \in Procs, CloseCheck(p) PROVE ToldInv'
  <2> DEFINE r == RootOf[p]
             pl == [proc |-> r, ev |-> "fallback"]
  <2>1. CASE NeedsFallback(r)
    <3>1. Over(r)
      BY <1>7, <2>1, FallbackIsDue DEF CloseCheck
    <3>2. pl \in Payload /\ pl.proc = r /\ pl.ev = "fallback" /\ IsRoot(r)
      BY <1>0 DEF Payload, IsRoot
    <3>3. Told(pl)
      BY <3>1, <3>2 DEF Told
    <3>4. /\ frame' = [frame EXCEPT ![p] = [seq |-> 0, payload |-> pl]]
          /\ Goto(p, "stamping") /\ UNCHANGED stream /\ at[p] # "stamping"
      BY <1>7, <2>1 DEF CloseCheck
    <3> HIDE DEF pl
    <3>5. Told(pl)'
      BY <1>1, <3>2, <3>3
    <3> QED
      BY <1>5, <3>2, <3>4, <3>5
  <2>2. CASE ~NeedsFallback(r)
    BY <1>4, <1>7, <2>2 DEF CloseCheck, Goto, TypeOK
  <2> QED
    BY <2>1, <2>2
<1>8. ASSUME NEW p \in Procs, Stamp(p) PROVE ToldInv'
  <2>1. PICK pl \in Payload : pl = frame[p].payload
    BY <1>2, <1>8 DEF Stamp
  <2>2. Told(pl)'
    BY <1>1, <1>2, <1>8, <2>1 DEF Stamp
  <2>3. stream' = Append(stream, pl)
    BY <1>8, <2>1 DEF Stamp
  <2>4. /\ Len(stream) \in Nat /\ Len(stream') = Len(stream) + 1
        /\ stream'[Len(stream) + 1] = pl
        /\ \A i \in 1..Len(stream) : stream'[i] = stream[i]
    BY <1>0, <2>3
  <2>5. \A i \in 1..Len(stream') : i \in 1..Len(stream) \/ i = Len(stream) + 1
    BY <2>4
  <2>6. \A i \in 1..Len(stream') : \E x \in Payload : x = stream'[i] /\ Told(x)'
    BY <1>1, <1>3, <2>2, <2>4, <2>5
  <2>7. \A q \in Procs : at'[q] = "stamping" => at[q] = "stamping" /\ frame'[q] = frame[q]
    BY <1>8 DEF Stamp, Goto, TypeOK
  <2>8. \A q \in Procs : at'[q] = "stamping" => \E x \in Payload : x = frame'[q].payload /\ Told(x)'
    BY <1>1, <1>2, <2>7
  <2> QED
    BY <2>6, <2>8 DEF ToldInv
<1>9. ASSUME NEW p \in Procs,
             Accept(p) \/ Open(p) \/ Send(p) \/ SendFails(p) \/ CloseRecord(p) \/ ReadError(p)
      PROVE  ToldInv'
  <2>1. PICK label \in {"reading", "opened", "done", "closing", "stale"} : Goto(p, label)
    BY <1>9 DEF Accept, Open, Send, SendFails, CloseRecord, ReadError
  <2>2. UNCHANGED stream
    BY <1>9 DEF Accept, Open, Send, SendFails, CloseRecord, ReadError
  <2>3. frame' = frame \/ frame' = [frame EXCEPT ![p] = None]
    BY <1>9 DEF Accept, Open, Send, SendFails, CloseRecord, ReadError
  <2> QED
    BY <1>4, <2>1, <2>2, <2>3 DEF Goto, TypeOK
<1>10. ASSUME NEW p \in Procs, Kill(p) PROVE ToldInv'
  BY <1>4, <1>10 DEF Kill
<1>11. CASE WorkerStep \/ RequestShutdown \/ DaemonExits \/ UNCHANGED vars
  BY <1>4, <1>11 DEF vars, threadVars, WorkerStep, WorkerRecv, WorkerIngest, WorkerStops,
                     RequestShutdown, DaemonExits
<1> QED
  BY <1>6, <1>7, <1>8, <1>9, <1>10, <1>11 DEF Next, ThreadStep

\* Only the payload that ends a root makes the normalizer finish with it, and
\* only then is its tracking state cleared.
LEMMA ClearedWhenOver ==
    ASSUME Inv, EndInv, WorkerIngest
    PROVE  /\ NormInv' /\ FallbackAfterEnd'
           /\ \A r \in Roots : RootEnded(r) \/ openCount'[r] = openCount[r]
<1> USE DEF Inv, EndInv
<1>1. PICK fr \in buffer : /\ fr.seq = nextSeq
                           /\ buffer' = buffer \ {fr}
                           /\ ingested' = Append(ingested, fr.payload)
                           /\ Apply(fr.payload)
  BY DEF WorkerIngest, IsNext
<1> DEFINE pl == fr.payload
           r == RootOf[pl.proc]
<1>2. pl \in Payload /\ pl.proc \in Procs /\ r \in Roots
  BY <1>1, RootTypes DEF TypeOK, Frame, Payload
<1>3. Told(pl)
  BY <1>1 DEF FrameInv, Genuine, Carried, ToldInv
<1>4. Terminal(pl.proc, pl.ev) => RootEnded(r)
  <2>1. worker # "exited"
    BY DEF WorkerIngest
  <2> QED
    BY <1>3, <2>1 DEF Told, Over, Terminal, IsRoot
<1>5. UNCHANGED threadVars
  BY DEF WorkerIngest
<1>6. \A x \in Procs : RootEnded(x)' <=> RootEnded(x)
  BY <1>5 DEF RootEnded, AtEnd, threadVars
<1>7. \A x \in Roots : x \in Procs
  BY RootsAreProcs
<1>8. norm[r] \in {"deferred", "failed"} => RootEnded(r)
  BY <1>2 DEF NormInv
<1>9. UNCHANGED <<norm, trackVars>> \/ (NormIs(r, "pending") /\ UNCHANGED trackVars) \/ RootEnded(r)
  BY <1>1, <1>4, <1>8 DEF Apply
<1>10. /\ \A x \in Roots : x # r => norm'[x] = norm[x] /\ openCount'[x] = openCount[x]
  <2>1. \/ UNCHANGED norm
        \/ \E label \in {"pending", "deferred", "completed", "failed"} : NormIs(r, label)
    BY <1>1 DEF Apply, Finalize
  <2>2. UNCHANGED trackVars \/ Clear(r)
    BY <1>1 DEF Apply, Finalize
  <2> QED
    BY <1>2, <2>1, <2>2 DEF TypeOK, NormIs, Clear, trackVars
<1>11. NormInv'
  BY <1>2, <1>6, <1>7, <1>9, <1>10 DEF NormInv, NormIs, TypeOK, trackVars
<1>12. FallbackAfterEnd'
  <2>1. pl.ev = "fallback" => RootEnded(pl.proc)
    BY <1>3, <1>4 DEF Told, Terminal, IsRoot
  <2>2. /\ Len(ingested) \in Nat /\ Len(ingested') = Len(ingested) + 1
        /\ ingested'[Len(ingested) + 1] = pl
        /\ \A i \in 1..Len(ingested) : ingested'[i] = ingested[i] /\ ingested[i] \in Payload
    BY <1>1, <1>2 DEF TypeOK
  <2>3. \A i \in 1..Len(ingested') : i \in 1..Len(ingested) \/ i = Len(ingested) + 1
    BY <2>2
  <2>4. \A i \in 1..Len(ingested') : \E x \in Payload :
            x = ingested'[i] /\ (x.ev = "fallback" => RootEnded(x.proc))
    BY <1>2, <2>1, <2>2, <2>3 DEF FallbackAfterEnd
  <2>5. \A x \in Payload : x.proc \in Procs
    BY DEF Payload
  <2> QED
    BY <1>6, <2>4, <2>5 DEF FallbackAfterEnd
<1>13. \A x \in Roots : RootEnded(x) \/ openCount'[x] = openCount[x]
  BY <1>9, <1>10 DEF trackVars
<1> QED
  BY <1>11, <1>12, <1>13

\* Counting one more or one fewer connection of a root.
LEMMA CountMoves ==
    ASSUME Inv, NEW q \in Procs, NEW r \in Roots, r = RootOf[q], CountIsNotShort(r),
           \A p \in Procs : p # q => (Counted(p)' <=> Counted(p)),
           \/ openCount'[r] = openCount[r] + 1
           \/ openCount'[r] = openCount[r] /\ (Counted(q)' => Counted(q))
           \/ /\ openCount'[r] = IF openCount[r] > 1 THEN openCount[r] - 1 ELSE 0
              /\ Counted(q) /\ ~Counted(q)'
    PROVE  CountIsNotShort(r)'
<1> DEFINE S == OpenOf(r)
           n == openCount[r]
<1>0. /\ IsFiniteSet(S) /\ n \in Nat /\ Cardinality(S) \in Nat /\ n >= Cardinality(S)
  BY FS_CardinalityType DEF Inv, TypeOK, CountIsNotShort
<1>1. CASE Counted(q)' /\ ~Counted(q)
  <2>1. OpenOf(r)' = S \cup {q} /\ q \notin S
    BY <1>1 DEF OpenOf
  <2>2. IsFiniteSet(OpenOf(r)') /\ Cardinality(OpenOf(r)') = Cardinality(S) + 1
    BY <1>0, <2>1, FS_AddElement
  <2> QED
    BY <1>0, <1>1, <2>2 DEF CountIsNotShort
<1>2. CASE Counted(q) /\ ~Counted(q)'
  <2>1. OpenOf(r)' = S \ {q} /\ q \in S
    BY <1>2 DEF OpenOf
  <2>2. IsFiniteSet(OpenOf(r)') /\ Cardinality(OpenOf(r)') = Cardinality(S) - 1
    BY <1>0, <2>1, FS_RemoveElement
  <2> QED
    BY <1>0, <2>2 DEF CountIsNotShort
<1>3. CASE Counted(q)' <=> Counted(q)
  <2>1. OpenOf(r)' = S
    BY <1>3 DEF OpenOf
  <2> QED
    BY <1>0, <1>3, <2>1 DEF CountIsNotShort
<1> QED
  BY <1>1, <1>2, <1>3

LEMMA CountStep ==
    ASSUME Inv, EndInv, [Next]_vars, RootReadFirst
    PROVE  CountInv'
<1> USE DEF Inv, EndInv
<1>0. /\ \A p \in Procs : RootOf[p] \in Roots /\ RootOf[p] \in Procs
      /\ \A r \in Roots : r \in Procs /\ RootOf[r] = r
      /\ \A p \in Procs : pos[p] \in Nat
      /\ \A r \in Roots : openCount[r] \in Nat
  BY RootTypes, RootsAreProcs DEF TypeOK
<1>1. \A r \in Roots : Over(r) => Over(r)'
  BY <1>0, OverStays
\* What a step of one thread has to show.
<1>2. ASSUME NEW q \in Procs,
             \A p \in Procs : p # q => at'[p] = at[p] /\ pos'[p] = pos[p] /\ frame'[p] = frame[p],
             \A r \in Roots : r # RootOf[q] => openCount'[r] = openCount[r],
             \/ Over(RootOf[q])
             \/ openCount'[RootOf[q]] = openCount[RootOf[q]] + 1
             \/ openCount'[RootOf[q]] = openCount[RootOf[q]] /\ (Counted(q)' => Counted(q))
             \/ /\ openCount'[RootOf[q]] = IF openCount[RootOf[q]] > 1
                                           THEN openCount[RootOf[q]] - 1 ELSE 0
                /\ Counted(q) /\ ~Counted(q)'
      PROVE  CountInv'
  <2>1. \A p \in Procs : p # q => (Counted(p)' <=> Counted(p))
    BY <1>2 DEF Counted, IsRoot
  <2>2. ASSUME NEW r \in Roots, r # RootOf[q], CountIsNotShort(r) PROVE CountIsNotShort(r)'
    <3>1. OpenOf(r)' = OpenOf(r)
      BY <2>1, <2>2 DEF OpenOf
    <3> QED
      BY <1>2, <2>2, <3>1 DEF CountIsNotShort
  <2>3. ASSUME NEW r \in Roots, r = RootOf[q], ~Over(r), CountIsNotShort(r) PROVE CountIsNotShort(r)'
    BY <1>2, <2>1, <2>3, CountMoves
  <2> QED
    BY <1>1, <2>2, <2>3 DEF CountInv
<1>3. ASSUME UNCHANGED <<at, pos, frame>>,
             \A r \in Roots : Over(r)' \/ openCount'[r] = openCount[r]
      PROVE  CountInv'
  <2>1. \A r \in Roots : OpenOf(r)' = OpenOf(r)
    BY <1>3 DEF OpenOf, Counted, IsRoot
  <2> QED
    BY <1>1, <1>3, <2>1 DEF CountInv, CountIsNotShort
<1>4. ASSUME NEW p \in Procs, Accept(p) PROVE CountInv'
  <2>1. Counted(p)' => Counted(p)
    BY <1>0, <1>4 DEF Accept, Goto, TypeOK, Counted, IsRoot, PlaceInv
  <2> QED
    BY <1>0, <1>2, <1>4, <2>1 DEF Accept, Goto, TypeOK, trackVars
<1>5. ASSUME NEW p \in Procs, Open(p) PROVE CountInv'
  BY <1>0, <1>2, <1>5 DEF Open, CountUp, Goto, TypeOK
<1>6. ASSUME NEW p \in Procs, Augment(p) PROVE CountInv'
  <2>1. Counted(p)
    BY <1>6 DEF Augment, Counted
  <2>2. /\ pos' = [pos EXCEPT ![p] = @ + 1] /\ UNCHANGED openCount
        /\ \A q \in Procs : q # p => at'[q] = at[q] /\ frame'[q] = frame[q]
    BY <1>6 DEF Augment, AugmentInline, AugmentFull, Goto, TypeOK
  <2> QED
    BY <1>0, <1>2, <2>1, <2>2 DEF TypeOK
<1>7. ASSUME NEW p \in Procs, Stamp(p) PROVE CountInv'
  <2>1. /\ \A q \in Procs : q # p => at'[q] = at[q] /\ frame'[q] = frame[q]
        /\ frame'[p].payload = frame[p].payload
        /\ at[p] = "stamping" /\ at'[p] = "sending" /\ UNCHANGED <<pos, openCount>>
    BY <1>7 DEF Stamp, Goto, TypeOK, trackVars
  <2>2. Counted(p)' => Counted(p)
    BY <2>1 DEF Counted, IsRoot
  <2> QED
    BY <1>0, <1>2, <2>1, <2>2
<1>8. ASSUME NEW p \in Procs, Send(p) PROVE CountInv'
  <2>1. /\ \A q \in Procs : q # p => at'[q] = at[q] /\ frame'[q] = frame[q]
        /\ at[p] = "sending" /\ UNCHANGED <<pos, openCount>>
        /\ at'[p] = IF frame[p].payload.ev = "fallback" THEN "done" ELSE "reading"
    BY <1>8 DEF Send, Goto, TypeOK, trackVars
  <2>2. Counted(p)' => Counted(p)
    BY <2>1 DEF Counted, IsRoot
  <2> QED
    BY <1>0, <1>2, <2>1, <2>2
<1>9. ASSUME NEW p \in Procs, SendFails(p) PROVE CountInv'
  BY <1>0, <1>2, <1>9 DEF SendFails, Goto, TypeOK, trackVars, Over
<1>10. ASSUME NEW p \in Procs, CloseRecord(p) PROVE CountInv'
  <2>1. /\ \A q \in Procs : q # p => at'[q] = at[q]
        /\ UNCHANGED <<pos, frame>>
        /\ at'[p] \in {"done", "stale"}
    BY <1>10 DEF CloseRecord, Goto, TypeOK
  <2>2. CASE Over(RootOf[p])
    <3>1. \A r \in Roots : r # RootOf[p] => openCount'[r] = openCount[r]
      BY <1>0, <1>10 DEF CloseRecord, CountDown, TypeOK
    <3> QED
      BY <1>2, <2>1, <2>2, <3>1
  <2>3. CASE ~Over(RootOf[p]) /\ pos[p] = 0
    <3>1. UNCHANGED openCount /\ (Counted(p)' => Counted(p))
      BY <1>10, <2>1, <2>3 DEF CloseRecord, Counted, IsRoot
    <3> QED
      BY <1>0, <1>2, <2>1, <3>1
  <2>4. CASE ~Over(RootOf[p]) /\ pos[p] # 0
    <3>1. ~IsRoot(p) /\ at[p] = "reading"
      BY <1>10, <2>4 DEF CloseRecord, PlaceInv, Over, RootEnded, IsRoot
    <3>2. Counted(p) /\ ~Counted(p)'
      BY <1>0, <2>1, <2>4, <3>1 DEF Counted, IsRoot
    <3>3. openCount' = [openCount EXCEPT ![RootOf[p]] =
                            IF openCount[RootOf[p]] > 1 THEN openCount[RootOf[p]] - 1 ELSE 0]
      BY <1>10, <2>4 DEF CloseRecord, CountDown
    <3>4. /\ openCount'[RootOf[p]] = IF openCount[RootOf[p]] > 1
                                     THEN openCount[RootOf[p]] - 1 ELSE 0
          /\ \A r \in Roots : r # RootOf[p] => openCount'[r] = openCount[r]
      BY <1>0, <3>3 DEF TypeOK
    <3> QED
      BY <1>2, <2>1, <3>2, <3>4
  <2> QED
    BY <2>2, <2>3, <2>4
<1>11. ASSUME NEW p \in Procs, CloseCheck(p) PROVE CountInv'
  <2>1. /\ \A q \in Procs : q # p => at'[q] = at[q] /\ frame'[q] = frame[q]
        /\ UNCHANGED <<pos, openCount>>
    BY <1>11 DEF CloseCheck, Goto, TypeOK
  <2>2. Counted(p)' => Counted(p)
    BY <1>11 DEF CloseCheck, Goto, TypeOK, Counted, IsRoot
  <2> QED
    BY <1>2, <2>1, <2>2
<1>12. ASSUME NEW p \in Procs, ReadError(p) PROVE CountInv'
  <2>1. Counted(p)' => Counted(p)
    BY <1>12 DEF ReadError, Goto, TypeOK, Counted, IsRoot
  <2> QED
    BY <1>2, <1>12, <2>1 DEF ReadError, Goto, TypeOK, trackVars
<1>13. CASE WorkerIngest
  <2>1. \A r \in Roots : Over(r)' \/ openCount'[r] = openCount[r]
    BY <1>1, <1>13, ClearedWhenOver DEF Over
  <2> QED
    BY <1>3, <1>13, <2>1 DEF WorkerIngest, threadVars
<1>14. ASSUME NEW p \in Procs, Kill(p) PROVE CountInv'
  BY <1>3, <1>14 DEF Kill, trackVars
<1>15. CASE WorkerRecv \/ WorkerStops \/ RequestShutdown \/ DaemonExits \/ UNCHANGED vars
  BY <1>3, <1>15 DEF WorkerRecv, WorkerStops, RequestShutdown, DaemonExits, vars, threadVars, trackVars
<1> QED
  BY <1>4, <1>5, <1>6, <1>7, <1>8, <1>9, <1>10, <1>11, <1>12, <1>13, <1>14, <1>15
  DEF Next, ThreadStep, WorkerStep

LEMMA NormStep ==
    ASSUME Inv, EndInv, [Next]_vars
    PROVE  NormInv' /\ FallbackAfterEnd'
<1>1. CASE WorkerIngest
  BY <1>1, ClearedWhenOver
<1>2. CASE UNCHANGED <<norm, ingested>>
  <2>1. NormInv'
    BY <1>2, RootsAreProcs, OverStays DEF EndInv, NormInv
  <2>2. \A i \in 1..Len(ingested) : ingested[i].proc \in Procs
    <3>1. \A i \in 1..Len(ingested) : ingested[i] \in Payload
      BY DEF Inv, TypeOK
    <3> QED
      BY <3>1 DEF Payload
  <2>3. \A r \in Procs : RootEnded(r) => RootEnded(r)'
    BY OverStays
  <2>4. FallbackAfterEnd'
    BY <1>2, <2>2, <2>3 DEF EndInv, FallbackAfterEnd
  <2> QED
    BY <2>1, <2>4
<1>3. WorkerIngest \/ UNCHANGED <<norm, ingested>>
  BY DEF Next, vars, workerVars, ThreadStep, WorkerStep, Accept, Open, Augment, Stamp, Send,
         SendFails, CloseRecord, CloseCheck, Kill, ReadError, WorkerRecv, WorkerStops,
         RequestShutdown, DaemonExits
<1> QED
  BY <1>1, <1>2, <1>3

(* If the daemon reads the first event of a root before the connection of a *)
(* process it starts, then no connection close fallback is applied to a     *)
(* command that still runs: for any number of processes, events, kills,     *)
(* unreadable connections, and finalizations that forget the count.         *)
THEOREM FallbackWaitsForEnd ==
    ASSUME RootReadFirst
    PROVE  Spec => []FallbackAfterEnd
<1>1. Inv /\ EndInv /\ [Next]_vars => EndInv'
  BY RootReadFirst, PlaceStep, ToldStep, NormStep, CountStep DEF EndInv
<1>2. EndInv => FallbackAfterEnd
  BY DEF EndInv
<1> QED
  BY <1>1, <1>2, InvHolds, InitEnd, PTL DEF Spec


=============================================================================
