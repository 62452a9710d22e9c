-------------------------- MODULE CC2420Reception --------------------------
(***************************************************************************)
(* What the upper layer gets from the CC2420 state machine, for every      *)
(* duration, power and delay: the variables keep their types, the signal   *)
(* and the packets received as a whole are the state's, however eagerly    *)
(* the upper layer sends; and if it does not send from inside its callback *)
(* the state knows whether the medium is free.                             *)
(***************************************************************************)
EXTENDS CC2420Proofs

(* A packet to transmit bears the number of its request. *)
Numbered(tx) == tx = NoPkt \/ tx.id \in Nat

(* The signal and the received packet are right by themselves; the proof needs *)
(* the types, and no order of the timers.                                       *)
Heard ==
  /\ TypeOK
  /\ Numbered(txPkt)
  /\ PinAgrees
  /\ DeliveredClean

(* The timers and the packets measure the medium: what is left of it is what  *)
(* is left of the noise, of the reception, or of the longer of the two.        *)
NoiseOnly == {"RXCALNOISE", "RXNOISE", "RXNOISECCA", "TXNOISE", "TXCALNOISE"}

Measures(s, tm, rx, coll, a) ==
  /\ s \in IdleAir => a = 0
  /\ s \in NoiseOnly => a = tm.left["coll"] /\ a = coll.left
  /\ s \in Receiving => tm.left["rx"] = rx.left
  /\ s \in {"RXHDR", "RXDATA"} => a = rx.left
  /\ s \in {"RXHDRCAP", "RXDATACAP"} =>
       /\ tm.left["coll"] = coll.left
       /\ a = IF rx.left > coll.left THEN rx.left ELSE coll.left
  /\ s = "RXCOLL" =>
       /\ a = coll.left /\ rx.left <= a
       /\ IF Runs(tm, "coll") THEN tm.left["coll"] = a ELSE a = 0

Measured ==
  /\ Inv
  /\ Heard
  /\ Measures(state, timers, rxPkt, collPkt, air)

-----------------------------------------------------------------------------
(* Scheduling a timer, even one that runs, sets it and leaves the others alone. *)
LEMMA StartType ==
  ASSUME NEW tm \in TimerSets, NEW t \in Timers, NEW d \in Nat
  PROVE  /\ Start(tm, t, d) \in TimerSets
         /\ \A u \in Timers : Start(tm, t, d).left[u] = IF u = t THEN d ELSE tm.left[u]
<1>1. tm.left \in [Timers -> Nat \cup {Off}] /\ tm.twice \in BOOLEAN
         /\ tm.before \in SUBSET (Timers \X Timers)
  BY DEF TimerSets
<1>2. {u \in Timers : Runs(tm, u)} \X {t} \in SUBSET (Timers \X Timers)
  OBVIOUS
<1>3. (tm.twice \/ Runs(tm, t)) \in BOOLEAN
  BY DEF Runs
<1> QED
  BY <1>1, <1>2, <1>3 DEF Start, TimerSets

(* The entry of a state sets its state or transmission timer. *)
LEMMA EntryTimersType ==
  ASSUME NEW s, NEW tm \in TimerSets, NEW tx \in Packets
  PROVE  /\ EntryTimers(s, tm, tx) \in TimerSets
         /\ \A u \in {"rx", "coll", "cca"} : EntryTimers(s, tm, tx).left[u] = tm.left[u]
<1>1. {Twelve, Eight, Header, TxCal} \subseteq Nat /\ tx.left \in Nat
  BY FSMAssumption DEF Packets
<1>2. "state" \in Timers /\ "tx" \in Timers /\ {"rx", "coll", "cca"} \subseteq Timers \ {"state", "tx"}
  BY DEF Timers
<1>3. ASSUME NEW d \in Nat, NEW t \in {"state", "tx"}
      PROVE  /\ Started(tm, t, d) \in TimerSets
             /\ \A u \in {"rx", "coll", "cca"} : Started(tm, t, d).left[u] = tm.left[u]
  <2>1. t \in Timers /\ {"rx", "coll", "cca"} \subseteq Timers \ {t}
    BY <1>2
  <2> QED
    BY <2>1, StartedLeft
<1>4. /\ Stop(tm, "state") \in TimerSets
      /\ \A u \in {"rx", "coll", "cca"} : Stop(tm, "state").left[u] = tm.left[u]
  BY <1>2, StopLeft
<1>5. EntryTimers(s, tm, tx) \in {tm, Stop(tm, "state"), Started(tm, "tx", tx.left)}
        \cup {Started(tm, "state", d) : d \in {Twelve, Eight, Header, TxCal}}
  BY DEF EntryTimers
<1> QED
  BY <1>1, <1>3, <1>4, <1>5

(* The signal given on entering a state, unless a delay is still running. *)
LEMMA Entered ==
  ASSUME NEW s, NEW tm \in TimerSets, NEW rx, NEW tx \in Packets,
         EnterState(s, tm, rx, tx), pin \in BOOLEAN
  PROVE  /\ timers' \in TimerSets
         /\ \A u \in {"rx", "coll"} : timers'.left[u] = tm.left[u]
         /\ pin' \in BOOLEAN
         /\ s \in Signalling /\ ~Runs(timers', "cca") => pin' = (s = "RXCCA")
         /\ s \notin Signalling => pin' = pin /\ timers'.left["cca"] = tm.left["cca"]
<1> DEFINE en == EntryTimers(s, tm, tx)
<1>1. en \in TimerSets /\ \A u \in {"rx", "coll", "cca"} : en.left[u] = tm.left[u]
  BY EntryTimersType
<1>2. CASE s \notin Signalling
  BY <1>1, <1>2 DEF EnterState
<1>3. CASE s \in Signalling /\ timers' = en /\ pin' = (s = "RXCCA")
  BY <1>1, <1>3
<1>4. CASE s \in Signalling /\ timers' = en /\ Runs(en, "cca") /\ pin' = pin
  BY <1>1, <1>4
<1>5. CASE s \in Signalling /\ pin' = pin /\ \E d \in CcaDelays \ {0} : timers' = Start(en, "cca", d)
  <2>1. PICK d \in CcaDelays \ {0} : timers' = Start(en, "cca", d)
    BY <1>5
  <2>2. d \in Nat
    BY FSMAssumption
  <2>3. "cca" \in Timers /\ {"rx", "coll"} \subseteq Timers \ {"cca"}
    BY DEF Timers
  <2> HIDE DEF en
  <2>4. /\ timers' \in TimerSets /\ timers'.left["cca"] = d
        /\ \A u \in {"rx", "coll"} : timers'.left[u] = tm.left[u]
    BY <1>1, <2>1, <2>2, <2>3, StartType
  <2> QED
    BY <1>5, <2>2, <2>4 DEF Runs, Off
<1> QED
  BY <1>2, <1>3, <1>4, <1>5 DEF EnterState, DelayCCASignal

-----------------------------------------------------------------------------
(* What the handlers make of packets are packets, whatever the timers do. *)
LEMMA MadeOfPackets ==
  ASSUME {rxPkt, collPkt} \subseteq Packets
  PROVE  /\ NoiseLeft \in Packets /\ Abandoned \in Packets
         /\ \A p \in Packets : Noise(p) \in Packets
BY PacketTypes DEF NoiseLeft, Abandoned, Noise

(* The entry of a state keeps the four, if a continued reception was clean and *)
(* had been signalled.                                                          *)
LEMMA EntryHeard ==
  ASSUME Heard, NEW s \in States, NEW tm \in TimerSets, NEW rx \in Packets, NEW tx \in Packets,
         EnterState(s, tm, rx, tx), Numbered(tx),
         s \in Receiving \ {"RXHDR"} =>
           state \in Receiving /\ tm.left["cca"] = timers.left["cca"],
         s \in Receiving \ {"RXCOLL"} => \A q \in others' : q <= rx.power - 3,
         collPkt' \in Packets, failed' \in BOOLEAN, refused' \subseteq Nat,
         air' \in Nat, others' \subseteq Powers, {arrivals', asked', switches'} \subseteq Nat
  PROVE  Heard'
<1>1. state' = s /\ rxPkt' = rx /\ txPkt' = TxPkt(s, tx)
  BY DEF EnterState
<1>2. /\ timers' \in TimerSets /\ pin' \in BOOLEAN
      /\ s \in Signalling /\ ~Runs(timers', "cca") => pin' = (s = "RXCCA")
      /\ s \notin Signalling => pin' = pin /\ timers'.left["cca"] = tm.left["cca"]
  BY Entered DEF Heard, TypeOK
<1>3. sent' \in Seq(Nat)
  <2>1. sent \in Seq(Nat)
    BY DEF Heard, TypeOK
  <2>2. CASE s \in {"TX", "TXNOISE"} /\ tx # NoPkt
    BY <2>1, <2>2 DEF EnterState, Numbered
  <2>3. CASE ~(s \in {"TX", "TXNOISE"} /\ tx # NoPkt)
    BY <2>1, <2>3 DEF EnterState
  <2> QED
    BY <2>2, <2>3
<1>4. txPkt' \in Packets /\ Numbered(txPkt')
  BY <1>1, PacketTypes DEF TxPkt, Numbered
<1>5. TypeOK'
  BY <1>1, <1>2, <1>3, <1>4 DEF TypeOK
<1>6. PinAgrees'
  <2>1. CASE s \in Signalling
    BY <1>1, <1>2, <2>1 DEF PinAgrees, Signalling, Receiving, Runs
  <2>2. CASE s \notin Signalling /\ s \in Receiving
    BY <1>1, <1>2, <2>2 DEF Heard, PinAgrees, Signalling, Receiving, Runs
  <2>3. CASE s \notin Signalling \cup Receiving
    BY <1>1, <2>3 DEF PinAgrees, Signalling, Receiving
  <2> QED
    BY <2>1, <2>2, <2>3
<1>7. DeliveredClean'
  BY <1>1 DEF DeliveredClean
<1>8. Numbered(txPkt)'
  BY <1>4 DEF Numbered
<1> QED
  BY <1>5, <1>6, <1>7, <1>8 DEF Heard

(* A handler that stays in its state keeps them if it leaves the signal's delay *)
(* alone, the reception alone, and adds no louder power.                         *)
LEMMA StayHeard ==
  ASSUME Heard, NEW tm \in TimerSets, NEW tx \in Packets,
         Stay(tm, rxPkt, tx), Numbered(tx),
         tm.left["cca"] = timers.left["cca"],
         state \in Receiving \ {"RXCOLL"} => \A q \in others' : q <= rxPkt.power - 3,
         collPkt' \in Packets, failed' \in BOOLEAN, refused' \subseteq Nat,
         air' \in Nat, others' \subseteq Powers, {arrivals', asked', switches'} \subseteq Nat
  PROVE  Heard'
<1>1. /\ UNCHANGED <<state, rxPkt, pin, sent>>
      /\ timers' = tm /\ txPkt' = tx
  BY DEF Stay
<1>2. TypeOK'
  BY <1>1 DEF Heard, TypeOK
<1>3. PinAgrees' /\ DeliveredClean' /\ Numbered(txPkt)'
  BY <1>1 DEF Heard, PinAgrees, DeliveredClean, Numbered, Runs
<1> QED
  BY <1>2, <1>3 DEF Heard

(* The timers a handler of a timer begins with. *)
LEMMA Expired ==
  ASSUME Heard, NEW t \in Timers
  PROVE  /\ Stop(timers, t) \in TimerSets
         /\ \A u \in Timers : Stop(timers, t).left[u] = IF u = t THEN Off ELSE timers.left[u]
         /\ "cca" \in Timers /\ {"state", "tx", "rx", "coll"} = Timers \ {"cca"}
BY StopLeft DEF Heard, TypeOK, Timers

(* A fatal handler changes nothing but the flag. *)
LEMMA FatalHeard ==
  ASSUME Heard, NEW tm \in TimerSets, Fatal(tm), tm.left["cca"] = timers.left["cca"],
         UNCHANGED <<collPkt, history>>
  PROVE  Heard'
<1>1. Stay(tm, rxPkt, txPkt) /\ Numbered(txPkt)
  BY DEF Fatal, Heard
<1>2. state \in Receiving \ {"RXCOLL"} => \A q \in others' : q <= rxPkt.power - 3
  BY DEF Heard, DeliveredClean, history
<1>3. txPkt \in Packets
  BY DEF Heard, TypeOK
<1>4. /\ collPkt' \in Packets /\ failed' \in BOOLEAN /\ refused' \subseteq Nat
      /\ air' \in Nat /\ others' \subseteq Powers /\ {arrivals', asked', switches'} \subseteq Nat
  BY DEF Fatal, Heard, TypeOK, history
<1> QED
  BY <1>1, <1>2, <1>3, <1>4, StayHeard

(* The state timer never ends a reception and never starts one. *)
LEMMA StateTimerHeard ==
  ASSUME Heard, StateTimerExpired
  PROVE  Heard'
<1> DEFINE tm == Stop(timers, "state")
<1>1. tm \in TimerSets /\ tm.left["cca"] = timers.left["cca"]
  BY Expired DEF Timers
<1>2. UNCHANGED <<collPkt, history>>
  BY DEF StateTimerExpired
<1>3. CASE Fatal(tm)
  <2> HIDE DEF tm
  <2> QED
    BY <1>1, <1>2, <1>3, FatalHeard
<1>4. ASSUME NEW s \in States, EnterState(s, tm, rxPkt, txPkt), failed' = failed,
             s \in Receiving => state \in Receiving \ {"RXCOLL"}
      PROVE  Heard'
  <2>1. /\ collPkt' \in Packets /\ failed' \in BOOLEAN /\ refused' \subseteq Nat
        /\ air' \in Nat /\ others' \subseteq Powers /\ {arrivals', asked', switches'} \subseteq Nat
        /\ rxPkt \in Packets /\ txPkt \in Packets /\ Numbered(txPkt) /\ others' = others
    BY <1>2, <1>4 DEF Heard, TypeOK, history
  <2>2. s \in Receiving \ {"RXCOLL"} => \A q \in others' : q <= rxPkt.power - 3
    BY <1>4, <2>1 DEF Heard, DeliveredClean
  <2> HIDE DEF tm
  <2> QED
    BY <1>1, <1>4, <2>1, <2>2, EntryHeard
<1>5. \/ Fatal(tm)
      \/ /\ failed' = failed
         /\ \E s \in States : /\ EnterState(s, tm, rxPkt, txPkt)
                              /\ s \in Receiving => state \in Receiving \ {"RXCOLL"}
  BY DEF StateTimerExpired, Survives, States, Receiving
<1> QED
  BY <1>3, <1>4, <1>5

(* The end of a transmission calibrates the receiver. *)
LEMMA TxTimerHeard ==
  ASSUME Heard, TxTimerExpired
  PROVE  Heard'
<1> DEFINE tm == Stop(timers, "tx")
<1>1. tm \in TimerSets /\ tm.left["cca"] = timers.left["cca"]
  BY Expired DEF Timers
<1>2. UNCHANGED <<collPkt, history>>
  BY DEF TxTimerExpired
<1>3. CASE Fatal(tm)
  <2> HIDE DEF tm
  <2> QED
    BY <1>1, <1>2, <1>3, FatalHeard
<1>4. ASSUME NEW s \in {"RXCAL", "RXCALNOISE"}, EnterState(s, tm, rxPkt, txPkt), failed' = failed
      PROVE  Heard'
  <2>1. /\ collPkt' \in Packets /\ failed' \in BOOLEAN /\ refused' \subseteq Nat
        /\ air' \in Nat /\ others' \subseteq Powers /\ {arrivals', asked', switches'} \subseteq Nat
        /\ rxPkt \in Packets /\ txPkt \in Packets /\ Numbered(txPkt)
    BY <1>2, <1>4 DEF Heard, TypeOK, history
  <2>2. s \in States /\ s \notin Receiving
    BY DEF States, Receiving
  <2> HIDE DEF tm
  <2> QED
    BY <1>1, <1>4, <2>1, <2>2, EntryHeard
<1>5. \/ Fatal(tm)
      \/ /\ failed' = failed
         /\ \E s \in {"RXCAL", "RXCALNOISE"} : EnterState(s, tm, rxPkt, txPkt)
  BY DEF TxTimerExpired, Survives
<1> QED
  BY <1>3, <1>4, <1>5

(* The end of the noise leaves a captured reception as it was. *)
LEMMA CollTimerHeard ==
  ASSUME Heard, CollTimerExpired
  PROVE  Heard'
<1> DEFINE tm == Stop(timers, "coll")
<1>1. tm \in TimerSets /\ tm.left["cca"] = timers.left["cca"]
  BY Expired DEF Timers
<1>2. UNCHANGED <<collPkt, history>>
  BY DEF CollTimerExpired
<1>3. CASE Fatal(tm)
  <2> HIDE DEF tm
  <2> QED
    BY <1>1, <1>2, <1>3, FatalHeard
<1>4. ASSUME NEW s \in States, EnterState(s, tm, rxPkt, txPkt), failed' = failed,
             s \in Receiving => state \in Receiving \ {"RXCOLL"}
      PROVE  Heard'
  <2>1. /\ collPkt' \in Packets /\ failed' \in BOOLEAN /\ refused' \subseteq Nat
        /\ air' \in Nat /\ others' \subseteq Powers /\ {arrivals', asked', switches'} \subseteq Nat
        /\ rxPkt \in Packets /\ txPkt \in Packets /\ Numbered(txPkt) /\ others' = others
    BY <1>2, <1>4 DEF Heard, TypeOK, history
  <2>2. s \in Receiving \ {"RXCOLL"} => \A q \in others' : q <= rxPkt.power - 3
    BY <1>4, <2>1 DEF Heard, DeliveredClean
  <2> HIDE DEF tm
  <2> QED
    BY <1>1, <1>4, <2>1, <2>2, EntryHeard
<1>5. CASE state = "RXCOLL" /\ Stay(tm, rxPkt, txPkt) /\ failed' = failed
  <2>1. /\ collPkt' \in Packets /\ failed' \in BOOLEAN /\ refused' \subseteq Nat
        /\ air' \in Nat /\ others' \subseteq Powers /\ {arrivals', asked', switches'} \subseteq Nat
        /\ txPkt \in Packets /\ Numbered(txPkt)
    BY <1>2, <1>5 DEF Heard, TypeOK, history
  <2> HIDE DEF tm
  <2> QED
    BY <1>1, <1>5, <2>1, StayHeard
<1>6. \/ Fatal(tm)
      \/ state = "RXCOLL" /\ Stay(tm, rxPkt, txPkt) /\ failed' = failed
      \/ /\ failed' = failed
         /\ \E s \in States : /\ EnterState(s, tm, rxPkt, txPkt)
                              /\ s \in Receiving => state \in Receiving \ {"RXCOLL"}
  BY DEF CollTimerExpired, Survives, States, Receiving
<1> QED
  BY <1>3, <1>4, <1>5, <1>6

(* The end of a delay signals what the state of that moment says. *)
LEMMA CcaTimerHeard ==
  ASSUME Heard, CcaTimerExpired
  PROVE  Heard'
<1> DEFINE tm == Stop(timers, "cca")
<1>1. tm \in TimerSets
  BY Expired DEF Timers
<1>2. /\ timers' = tm /\ UNCHANGED <<state, rxPkt, txPkt, sent, collPkt, history>>
      /\ failed' \in BOOLEAN
      /\ \/ pin' = pin /\ state \in {"TXCAL", "TXCALNOISE", "RX", "RXNOISE", "TX", "TXNOISE"}
         \/ pin' = (state \in {"RXCAL", "RXCCA"})
  BY DEF CcaTimerExpired, Fatal, Stay, Survives, Heard, TypeOK
<1>3. pin' \in BOOLEAN
  <2>1. pin \in BOOLEAN /\ (state \in {"RXCAL", "RXCCA"}) \in BOOLEAN
    BY DEF Heard, TypeOK
  <2> QED
    BY <1>2, <2>1
<1> HIDE DEF tm
<1>4. TypeOK'
  BY <1>1, <1>2, <1>3 DEF Heard, TypeOK, history
<1>5. PinAgrees'
  BY <1>2 DEF PinAgrees, Receiving
<1>6. DeliveredClean' /\ Numbered(txPkt)'
  BY <1>2 DEF Heard, DeliveredClean, Numbered, history
<1> QED
  BY <1>4, <1>5, <1>6 DEF Heard

(* Turning the radio around is a matter of stopping and scheduling timers. *)
LEMMA TurnedAroundType ==
  ASSUME NEW tm \in TimerSets, {rxPkt, collPkt} \subseteq Packets
  PROVE  TurnedAround(tm) \in TimerSets
<1>1. NoiseLeft.left \in Nat
  BY MadeOfPackets DEF Packets
<1>2. {"state", "rx", "coll"} \subseteq Timers
  BY DEF Timers
<1>3. Stop(tm, "state") \in TimerSets
  BY <1>2, StopLeft
<1>4. Stop(Stop(tm, "state"), "rx") \in TimerSets
  BY <1>2, <1>3, StopLeft
<1>5. Stop(Stop(Stop(tm, "state"), "rx"), "coll") \in TimerSets
  BY <1>2, <1>4, StopLeft
<1>6. Start(Stop(Stop(Stop(tm, "state"), "rx"), "coll"), "coll", NoiseLeft.left) \in TimerSets
  BY <1>1, <1>2, <1>5, StartType
<1> QED
  BY <1>3, <1>6 DEF TurnedAround

(* Tracking an arrival sets the noise timer and no other. *)
LEMMA TrackingType ==
  ASSUME NEW p \in Packets, timers \in TimerSets, {rxPkt, collPkt} \subseteq Packets
  PROVE  /\ Tracking(p) \in TimerSets
         /\ Tracking(p).left["coll"] =
              IF state \in {"RXCAL", "RX", "TXCAL", "TX"} THEN p.left ELSE Noise(p).left
         /\ \A u \in Timers \ {"coll"} : Tracking(p).left[u] = timers.left[u]
<1>0. "coll" \in Timers /\ p.left \in Nat /\ Noise(p).left \in Nat
  BY MadeOfPackets DEF Packets, Timers
<1>1. /\ Stop(timers, "coll") \in TimerSets
      /\ \A u \in Timers \ {"coll"} : Stop(timers, "coll").left[u] = timers.left[u]
  BY <1>0, StopLeft
<1>2. CASE state \in {"RXCAL", "RX", "TXCAL", "TX"}
  <2>1. Tracking(p) = Start(timers, "coll", p.left)
    BY <1>2 DEF Tracking
  <2> QED
    BY <1>0, <1>2, <2>1, StartType
<1>3. CASE state \notin {"RXCAL", "RX", "TXCAL", "TX"}
  <2>1. Tracking(p) = Start(Stop(timers, "coll"), "coll", Noise(p).left)
    BY <1>3 DEF Tracking
  <2> QED
    BY <1>0, <1>1, <1>3, <2>1, StartType
<1> QED
  BY <1>2, <1>3

(* A request leaves the reception or stays in it with its packet stored. *)
LEMMA TxRequestHeard ==
  ASSUME Heard, NEW len \in Lens, NEW cca \in BOOLEAN, TxRequest(len, cca)
  PROVE  Heard'
<1> DEFINE tx == Packet(len, 0, asked)
<1>1. /\ timers \in TimerSets /\ {rxPkt, collPkt} \subseteq Packets
      /\ asked \in Nat /\ refused \subseteq Nat
  BY DEF Heard, TypeOK
<1>2. /\ tx \in Packets /\ Numbered(tx)
  <2>1. tx \in Packets
    BY <1>1, PacketTypes
  <2>2. tx.id = asked
    BY DEF Packet
  <2> QED
    BY <1>1, <2>1, <2>2 DEF Numbered
<1>3. /\ NoiseLeft \in Packets /\ Abandoned \in Packets /\ TurnedAround(timers) \in TimerSets
  BY <1>1, MadeOfPackets, TurnedAroundType
<1>4. /\ collPkt' \in Packets /\ failed' \in BOOLEAN /\ refused' \subseteq Nat
      /\ air' \in Nat /\ others' \subseteq Powers /\ {arrivals', asked', switches'} \subseteq Nat
      /\ others' = others
  <2>1. /\ collPkt' \in {collPkt, NoiseLeft} /\ refused' \in {refused, refused \cup {asked}}
        /\ asked' = asked + 1 /\ UNCHANGED <<failed, air, others, arrivals, switches>>
    BY DEF TxRequest, Survives
  <2> QED
    BY <1>1, <1>3, <2>1 DEF Heard, TypeOK
<1> HIDE DEF tx
<1>5. ASSUME NEW s \in {"TXCAL", "TXCALNOISE"}, EnterState(s, TurnedAround(timers), Abandoned, tx)
      PROVE  Heard'
  <2>1. s \in States /\ s \notin Receiving
    BY DEF States, Receiving
  <2> QED
    BY <1>2, <1>3, <1>4, <1>5, <2>1, EntryHeard
<1>6. CASE Stay(timers, rxPkt, tx)
  <2>1. state \in Receiving \ {"RXCOLL"} => \A q \in others' : q <= rxPkt.power - 3
    BY <1>4 DEF Heard, DeliveredClean
  <2> QED
    BY <1>1, <1>2, <1>4, <1>6, <2>1, StayHeard
<1>7. \/ Stay(timers, rxPkt, tx)
      \/ \E s \in {"TXCAL", "TXCALNOISE"} : EnterState(s, TurnedAround(timers), Abandoned, tx)
  BY DEF TxRequest, tx
<1> QED
  BY <1>5, <1>6, <1>7

(* The end of a reception signals anew, also when the upper layer has sent from *)
(* inside its callback.                                                         *)
LEMMA RxTimerHeard ==
  ASSUME Heard, RxTimerExpired
  PROVE  Heard'
<1> DEFINE tm == Stop(timers, "rx")
<1>1. /\ tm \in TimerSets /\ tm.left["cca"] = timers.left["cca"]
      /\ {rxPkt, collPkt, txPkt} \subseteq Packets /\ Numbered(txPkt) /\ asked \in Nat
  BY Expired DEF Timers, Heard, TypeOK
<1>2. /\ NoiseLeft \in Packets /\ Abandoned \in Packets /\ TurnedAround(tm) \in TimerSets
  <2> HIDE DEF tm
  <2> QED
    BY <1>1, MadeOfPackets, TurnedAroundType
<1>3. CASE Fatal(tm) /\ UNCHANGED <<collPkt, refused, asked>>
  <2>1. UNCHANGED <<collPkt, history>>
    BY <1>3 DEF RxTimerExpired, history
  <2> HIDE DEF tm
  <2> QED
    BY <1>1, <1>3, <2>1, FatalHeard
<1>4. ASSUME NEW after \in TimerSets, NEW rx \in Packets, NEW tx \in Packets, Numbered(tx),
             Received(after, rx, tx), failed' = failed, collPkt' \in Packets,
             refused' \subseteq Nat, asked' \in Nat
      PROVE  Heard'
  <2>1. /\ collPkt' \in Packets /\ failed' \in BOOLEAN /\ refused' \subseteq Nat
        /\ air' \in Nat /\ others' \subseteq Powers /\ {arrivals', asked', switches'} \subseteq Nat
    BY <1>4 DEF RxTimerExpired, Heard, TypeOK
  <2>2. PICK s \in {"RXNOISECCA", "RXCCA"} : EnterState(s, after, rx, tx)
    BY <1>4 DEF Received
  <2>3. s \in States /\ s \notin Receiving
    BY DEF States, Receiving
  <2> QED
    BY <1>4, <2>1, <2>2, <2>3, EntryHeard
<1>5. CASE Received(tm, rxPkt, txPkt) /\ Survives /\ UNCHANGED <<collPkt, refused, asked>>
  <2>1. /\ failed' = failed /\ collPkt' \in Packets /\ refused' \subseteq Nat /\ asked' \in Nat
    BY <1>5 DEF Survives, Heard, TypeOK
  <2> HIDE DEF tm
  <2> QED
    BY <1>1, <1>4, <1>5, <2>1
<1>6. ASSUME NEW len \in Lens, NEW cca \in BOOLEAN, NEW tx, tx = Packet(len, 0, asked),
             asked' = asked + 1, failed' = failed,
             \/ /\ Received(EntryTimers("TXCALNOISE", TurnedAround(tm), tx), Abandoned, tx)
                /\ collPkt' = NoiseLeft /\ refused' = refused
             \/ /\ Received(tm, rxPkt, tx)
                /\ refused' = refused \cup {asked} /\ collPkt' = collPkt
      PROVE  Heard'
  <2>1. /\ tx \in Packets /\ Numbered(tx)
    <3>1. tx \in Packets
      BY <1>1, <1>6, PacketTypes
    <3>2. tx.id = asked
      BY <1>6 DEF Packet
    <3> QED
      BY <1>1, <3>1, <3>2 DEF Numbered
  <2>2. /\ collPkt' \in Packets /\ refused' \subseteq Nat /\ asked' \in Nat
    BY <1>1, <1>2, <1>6 DEF Heard, TypeOK
  <2>3. EntryTimers("TXCALNOISE", TurnedAround(tm), tx) \in TimerSets
    BY <1>2, <2>1, EntryTimersType
  <2> HIDE DEF tm
  <2> QED
    BY <1>1, <1>2, <1>4, <1>6, <2>1, <2>2, <2>3
<1>7. \/ Fatal(tm) /\ UNCHANGED <<collPkt, refused, asked>>
      \/ Received(tm, rxPkt, txPkt) /\ Survives /\ UNCHANGED <<collPkt, refused, asked>>
      \/ \E len \in Lens, cca \in BOOLEAN, tx \in {Packet(l, 0, asked) : l \in Lens} :
           /\ tx = Packet(len, 0, asked)
           /\ asked' = asked + 1 /\ failed' = failed
           /\ \/ /\ Received(EntryTimers("TXCALNOISE", TurnedAround(tm), tx), Abandoned, tx)
                 /\ collPkt' = NoiseLeft /\ refused' = refused
              \/ /\ Received(tm, rxPkt, tx)
                 /\ refused' = refused \cup {asked} /\ collPkt' = collPkt
  BY DEF RxTimerExpired, Survives
<1> HIDE DEF tm
<1> QED
  BY <1>3, <1>5, <1>6, <1>7

(* A packet that arrives during a reception is 3 dBm below it or collides with it. *)
LEMMA ArriveHeard ==
  ASSUME Heard, NEW len \in Lens, NEW power \in Powers, NEW noise \in BOOLEAN,
         Arrive(len, power, noise)
  PROVE  Heard'
<1> DEFINE p == Packet(len, power, OnAir(arrivals))
<1>1. /\ timers \in TimerSets /\ {rxPkt, collPkt, txPkt} \subseteq Packets
      /\ Numbered(txPkt) /\ state \in States
  BY DEF Heard, TypeOK
<1>2. p \in Packets /\ p.power = power /\ p.left \in Nat
  <2>1. len \in Nat /\ power \in Int /\ arrivals \in Nat
    BY FSMAssumption DEF Heard, Measured, TypeOK
  <2> QED
    BY <2>1 DEF Packet, Packets, OnAir
<1>3. /\ failed' \in BOOLEAN /\ refused' \subseteq Nat
      /\ air' \in Nat /\ others' \subseteq Powers /\ {arrivals', asked', switches'} \subseteq Nat
      /\ others' = IF state = "RXCCA" THEN {} ELSE others \cup {power}
  <2>1. /\ others' = IF state = "RXCCA" THEN {} ELSE others \cup {power}
        /\ arrivals' = arrivals + 1 /\ air' \in {len, air}
        /\ UNCHANGED <<failed, refused, asked, switches>>
    BY DEF Arrive, Survives
  <2>2. len \in Nat
    BY FSMAssumption
  <2> QED
    BY <2>1, <2>2 DEF Heard, TypeOK
<1>4. RxFromMedium(p, noise)
  BY DEF Arrive
<1> HIDE DEF p
<1>5. /\ Tracking(p) \in TimerSets /\ Tracking(p).left["cca"] = timers.left["cca"]
      /\ Noise(p) \in Packets /\ NoPkt \in Packets
  BY <1>1, <1>2, TrackingType, MadeOfPackets, PacketTypes DEF Timers
<1>6. CASE EnterState("RXHDR", Start(timers, "rx", p.left), p, txPkt) /\ state = "RXCCA"
           /\ collPkt' = collPkt
  <2>1. Start(timers, "rx", p.left) \in TimerSets
    BY <1>1, <1>2, StartType DEF Timers
  <2> QED
    BY <1>1, <1>2, <1>3, <1>6, <2>1, EntryHeard DEF States
<1>7. ASSUME NEW s \in States \ Receiving, NEW tm \in TimerSets, NEW rx \in Packets,
             EnterState(s, tm, rx, txPkt), collPkt' \in Packets
      PROVE  Heard'
  BY <1>1, <1>3, <1>7, EntryHeard
<1>8. CASE \/ state = "RXCCA" /\ EnterState("RXNOISECCA", Tracking(p), rxPkt, txPkt) /\ collPkt' = p
           \/ /\ collPkt' = p
              /\ \E s \in {"RXCALNOISE", "RXNOISE", "TXCALNOISE", "TXNOISE"} :
                   EnterState(s, Tracking(p), rxPkt, txPkt)
  BY <1>1, <1>2, <1>5, <1>7, <1>8 DEF States, Receiving
<1>9. CASE collPkt' = Noise(p) /\ EnterState("RXNOISECCA", Stop(Tracking(p), "rx"), NoPkt, txPkt)
  <2>1. Stop(Tracking(p), "rx") \in TimerSets
    BY <1>5, StopLeft DEF Timers
  <2> QED
    BY <1>5, <1>7, <1>9, <2>1 DEF States, Receiving
<1>10. CASE /\ state \in {"RXDATA", "RXDATACAP"} /\ collPkt' = Noise(p)
            /\ EnterState("RXCOLL", Tracking(p), rxPkt, txPkt)
  <2>1. "RXCOLL" \in States /\ state \in Receiving
    BY <1>10 DEF States, Receiving
  <2> QED
    BY <1>1, <1>3, <1>5, <1>10, <2>1, EntryHeard
<1>11. ASSUME state \in Receiving \ {"RXCOLL"}, ~IsCollision(rxPkt, p)
       PROVE  \A q \in others' : q <= rxPkt.power - 3
  <2>1. \A q \in others : q <= rxPkt.power - 3
    BY <1>11 DEF Heard, DeliveredClean
  <2>2. power <= rxPkt.power - 3
    BY <1>1, <1>2, <1>11, FSMAssumption DEF IsCollision, Packets
  <2> QED
    BY <1>3, <2>1, <2>2
<1>12. ASSUME NEW s \in {"RXHDRCAP", "RXDATACAP"}, state \in {"RXHDR", "RXDATA"},
              ~IsCollision(rxPkt, p), collPkt' = p, EnterState(s, Tracking(p), rxPkt, txPkt)
       PROVE  Heard'
  <2>1. s \in States /\ state \in Receiving \ {"RXCOLL"}
    BY <1>12 DEF States, Receiving
  <2>2. \A q \in others' : q <= rxPkt.power - 3
    BY <1>11, <1>12, <2>1
  <2> QED
    BY <1>1, <1>2, <1>3, <1>5, <1>12, <2>1, <2>2, EntryHeard
<1>13. CASE /\ state \in Receiving \ {"RXCOLL"} => ~IsCollision(rxPkt, p)
            /\ collPkt' = Noise(p) /\ Stay(Tracking(p), rxPkt, txPkt)
  <2>1. state \in Receiving \ {"RXCOLL"} => \A q \in others' : q <= rxPkt.power - 3
    BY <1>11, <1>13
  <2> QED
    BY <1>1, <1>3, <1>5, <1>13, <2>1, StayHeard
<1> QED
  BY <1>4, <1>6, <1>8, <1>9, <1>10, <1>12, <1>13 DEF RxFromMedium, Receiving

(* A switch of the channel ends every reception and every delay. *)
LEMMA SwitchHeard ==
  ASSUME Heard, SwitchChannel
  PROVE  Heard'
<1> DEFINE e == Stop(Stop(Stop(Stop(Stop(timers, "tx"), "cca"), "state"), "coll"), "rx")
<1>1. e \in TimerSets
  <2>1. \A tm \in TimerSets, t \in {"tx", "cca", "state", "coll", "rx"} : Stop(tm, t) \in TimerSets
    BY StopLeft DEF Timers
  <2> QED
    BY <2>1 DEF Heard, TypeOK
<1>2. /\ EnterState("RXCAL", e, NoPkt, NoPkt)
      /\ collPkt' \in Packets /\ failed' \in BOOLEAN /\ refused' \subseteq Nat
      /\ air' \in Nat /\ others' \subseteq Powers /\ {arrivals', asked', switches'} \subseteq Nat
  BY PacketTypes DEF SwitchChannel, Survives, Heard, TypeOK
<1>3. "RXCAL" \in States /\ "RXCAL" \notin Receiving /\ NoPkt \in Packets /\ Numbered(NoPkt)
  BY PacketTypes DEF States, Receiving, Numbered
<1> HIDE DEF e
<1> QED
  BY <1>1, <1>2, <1>3, EntryHeard

(* Time takes nothing from a packet but what is left of it. *)
LEMMA ElapseHeard ==
  ASSUME Heard, Elapse
  PROVE  Heard'
<1>1. timers.left \in [Timers -> Nat \cup {Off}] /\ "cca" \in Timers
  BY DEF Heard, TypeOK, TimerSets, Timers
<1>2. \A t \in Timers : timers.left[t] # 0
  BY DEF Elapse, Due
<1>3. \A t \in Timers : Less(timers.left[t]) \in Nat \cup {Off}
                        /\ (timers.left[t] # Off => Less(timers.left[t]) # Off)
  BY <1>1, <1>2 DEF Less, Off
<1>4. /\ timers' \in TimerSets
      /\ timers'.left["cca"] = Less(timers.left["cca"])
  BY <1>1, <1>3 DEF Elapse, Heard, TypeOK, TimerSets
<1>5. /\ rxPkt' \in Packets /\ collPkt' \in Packets /\ rxPkt'.power = rxPkt.power /\ air' \in Nat
  <2>1. \A n \in Nat : Less(n) \in Nat
    BY DEF Less
  <2>2. /\ rxPkt' = [rxPkt EXCEPT !.left = Less(@)] /\ collPkt' = [collPkt EXCEPT !.left = Less(@)]
        /\ air' = Less(air)
    BY DEF Elapse
  <2> QED
    BY <2>1, <2>2 DEF Heard, TypeOK, Packets
<1>6. UNCHANGED <<state, txPkt, pin, failed, sent, refused, others, arrivals, asked, switches>>
  BY DEF Elapse
<1>7. TypeOK'
  BY <1>4, <1>5, <1>6 DEF Heard, TypeOK
<1>8. PinAgrees'
  BY <1>1, <1>3, <1>4, <1>6 DEF Heard, PinAgrees, Runs
<1>9. DeliveredClean' /\ Numbered(txPkt)'
  BY <1>5, <1>6 DEF Heard, DeliveredClean, Numbered
<1> QED
  BY <1>7, <1>8, <1>9 DEF Heard

(* The constructor enters RXCAL: nothing has been heard or signalled. *)
LEMMA InitHeard ==
  ASSUME Init
  PROVE  Heard
<1> DEFINE none == [left |-> [t \in Timers |-> Off], before |-> {}, twice |-> FALSE]
<1>1. none \in TimerSets /\ "state" \in Timers /\ Twelve \in Nat
  BY FSMAssumption DEF TimerSets, Timers
<1>2. timers = Start(none, "state", Twelve)
  BY DEF Init
<1> HIDE DEF none
<1>3. timers \in TimerSets
  BY <1>1, <1>2, StartType
<1>4. TypeOK
  <2>1. state \in States /\ {rxPkt, collPkt, txPkt} \subseteq Packets /\ {pin, failed} \subseteq BOOLEAN
    BY PacketTypes DEF Init, States
  <2>2. sent \in Seq(Nat) /\ refused \subseteq Nat /\ air \in Nat /\ others \subseteq Powers
          /\ {arrivals, asked, switches} \subseteq Nat
    BY DEF Init
  <2> QED
    BY <1>3, <2>1, <2>2 DEF TypeOK
<1>5. Numbered(txPkt) /\ PinAgrees /\ DeliveredClean
  BY DEF Init, Numbered, PinAgrees, DeliveredClean, Receiving
<1> QED
  BY <1>4, <1>5 DEF Heard

(* Every step keeps what is heard. *)
LEMMA NextHeard ==
  ASSUME Heard, [Next]_vars
  PROVE  Heard'
<1>1. CASE UNCHANGED vars
  BY <1>1 DEF vars, Heard, TypeOK, Numbered, PinAgrees, DeliveredClean, Runs
<1>2. CASE TimerExpires
  BY <1>2, StateTimerHeard, TxTimerHeard, RxTimerHeard, CollTimerHeard, CcaTimerHeard
    DEF TimerExpires
<1>3. CASE Elapse
  BY <1>3, ElapseHeard
<1>4. CASE \E len \in Lens, cca \in BOOLEAN : TxRequest(len, cca)
  BY <1>4, TxRequestHeard
<1>5. CASE \E len \in Lens, power \in Powers, noise \in BOOLEAN : Arrive(len, power, noise)
  BY <1>5, ArriveHeard
<1>6. CASE SwitchChannel
  BY <1>6, SwitchHeard
<1> QED
  BY <1>1, <1>2, <1>3, <1>4, <1>5, <1>6 DEF Next

(* The variables of the machine keep their types, whatever the upper layer does. *)
THEOREM TypeCorrect == Spec => []TypeOK
<1>1. Heard => TypeOK
  BY DEF Heard
<1> QED
  BY InitHeard, NextHeard, <1>1, PTL DEF Spec

(* Once its delay is over, the signal the upper layer has is the state's, even  *)
(* if it sends from inside its callback and whatever the delays are.             *)
THEOREM SignalIsCurrent == Spec => []PinAgrees
<1>1. Heard => PinAgrees
  BY DEF Heard
<1> QED
  BY InitHeard, NextHeard, <1>1, PTL DEF Spec

(* A packet still received as a whole was 3 dBm louder than all that arrived    *)
(* meanwhile, for every number of arrivals and every power.                      *)
THEOREM ReceptionIsClean == Spec => []DeliveredClean
<1>1. Heard => DeliveredClean
  BY DEF Heard
<1> QED
  BY InitHeard, NextHeard, <1>1, PTL DEF Spec

-----------------------------------------------------------------------------
(* Entering a state leaves what measures the medium alone. *)
LEMMA EntryMeasures ==
  ASSUME Measured, NEW s, NEW tm \in TimerSets, NEW rx, NEW tx \in Packets,
         EnterState(s, tm, rx, tx), Measures(s, tm, rx, collPkt', air')
  PROVE  Measures(state, timers, rxPkt, collPkt, air)'
<1>1. state' = s /\ rxPkt' = rx
  BY DEF EnterState
<1>2. timers'.left["rx"] = tm.left["rx"] /\ timers'.left["coll"] = tm.left["coll"]
  BY Entered DEF Measured, Heard, TypeOK
<1> QED
  BY <1>1, <1>2 DEF Measures, Runs

(* The state timer moves the machine between states that measure alike. *)
LEMMA StateTimerMeasures ==
  ASSUME Measured, StateTimerExpired
  PROVE  Measures(state, timers, rxPkt, collPkt, air)'
<1> DEFINE tm == Stop(timers, "state")
<1>1. "state" \in Timers /\ {"rx", "coll"} \subseteq Timers \ {"state"} /\ Expires("state")
  BY DEF Timers, StateTimerExpired
<1>2. state \in TimedStates
  BY <1>1, Expiry DEF Measured, Inv, Sound, Matches
<1>3. tm \in TimerSets /\ tm.left["rx"] = timers.left["rx"] /\ tm.left["coll"] = timers.left["coll"]
  BY <1>1, Expiry DEF Measured
<1>4. txPkt \in Packets
  BY DEF Measured, Inv
<1>5. UNCHANGED <<collPkt, air>>
  BY DEF StateTimerExpired, history
<1>6. ASSUME NEW s, EnterState(s, tm, rxPkt, txPkt), <<state, s>> \in
               {<<"RXCAL", "RX">>, <<"RXCALNOISE", "RXNOISE">>, <<"RX", "RXCCA">>,
                <<"RXNOISE", "RXNOISECCA">>, <<"RXHDR", "RXDATA">>, <<"RXHDRCAP", "RXDATACAP">>,
                <<"TXCAL", "TX">>, <<"TXCALNOISE", "TXNOISE">>}
      PROVE  Measures(state, timers, rxPkt, collPkt, air)'
  <2> HIDE DEF tm
  <2>1. Measures(s, tm, rxPkt, collPkt', air')
    BY <1>3, <1>5, <1>6 DEF Measured, Measures, IdleAir, NoiseOnly, Receiving
  <2> QED
    BY <1>3, <1>4, <1>6, <2>1, EntryMeasures
<1>7. state \notin {"RXCCA", "RXDATA", "RXDATACAP", "RXCOLL", "RXNOISECCA", "TX", "TXNOISE"}
  BY <1>2 DEF TimedStates
<1>8. EnterState(CASE state = "RXCAL"      -> "RX"
                  [] state = "RXCALNOISE" -> "RXNOISE"
                  [] state = "RX"         -> "RXCCA"
                  [] state = "RXNOISE"    -> "RXNOISECCA"
                  [] state = "RXHDR"      -> "RXDATA"
                  [] state = "RXHDRCAP"   -> "RXDATACAP"
                  [] state = "TXCAL"      -> "TX"
                  [] state = "TXCALNOISE" -> "TXNOISE", tm, rxPkt, txPkt)
  BY <1>7 DEF StateTimerExpired
<1> HIDE DEF tm
<1> QED
  BY <1>2, <1>6, <1>8 DEF TimedStates

(* A transmission measures nothing but the noise. *)
LEMMA TxTimerMeasures ==
  ASSUME Measured, TxTimerExpired
  PROVE  Measures(state, timers, rxPkt, collPkt, air)'
<1> DEFINE tm == Stop(timers, "tx")
           s  == IF state = "TX" THEN "RXCAL" ELSE "RXCALNOISE"
<1>1. "tx" \in Timers /\ "coll" \in Timers \ {"tx"} /\ Expires("tx")
  BY DEF Timers, TxTimerExpired
<1>2. state \in {"TX", "TXNOISE"}
  BY <1>1, Expiry DEF Measured, Inv, Sound, Matches
<1>3. tm \in TimerSets /\ tm.left["coll"] = timers.left["coll"]
  BY <1>1, Expiry DEF Measured
<1>4. txPkt \in Packets
  BY DEF Measured, Inv
<1>5. UNCHANGED <<collPkt, air>> /\ EnterState(s, tm, rxPkt, txPkt)
  BY <1>2 DEF TxTimerExpired, history
<1> HIDE DEF tm
<1>6. Measures(s, tm, rxPkt, collPkt', air')
  BY <1>2, <1>3, <1>5 DEF Measured, Measures, IdleAir, NoiseOnly, Receiving
<1> HIDE DEF s
<1> QED
  BY <1>3, <1>4, <1>5, <1>6, EntryMeasures

(* When the noise ends, what is left of the medium is the reception. *)
LEMMA CollTimerMeasures ==
  ASSUME Measured, CollTimerExpired
  PROVE  Measures(state, timers, rxPkt, collPkt, air)'
<1> DEFINE tm == Stop(timers, "coll")
<1>1. "coll" \in Timers /\ "rx" \in Timers \ {"coll"} /\ Expires("coll")
  BY DEF Timers, CollTimerExpired
<1>2. state \in NoisyStates \cup {"RXCOLL"} /\ timers.left["coll"] = 0 /\ Runs(timers, "coll")
  BY <1>1, Expiry DEF Measured, Inv, Sound, Matches
<1>3. tm \in TimerSets /\ tm.left["rx"] = timers.left["rx"] /\ tm.left["coll"] = Off
  BY <1>1, Expiry DEF Measured
<1>4. rxPkt.left \in Nat /\ txPkt \in Packets
  BY DEF Measured, Inv, Packets
<1>5. UNCHANGED <<collPkt, air>>
  BY DEF CollTimerExpired, history
<1>6. ASSUME NEW s, EnterState(s, tm, rxPkt, txPkt), <<state, s>> \in
               {<<"RXCALNOISE", "RXCAL">>, <<"RXNOISE", "RX">>, <<"RXHDRCAP", "RXHDR">>,
                <<"RXNOISECCA", "RXCCA">>, <<"RXDATACAP", "RXDATA">>, <<"TXNOISE", "TX">>,
                <<"TXCALNOISE", "TXCAL">>}
      PROVE  Measures(state, timers, rxPkt, collPkt, air)'
  <2> HIDE DEF tm
  <2>1. Measures(s, tm, rxPkt, collPkt', air')
    BY <1>2, <1>3, <1>4, <1>5, <1>6 DEF Measured, Measures, IdleAir, NoiseOnly, Receiving
  <2> QED
    BY <1>3, <1>4, <1>6, <2>1, EntryMeasures
<1>7. CASE state = "RXCOLL"
  <2>1. UNCHANGED <<state, rxPkt>> /\ timers' = tm
    BY <1>7 DEF CollTimerExpired, Stay
  <2> HIDE DEF tm
  <2> QED
    BY <1>2, <1>3, <1>5, <1>7, <2>1 DEF Measured, Measures, Runs, IdleAir, NoiseOnly, Receiving
<1>8. CASE state # "RXCOLL"
  <2>1. state \notin {"RXCAL", "RX", "RXCCA", "RXHDR", "RXDATA", "TXCAL", "TX"}
    BY <1>2, <1>8 DEF NoisyStates
  <2>2. EnterState(CASE state = "RXCALNOISE" -> "RXCAL"
                    [] state = "RXNOISE"    -> "RX"
                    [] state = "RXHDRCAP"   -> "RXHDR"
                    [] state = "RXNOISECCA" -> "RXCCA"
                    [] state = "RXDATACAP"  -> "RXDATA"
                    [] state = "TXNOISE"    -> "TX"
                    [] state = "TXCALNOISE" -> "TXCAL", tm, rxPkt, txPkt)
    BY <1>8, <2>1 DEF CollTimerExpired
  <2> HIDE DEF tm
  <2> QED
    BY <1>2, <1>6, <1>8, <2>2 DEF NoisyStates
<1> QED
  BY <1>7, <1>8

(* When the reception ends, what is left of the medium is the noise. *)
LEMMA RxTimerMeasures ==
  ASSUME Measured, RxTimerExpired, ~Eager
  PROVE  Measures(state, timers, rxPkt, collPkt, air)'
<1> DEFINE tm == Stop(timers, "rx")
           s  == IF state # "RXDATA" /\ Runs(tm, "coll") THEN "RXNOISECCA" ELSE "RXCCA"
<1>1. "rx" \in Timers /\ {"state", "coll"} \subseteq Timers \ {"rx"} /\ Expires("rx")
  BY DEF Timers, RxTimerExpired
<1>2. timers.left["rx"] = 0 /\ state \in {"RXDATA", "RXDATACAP", "RXCOLL"}
  <2>1. timers.left["rx"] = 0 /\ state \in Receiving
    BY <1>1, Expiry DEF Measured, Inv, Sound, Matches
  <2>2. timers.left["state"] \in Nat \cup {Off}
    BY <1>1, Left DEF Measured
  <2>3. state \notin {"RXHDR", "RXHDRCAP"}
    BY <2>1, <2>2 DEF Measured, Inv, Sound, Matches, InTime, TimedStates, Runs, Off
  <2> QED
    BY <2>1, <2>3 DEF Receiving
<1>3. tm \in TimerSets /\ tm.left["coll"] = timers.left["coll"]
  BY <1>1, Expiry DEF Measured
<1>4. rxPkt.left \in Nat /\ collPkt.left \in Nat /\ txPkt \in Packets
  BY DEF Measured, Inv, Packets
<1>5. UNCHANGED <<collPkt, air>> /\ EnterState(s, tm, rxPkt, txPkt)
  BY <1>2 DEF RxTimerExpired, Received
<1>6. state = "RXDATACAP" => Runs(tm, "coll")
  BY <1>3 DEF Measured, Inv, Sound, Matches, NoisyStates, Runs
<1>7. state = "RXDATACAP" \/ state = "RXCOLL" \/ state = "RXDATA"
  BY <1>2
<1>8. Measures(s, tm, rxPkt, collPkt', air')
  <2> HIDE DEF tm
  <2>1. timers.left["coll"] = tm.left["coll"] /\ (Runs(timers, "coll") <=> Runs(tm, "coll"))
    BY <1>3 DEF Runs
  <2>2. Measures(state, timers, rxPkt, collPkt, air)
    BY DEF Measured
  <2>3. CASE state = "RXDATA"
    BY <1>2, <1>5, <2>2, <2>3 DEF Measures, IdleAir, NoiseOnly, Receiving
  <2>4. CASE state = "RXDATACAP"
    BY <1>2, <1>4, <1>5, <1>6, <2>1, <2>2, <2>4 DEF Measures, IdleAir, NoiseOnly, Receiving
  <2>5. CASE state = "RXCOLL"
    BY <1>2, <1>5, <2>1, <2>2, <2>5 DEF Measures, IdleAir, NoiseOnly, Receiving
  <2> QED
    BY <1>7, <2>3, <2>4, <2>5
<1> HIDE DEF tm, s
<1> QED
  BY <1>3, <1>4, <1>5, <1>8, EntryMeasures

(* A signal measures nothing. *)
LEMMA CcaTimerMeasures ==
  ASSUME Measured, CcaTimerExpired
  PROVE  Measures(state, timers, rxPkt, collPkt, air)'
<1>1. /\ timers' = Stop(timers, "cca")
      /\ UNCHANGED <<state, rxPkt, collPkt, air>>
  BY DEF CcaTimerExpired, Fatal, Stay, history
<1>2. /\ timers'.left["rx"] = timers.left["rx"] /\ timers'.left["coll"] = timers.left["coll"]
  BY <1>1, StopLeft, Left DEF Measured, Timers
<1> QED
  BY <1>1, <1>2 DEF Measured, Measures, Runs

(* A granted request makes the longest of what is heard the noise. *)
LEMMA TxRequestMeasures ==
  ASSUME Measured, NEW len \in Lens, NEW cca \in BOOLEAN, TxRequest(len, cca)
  PROVE  Measures(state, timers, rxPkt, collPkt, air)'
<1> DEFINE tx == Packet(len, 0, asked)
           tm == TurnedAround(timers)
           s  == IF state \in {"RXCAL", "RX", "RXCCA"} THEN "TXCAL" ELSE "TXCALNOISE"
<1>1. /\ timers \in TimerSets /\ {rxPkt, collPkt} \subseteq Packets /\ state \in States
      /\ asked \in Nat
  BY DEF Measured, Heard, TypeOK
<1>2. tx \in Packets /\ tm \in TimerSets
  BY <1>1, PacketTypes, TurnedAroundType
<1>3. air' = air
  BY DEF TxRequest
<1>4. CASE ~Grants(cca)
  <2>1. UNCHANGED <<state, timers, rxPkt, collPkt>>
    BY <1>4 DEF TxRequest, Stay
  <2> QED
    BY <1>3, <2>1 DEF Measured, Measures, Runs
<1>5. CASE Grants(cca)
  <2>1. EnterState(s, tm, Abandoned, tx) /\ collPkt' = NoiseLeft
    BY <1>5 DEF TxRequest
  <2>2. state \notin Transmitting
    BY <1>5 DEF Grants
  <2>3. state \notin Receiving => tm.left["coll"] = timers.left["coll"]
    <3>1. state \notin Receiving => tm = Stop(timers, "state")
      BY DEF TurnedAround
    <3> QED
      BY <1>1, <3>1, StopLeft DEF Timers
  <2>4. state \in Receiving => tm.left["coll"] = NoiseLeft.left
    <3> DEFINE mute == Stop(Stop(Stop(timers, "state"), "rx"), "coll")
    <3>1. mute \in TimerSets
      <4>1. \A ts \in TimerSets, t \in {"state", "rx", "coll"} : Stop(ts, t) \in TimerSets
        BY StopLeft DEF Timers
      <4> QED
        BY <1>1, <4>1
    <3>2. state \in Receiving => tm = Start(mute, "coll", NoiseLeft.left)
      BY DEF TurnedAround
    <3>3. NoiseLeft.left \in Nat /\ "coll" \in Timers
      BY <1>1, MadeOfPackets DEF Packets, Timers
    <3> HIDE DEF mute
    <3>4. Start(mute, "coll", NoiseLeft.left).left["coll"] = NoiseLeft.left
      BY <3>1, <3>3, StartType
    <3> QED
      BY <3>2, <3>4
  <2>5. Measures(s, tm, Abandoned, collPkt', air')
    <3> HIDE DEF tm
    <3>1. Measures(state, timers, rxPkt, collPkt, air) /\ rxPkt.left \in Nat /\ collPkt.left \in Nat
      BY <1>1 DEF Measured, Packets
    <3>2. CASE state \in {"RXCAL", "RX", "RXCCA"}
      BY <1>3, <3>1, <3>2 DEF Measures, IdleAir, NoiseOnly, Receiving
    <3>3. CASE state \in {"RXHDR", "RXDATA"}
      BY <1>3, <2>1, <2>4, <3>1, <3>3 DEF Measures, IdleAir, NoiseOnly, Receiving, NoiseLeft
    <3>4. CASE state \in {"RXHDRCAP", "RXDATACAP", "RXCOLL"}
      BY <1>3, <2>1, <2>4, <3>1, <3>4
        DEF Measures, IdleAir, NoiseOnly, Receiving, NoiseLeft, Longer
    <3>5. CASE state \in {"RXCALNOISE", "RXNOISE", "RXNOISECCA"}
      BY <1>3, <2>1, <2>3, <3>1, <3>5 DEF Measures, IdleAir, NoiseOnly, Receiving, NoiseLeft
    <3> QED
      BY <1>1, <2>2, <3>2, <3>3, <3>4, <3>5 DEF States, Transmitting
  <2> HIDE DEF tm, s, tx
  <2> QED
    BY <1>2, <2>1, <2>5, EntryMeasures
<1> QED
  BY <1>4, <1>5

(* The noise an arrival leaves lasts as long as the longest of what is heard. *)
LEMMA ArriveMeasures ==
  ASSUME Measured, NEW len \in Lens, NEW power \in Powers, NEW noise \in BOOLEAN,
         Arrive(len, power, noise)
  PROVE  Measures(state, timers, rxPkt, collPkt, air)'
<1> DEFINE p == Packet(len, power, OnAir(arrivals))
<1>1. /\ timers \in TimerSets /\ {rxPkt, collPkt, txPkt} \subseteq Packets /\ state \in States
      /\ air \in Nat
  BY DEF Measured, Heard, TypeOK
<1>2. p \in Packets /\ p.left = len /\ len \in Nat
  <2>1. len \in Nat /\ power \in Int /\ arrivals \in Nat
    BY FSMAssumption DEF Heard, Measured, TypeOK
  <2> QED
    BY <2>1 DEF Packet, Packets, OnAir
<1>3. RxFromMedium(p, noise) /\ air' = IF p.left > air THEN p.left ELSE air
  BY DEF Arrive, Packet
<1> HIDE DEF p
<1>4. /\ Tracking(p) \in TimerSets
      /\ Tracking(p).left["coll"] =
           IF state \in {"RXCAL", "RX", "TXCAL", "TX"} THEN p.left ELSE Noise(p).left
      /\ Tracking(p).left["rx"] = timers.left["rx"]
  BY <1>1, <1>2, TrackingType DEF Timers
<1>5. /\ rxPkt.left \in Nat /\ collPkt.left \in Nat /\ p.left \in Nat
      /\ Measures(state, timers, rxPkt, collPkt, air)
  BY <1>1, <1>2 DEF Packets, Measured
<1>6. \A q, r \in Packets : Longer(q, r).left = IF q.left > r.left THEN q.left ELSE r.left
  BY DEF Longer
<1>0. ASSUME state \in {"RXHDR", "RXDATA", "RXHDRCAP", "RXDATACAP"}, IsCollision(rxPkt, p)
      PROVE  Noise(p).left = air' /\ air' \in Nat
  <2> DEFINE heard == Longer(rxPkt, p)
  <2>1. heard \in Packets /\ heard.left = IF rxPkt.left > p.left THEN rxPkt.left ELSE p.left
    BY <1>1, <1>2, <1>6, PacketTypes
  <2>2. CASE state \in {"RXHDR", "RXDATA"}
    <3>1. Noise(p) = heard
      BY <1>0, <2>2 DEF Noise, Receiving
    <3> HIDE DEF heard
    <3> QED
      BY <1>3, <1>5, <2>1, <2>2, <3>1 DEF Measures
  <2>3. CASE state \in {"RXHDRCAP", "RXDATACAP"}
    <3>1. Noise(p) = Longer(collPkt, heard)
      BY <1>0, <2>3 DEF Noise, Receiving
    <3> HIDE DEF heard
    <3>2. Noise(p).left = IF collPkt.left > heard.left THEN collPkt.left ELSE heard.left
      BY <1>1, <1>6, <2>1, <3>1
    <3> QED
      BY <1>3, <1>5, <2>1, <2>3, <3>2 DEF Measures
  <2> QED
    BY <1>0, <2>2, <2>3
<1>7. CASE /\ state = "RXCCA" /\ EnterState("RXHDR", Start(timers, "rx", p.left), p, txPkt)
  <2> DEFINE tm == Start(timers, "rx", p.left)
  <2>1. tm \in TimerSets /\ tm.left["rx"] = p.left
    BY <1>1, <1>5, StartType DEF Timers
  <2> HIDE DEF tm
  <2>2. Measures("RXHDR", tm, p, collPkt', air')
    BY <1>3, <1>5, <1>7, <2>1 DEF Measures, IdleAir, NoiseOnly, Receiving
  <2> QED
    BY <1>1, <1>7, <2>1, <2>2, EntryMeasures DEF tm
<1>8. CASE /\ state = "RXCCA" /\ collPkt' = p
           /\ EnterState("RXNOISECCA", Tracking(p), rxPkt, txPkt)
  <2>1. Noise(p) = p
    BY <1>8 DEF Noise, Receiving
  <2>2. Measures("RXNOISECCA", Tracking(p), rxPkt, collPkt', air')
    BY <1>3, <1>4, <1>5, <1>8, <2>1 DEF Measures, IdleAir, NoiseOnly, Receiving
  <2> QED
    BY <1>1, <1>4, <1>8, <2>2, EntryMeasures
<1>9. ASSUME NEW s \in {"RXCALNOISE", "RXNOISE", "TXCALNOISE", "TXNOISE"}, collPkt' = p,
             state \in {"RXCAL", "RX", "TXCAL", "TX"}, EnterState(s, Tracking(p), rxPkt, txPkt)
      PROVE  Measures(state, timers, rxPkt, collPkt, air)'
  <2>1. Measures(s, Tracking(p), rxPkt, collPkt', air')
    BY <1>3, <1>4, <1>5, <1>9 DEF Measures, IdleAir, NoiseOnly, Receiving
  <2> QED
    BY <1>1, <1>4, <1>9, <2>1, EntryMeasures
<1>10. CASE /\ state \in {"RXHDR", "RXHDRCAP"} /\ IsCollision(rxPkt, p) /\ collPkt' = Noise(p)
            /\ EnterState("RXNOISECCA", Stop(Tracking(p), "rx"), NoPkt, txPkt)
  <2> DEFINE tm == Stop(Tracking(p), "rx")
  <2>1. tm \in TimerSets /\ tm.left["coll"] = Noise(p).left
    BY <1>4, <1>10, StopLeft DEF Timers
  <2>2. Noise(p).left = air'
    BY <1>0, <1>10
  <2> HIDE DEF tm
  <2>3. Measures("RXNOISECCA", tm, NoPkt, collPkt', air')
    BY <1>10, <2>1, <2>2 DEF Measures, IdleAir, NoiseOnly, Receiving
  <2> QED
    BY <1>1, <1>10, <2>1, <2>3, EntryMeasures DEF tm
<1>11. CASE /\ state \in {"RXDATA", "RXDATACAP"} /\ IsCollision(rxPkt, p) /\ collPkt' = Noise(p)
            /\ EnterState("RXCOLL", Tracking(p), rxPkt, txPkt)
  <2>1. Noise(p).left = air'
    BY <1>0, <1>11
  <2>2. rxPkt.left <= air' /\ Tracking(p).left["rx"] = rxPkt.left
    BY <1>3, <1>4, <1>5, <1>11 DEF Measures, Receiving
  <2>3. Measures("RXCOLL", Tracking(p), rxPkt, collPkt', air')
    BY <1>0, <1>4, <1>11, <2>1, <2>2 DEF Measures, IdleAir, NoiseOnly, Receiving, Runs, Off
  <2> QED
    BY <1>1, <1>4, <1>11, <2>3, EntryMeasures
<1>12. ASSUME NEW s \in {"RXHDRCAP", "RXDATACAP"}, state \in {"RXHDR", "RXDATA"},
              ~IsCollision(rxPkt, p), collPkt' = p, EnterState(s, Tracking(p), rxPkt, txPkt)
       PROVE  Measures(state, timers, rxPkt, collPkt, air)'
  <2>1. Noise(p) = p
    BY <1>12 DEF Noise
  <2>2. Measures(s, Tracking(p), rxPkt, collPkt', air')
    BY <1>3, <1>4, <1>5, <1>12, <2>1 DEF Measures, IdleAir, NoiseOnly, Receiving
  <2> QED
    BY <1>1, <1>4, <1>12, <2>2, EntryMeasures
<1>13. CASE /\ \/ state \in {"RXHDRCAP", "RXDATACAP"} /\ ~IsCollision(rxPkt, p)
               \/ state \in {"RXCOLL", "RXCALNOISE", "RXNOISE", "RXNOISECCA", "TXNOISE", "TXCALNOISE"}
            /\ collPkt' = Noise(p)
            /\ Stay(Tracking(p), rxPkt, txPkt)
  <2>1. Noise(p) = Longer(collPkt, p)
    BY <1>13 DEF Noise, Receiving
  <2>2. Noise(p).left = IF collPkt.left > p.left THEN collPkt.left ELSE p.left
    BY <1>1, <1>2, <1>6, <2>1
  <2>3. /\ UNCHANGED <<state, rxPkt>> /\ timers' = Tracking(p)
    BY <1>13 DEF Stay
  <2>4. Measures(state, Tracking(p), rxPkt, collPkt', air')
    BY <1>3, <1>4, <1>5, <1>13, <2>2 DEF Measures, IdleAir, NoiseOnly, Receiving, Runs, Off
  <2> QED
    BY <2>3, <2>4 DEF Measures, Runs
<1> QED
  BY <1>3, <1>7, <1>8, <1>9, <1>10, <1>11, <1>12, <1>13 DEF RxFromMedium

(* After a switch nothing that has arrived is left. *)
LEMMA SwitchMeasures ==
  ASSUME Measured, SwitchChannel
  PROVE  Measures(state, timers, rxPkt, collPkt, air)'
<1>1. state' = "RXCAL" /\ air' = 0
  BY DEF SwitchChannel, EnterState
<1> QED
  BY <1>1 DEF Measures, NoiseOnly, Receiving

(* Timers, packets and the medium lose the same time. *)
LEMMA ElapseMeasures ==
  ASSUME Measured, Elapse
  PROVE  Measures(state, timers, rxPkt, collPkt, air)'
<1>1. /\ timers.left \in [Timers -> Nat \cup {Off}] /\ {rxPkt, collPkt} \subseteq Packets /\ air \in Nat
  BY DEF Measured, Heard, TypeOK, TimerSets
<1>2. /\ timers.left["rx"] \in Nat \cup {Off} /\ timers.left["rx"] # 0
      /\ timers.left["coll"] \in Nat \cup {Off} /\ timers.left["coll"] # 0
  BY <1>1 DEF Elapse, Due, Timers
<1>3. /\ timers'.left["rx"] = Less(timers.left["rx"])
      /\ timers'.left["coll"] = Less(timers.left["coll"])
      /\ rxPkt'.left = Less(rxPkt.left) /\ collPkt'.left = Less(collPkt.left)
      /\ air' = Less(air) /\ state' = state
  <2>1. timers' = [timers EXCEPT !.left = [t \in Timers |-> Less(@[t])]]
    BY DEF Elapse
  <2>2. timers'.left = [t \in Timers |-> Less(timers.left[t])]
    BY <2>1 DEF Measured, Heard, TypeOK, TimerSets
  <2>3. /\ rxPkt' = [rxPkt EXCEPT !.left = Less(@)] /\ collPkt' = [collPkt EXCEPT !.left = Less(@)]
        /\ air' = Less(air) /\ state' = state
    BY DEF Elapse
  <2> QED
    BY <1>1, <2>2, <2>3 DEF Packets, Timers
<1>4. rxPkt.left \in Nat /\ collPkt.left \in Nat
  BY <1>1 DEF Packets
<1>5. state \in Receiving => Runs(timers, "rx")
  BY DEF Measured, Inv, Sound, Matches
<1>6. Measures(state, timers, rxPkt, collPkt, air)
  BY DEF Measured
<1>7. CASE state \in IdleAir
  BY <1>3, <1>6, <1>7 DEF Measures, IdleAir, NoiseOnly, Receiving, Less
<1>8. CASE state \in NoiseOnly
  BY <1>1, <1>2, <1>3, <1>6, <1>8 DEF Measures, IdleAir, NoiseOnly, Receiving, Less
<1>9. CASE state \in {"RXHDR", "RXDATA"}
  BY <1>1, <1>2, <1>3, <1>6, <1>9 DEF Measures, IdleAir, NoiseOnly, Receiving, Less
<1>10. CASE state \in {"RXHDRCAP", "RXDATACAP"}
  BY <1>1, <1>2, <1>3, <1>4, <1>6, <1>10 DEF Measures, IdleAir, NoiseOnly, Receiving, Less
<1>11. CASE state = "RXCOLL"
  BY <1>1, <1>2, <1>3, <1>4, <1>6, <1>11
    DEF Measures, IdleAir, NoiseOnly, Receiving, Less, Runs, Off
<1>12. state \in States
  BY DEF Measured, Inv
<1> QED
  BY <1>7, <1>8, <1>9, <1>10, <1>11, <1>12 DEF States, IdleAir, NoiseOnly

(* Every step keeps the measure of the medium. *)
LEMMA NextMeasured ==
  ASSUME Measured, [Next]_vars, ~Eager
  PROVE  Measured'
<1>1. Inv' /\ Heard'
  BY NextInv, NextHeard DEF Measured
<1>2. CASE UNCHANGED vars
  BY <1>1, <1>2 DEF vars, Measured, Measures, Runs
<1>3. CASE TimerExpires
  BY <1>1, <1>3, StateTimerMeasures, TxTimerMeasures, RxTimerMeasures, CollTimerMeasures,
    CcaTimerMeasures DEF TimerExpires, Measured
<1>4. CASE Elapse
  BY <1>1, <1>4, ElapseMeasures DEF Measured
<1>5. CASE \E len \in Lens, cca \in BOOLEAN : TxRequest(len, cca)
  BY <1>1, <1>5, TxRequestMeasures DEF Measured
<1>6. CASE \E len \in Lens, power \in Powers, noise \in BOOLEAN : Arrive(len, power, noise)
  BY <1>1, <1>6, ArriveMeasures DEF Measured
<1>7. CASE SwitchChannel
  BY <1>1, <1>7, SwitchMeasures DEF Measured
<1> QED
  BY <1>2, <1>3, <1>4, <1>5, <1>6, <1>7 DEF Next

(* A state that measures the medium and has no timer due knows it. *)
LEMMA MeasuredKnown ==
  ASSUME Measured
  PROVE  MediumKnown
<1> SUFFICES ASSUME Due(timers) = {}
             PROVE  state \in IdleAir <=> air = 0
  BY DEF MediumKnown
<1>1. /\ timers.left["rx"] # 0 /\ timers.left["coll"] # 0
      /\ air \in Nat /\ rxPkt.left \in Nat /\ collPkt.left \in Nat /\ state \in States
  BY DEF Due, Timers, Measured, Heard, TypeOK, Packets
<1>2. Measures(state, timers, rxPkt, collPkt, air)
  BY DEF Measured
<1>3. CASE state \in IdleAir
  BY <1>2, <1>3 DEF Measures
<1>4. CASE state \in NoiseOnly
  BY <1>1, <1>2, <1>4 DEF Measures, NoiseOnly, IdleAir
<1>5. CASE state \in Receiving
  BY <1>1, <1>2, <1>5 DEF Measures, Receiving, IdleAir
<1> QED
  BY <1>1, <1>3, <1>4, <1>5 DEF States, IdleAir, NoiseOnly, Receiving

(* Under the assumption of NeverFatal the state is one of the idle ones exactly  *)
(* when all that arrived has ended, for any number of overlapping packets.       *)
THEOREM StateKnowsMedium ==
  ASSUME ~Eager
  PROVE  Spec => []MediumKnown
<1>1. Init => Measured
  BY InitInv, InitHeard DEF Init, Measured, Measures, NoiseOnly, Receiving
<1>2. Measured /\ [Next]_vars => Measured'
  BY NextMeasured
<1>3. Measured => MediumKnown
  BY MeasuredKnown
<1> QED
  BY <1>1, <1>2, <1>3, PTL DEF Spec
=============================================================================
