---------------------------- MODULE CC2420Proofs ----------------------------
(***************************************************************************)
(* Why no timer of the CC2420 state machine ever expires in a state that   *)
(* does not expect it, for every duration of packets and calibrations, any *)
(* powers and any CCA delay, also one that ends with the calibration of    *)
(* the transmitter, provided the upper layer does not send from inside its *)
(* callback.                                                               *)
(***************************************************************************)
EXTENDS CC2420Props, TLAPS

(* A delayed signal ends before the state timer: earlier, or at the same time  *)
(* but scheduled first.                                                         *)
CcaFirst(tm) ==
  Runs(tm, "cca") => tm.left["cca"] <= tm.left["state"] /\ <<"cca", "state">> \in tm.before

(* What the values of two timers must satisfy in state s. *)
InTime(s, tm) ==
  /\ s \in {"RXHDR", "RXHDRCAP"} => tm.left["state"] < tm.left["rx"]
  /\ s \in {"TXCAL", "TXCALNOISE"} => CcaFirst(tm)
  /\ s \in {"RXCAL", "RXCALNOISE", "RX", "RXNOISE", "TX", "TXNOISE"} => ~Runs(tm, "cca")
  /\ tm.left["cca"] <= TxCal

Sound(s, tm) ==
  /\ tm \in TimerSets
  /\ ~tm.twice
  /\ Matches(s, tm)
  /\ InTime(s, tm)

(* The inductive invariant: the timers match the state and are in time, and a  *)
(* calibrating transmitter has a packet.                                        *)
Inv ==
  /\ state \in States
  /\ Sound(state, timers)
  /\ ~failed
  /\ {rxPkt, collPkt, txPkt} \subseteq Packets
  /\ {asked, arrivals} \subseteq Nat
  /\ state \in {"TXCAL", "TXCALNOISE"} => txPkt # NoPkt

(* What must hold of the timers tm for entering s to leave them sound. *)
Enterable(s, tm, tx) ==
  /\ tm \in TimerSets
  /\ ~tm.twice
  /\ Runs(tm, "state") => s \in TimedStates \cup {"RXNOISECCA"}
  /\ s = "RXHDRCAP" => Runs(tm, "state")
  /\ Runs(tm, "rx") <=> s \in Receiving
  /\ Runs(tm, "tx") => s \in {"TX", "TXNOISE"}
  /\ s \in {"TX", "TXNOISE"} => Runs(tm, "tx") \/ tx # NoPkt
  /\ s # "RXCOLL" => (Runs(tm, "coll") <=> s \in NoisyStates)
  /\ s \in {"RXHDR", "RXHDRCAP"} => tm.left["state"] < tm.left["rx"]
  /\ s = "RXHDR" /\ ~Runs(tm, "state") => Header < tm.left["rx"]
  /\ s \in {"TXCAL", "TXCALNOISE"} /\ Runs(tm, "state") => CcaFirst(tm)
  /\ s \in {"RXCAL", "RXCALNOISE", "RX", "RXNOISE", "TX", "TXNOISE"} => ~Runs(tm, "cca")
  /\ tm.left["cca"] <= TxCal

-----------------------------------------------------------------------------
(* Cancelling a timer stops it and leaves the others alone. *)
LEMMA StopLeft ==
  ASSUME NEW tm \in TimerSets, NEW t \in Timers
  PROVE  /\ Stop(tm, t) \in TimerSets
         /\ Stop(tm, t).twice = tm.twice
         /\ \A u \in Timers : Stop(tm, t).left[u] = IF u = t THEN Off ELSE tm.left[u]
         /\ t \notin {"cca", "state"} /\ <<"cca", "state">> \in tm.before =>
              <<"cca", "state">> \in Stop(tm, t).before
BY DEF Stop, TimerSets, Off

(* Scheduling a timer that does not run sets it and leaves the others alone. *)
LEMMA StartLeft ==
  ASSUME NEW tm \in TimerSets, NEW t \in Timers, NEW d \in Nat, ~Runs(tm, t)
  PROVE  /\ Start(tm, t, d) \in TimerSets
         /\ Start(tm, t, d).twice = tm.twice
         /\ \A u \in Timers : Start(tm, t, d).left[u] = IF u = t THEN d ELSE tm.left[u]
         /\ tm.before \subseteq Start(tm, t, d).before
         /\ \A u \in Timers : Runs(tm, u) => <<u, t>> \in Start(tm, t, d).before
<1>1. tm.left \in [Timers -> Nat \cup {Off}] /\ tm.twice \in BOOLEAN
         /\ tm.before \in SUBSET (Timers \X Timers)
  BY DEF TimerSets
<1>2. {u \in Timers : Runs(tm, u)} \X {t} \in SUBSET (Timers \X Timers)
  OBVIOUS
<1>3. (tm.twice \/ Runs(tm, t)) = tm.twice
  BY <1>1
<1> QED
  BY <1>1, <1>2, <1>3 DEF Start, TimerSets

(* A timer that is only started when it does not run is never scheduled twice. *)
LEMMA StartedLeft ==
  ASSUME NEW tm \in TimerSets, NEW t \in Timers, NEW d \in Nat
  PROVE  /\ Started(tm, t, d) \in TimerSets
         /\ Started(tm, t, d).twice = tm.twice
         /\ Started(tm, t, d).left[t] = IF Runs(tm, t) THEN tm.left[t] ELSE d
         /\ \A u \in Timers \ {t} : Started(tm, t, d).left[u] = tm.left[u]
         /\ Runs(tm, t) => Started(tm, t, d).before = tm.before
         /\ ~Runs(tm, t) => \A u \in Timers : Runs(tm, u) => <<u, t>> \in Started(tm, t, d).before
<1>1. CASE Runs(tm, t)
  BY <1>1 DEF Started
<1>2. CASE ~Runs(tm, t)
  BY <1>2, StartLeft DEF Started
<1> QED
  BY <1>1, <1>2

(* The same of the state timer. *)
LEMMA StateTimerLeft ==
  ASSUME NEW tm \in TimerSets, NEW d \in Nat
  PROVE  /\ Started(tm, "state", d) \in TimerSets
         /\ Started(tm, "state", d).twice = tm.twice
         /\ Started(tm, "state", d).left["state"] = IF Runs(tm, "state") THEN tm.left["state"] ELSE d
         /\ \A u \in Timers \ {"state"} : Started(tm, "state", d).left[u] = tm.left[u]
         /\ Runs(tm, "state") => Started(tm, "state", d).before = tm.before
         /\ ~Runs(tm, "state") /\ Runs(tm, "cca") =>
              <<"cca", "state">> \in Started(tm, "state", d).before
<1>1. "state" \in Timers /\ "cca" \in Timers
  BY DEF Timers
<1> QED
  BY <1>1, StartedLeft

(* Entering a state that the timers allow leaves timers that are sound for it. *)
LEMMA Entry ==
  ASSUME NEW s \in States, NEW tm, NEW rx, NEW tx \in Packets,
         Enterable(s, tm, tx), EnterState(s, tm, rx, tx)
  PROVE  Sound(s, timers')
<1> DEFINE en == EntryTimers(s, tm, tx)
<1>0. /\ Twelve \in Nat /\ Eight \in Nat /\ Header \in Nat /\ TxCal \in Nat
      /\ \A d \in CcaDelays : d \in Nat /\ d <= TxCal
  BY FSMAssumption
<1>1. /\ tm \in TimerSets /\ ~tm.twice
      /\ \A t \in Timers : tm.left[t] \in Nat \cup {Off}
  BY DEF Enterable, TimerSets
<1>2. tx.left \in Nat
  BY DEF Packets
<1>6. tm \in TimerSets /\ Twelve \in Nat /\ Eight \in Nat /\ Header \in Nat /\ TxCal \in Nat
  BY <1>0, <1>1
<1>3. Sound(s, en)
  <2>1. CASE s \in {"TXCAL", "TXCALNOISE"}
    <3>1. en = Started(tm, "state", TxCal)
      BY <2>1 DEF EntryTimers
    <3> HIDE DEF en
    <3>2. /\ en \in TimerSets /\ en.twice = tm.twice
          /\ en.left["state"] = IF Runs(tm, "state") THEN tm.left["state"] ELSE TxCal
          /\ \A u \in Timers \ {"state"} : en.left[u] = tm.left[u]
          /\ Runs(tm, "state") => en.before = tm.before
          /\ ~Runs(tm, "state") /\ Runs(tm, "cca") => <<"cca", "state">> \in en.before
      BY <1>6, <3>1, StateTimerLeft
    <3>3. en.left["cca"] = tm.left["cca"]
      BY <3>2 DEF Timers
    <3>4. CcaFirst(en)
      BY <1>0, <1>1, <2>1, <3>2, <3>3 DEF Enterable, CcaFirst, Runs, Off
    <3> QED
      BY <1>0, <1>1, <2>1, <3>2, <3>4 DEF Enterable, Sound, Matches, InTime, Runs, Off, Timers,
        TimedStates, NoisyStates, Receiving
  <2>2. CASE s \in {"RXCAL", "RXCALNOISE"}
    <3>1. en = Started(tm, "state", Twelve)
      BY <2>2 DEF EntryTimers
    <3> HIDE DEF en
    <3>2. /\ en \in TimerSets /\ en.twice = tm.twice
          /\ en.left["state"] = IF Runs(tm, "state") THEN tm.left["state"] ELSE Twelve
          /\ \A u \in Timers \ {"state"} : en.left[u] = tm.left[u]
      BY <1>6, <3>1, StateTimerLeft
    <3> QED
      BY <1>0, <1>1, <2>2, <3>2 DEF Enterable, Sound, Matches, InTime, Runs, Off, Timers,
        TimedStates, NoisyStates, Receiving
  <2>3. CASE s \in {"RX", "RXNOISE"}
    <3>1. en = Started(tm, "state", Eight)
      BY <2>3 DEF EntryTimers
    <3> HIDE DEF en
    <3>2. /\ en \in TimerSets /\ en.twice = tm.twice
          /\ en.left["state"] = IF Runs(tm, "state") THEN tm.left["state"] ELSE Eight
          /\ \A u \in Timers \ {"state"} : en.left[u] = tm.left[u]
      BY <1>6, <3>1, StateTimerLeft
    <3> QED
      BY <1>0, <1>1, <2>3, <3>2 DEF Enterable, Sound, Matches, InTime, Runs, Off, Timers,
        TimedStates, NoisyStates, Receiving
  <2>4. CASE s = "RXHDR"
    <3>1. en = Started(tm, "state", Header)
      BY <2>4 DEF EntryTimers
    <3> HIDE DEF en
    <3>2. /\ en \in TimerSets /\ en.twice = tm.twice
          /\ en.left["state"] = IF Runs(tm, "state") THEN tm.left["state"] ELSE Header
          /\ \A u \in Timers \ {"state"} : en.left[u] = tm.left[u]
      BY <1>6, <3>1, StateTimerLeft
    <3> QED
      BY <1>0, <1>1, <2>4, <3>2 DEF Enterable, Sound, Matches, InTime, Runs, Off, Timers,
        TimedStates, NoisyStates, Receiving
  <2>5. CASE s = "RXNOISECCA"
    <3>1. en = Stop(tm, "state")
      BY <2>5 DEF EntryTimers
    <3> QED
      BY <1>1, <2>5, <3>1, StopLeft DEF Enterable, Sound, Matches, InTime, Runs, Off, Timers,
        TimedStates, NoisyStates, Receiving
  <2>6. CASE s \in {"TX", "TXNOISE"}
    <3>1. CASE tx # NoPkt
      <4>1. en = Started(tm, "tx", tx.left)
        BY <2>6, <3>1 DEF EntryTimers
      <4> HIDE DEF en
      <4>2. "tx" \in Timers
        BY DEF Timers
      <4>3. /\ en \in TimerSets /\ en.twice = tm.twice
            /\ en.left["tx"] = IF Runs(tm, "tx") THEN tm.left["tx"] ELSE tx.left
            /\ \A u \in Timers \ {"tx"} : en.left[u] = tm.left[u]
        BY <1>1, <1>2, <4>1, <4>2, StartedLeft
      <4> QED
        BY <1>1, <1>2, <2>6, <4>3 DEF Enterable, Sound, Matches, InTime, Runs, Off,
          Timers, TimedStates, NoisyStates, Receiving
    <3>2. CASE tx = NoPkt
      <4>1. en = tm
        BY <2>6, <3>2 DEF EntryTimers
      <4> QED
        BY <1>1, <2>6, <3>2, <4>1 DEF Enterable, Sound, Matches, InTime, Runs, Off,
          Timers, TimedStates, NoisyStates, Receiving
    <3> QED
      BY <3>1, <3>2
  <2>7. CASE s \in {"RXCCA", "RXHDRCAP", "RXDATA", "RXDATACAP", "RXCOLL"}
    <3>1. en = tm
      BY <2>7 DEF EntryTimers
    <3> QED
      BY <1>1, <2>7, <3>1 DEF Enterable, Sound, Matches, InTime, Runs, Off, Timers,
        TimedStates, NoisyStates, Receiving
  <2> QED
    BY <2>1, <2>2, <2>3, <2>4, <2>5, <2>6, <2>7 DEF States
<1>4. CASE timers' = en
  BY <1>3, <1>4
<1>5. CASE /\ s \in Signalling /\ ~Runs(en, "cca")
           /\ \E d \in CcaDelays \ {0} : timers' = Start(en, "cca", d)
  <2>1. PICK d \in CcaDelays \ {0} : timers' = Start(en, "cca", d)
    BY <1>5
  <2>2. d \in Nat /\ d <= TxCal /\ d # Off
    BY <1>0 DEF Off
  <2>3. en \in TimerSets
    BY <1>3 DEF Sound
  <2>4. /\ timers' \in TimerSets /\ timers'.twice = en.twice
        /\ \A u \in Timers : timers'.left[u] = IF u = "cca" THEN d ELSE en.left[u]
    BY <1>5, <2>1, <2>2, <2>3, StartLeft DEF Timers
  <2> HIDE DEF en
  <2> QED
    BY <1>3, <1>5, <2>1, <2>2, <2>3, <2>4 DEF Signalling, Sound, Matches, InTime, Runs, Timers,
      Off
<1> QED
  BY <1>4, <1>5 DEF EnterState, DelayCCASignal

-----------------------------------------------------------------------------
(* The packets that handlers make and choose between are packets. *)
LEMMA PacketTypes ==
  /\ NoPkt \in Packets
  /\ \A p, q \in Packets : Longer(p, q) \in Packets
  /\ \A len \in Lens, power \in Int, n \in Int : Packet(len, power, n) \in Packets
  /\ \A len \in Lens, n \in Nat : Packet(len, 0, n) # NoPkt
BY FSMAssumption DEF Packets, NoPkt, Packet, Longer

(* Entering an enterable state keeps the invariant. *)
LEMMA EntryInv ==
  ASSUME Inv, NEW s \in States, NEW tm, NEW rx \in Packets, NEW tx \in Packets,
         Enterable(s, tm, tx), EnterState(s, tm, rx, tx),
         failed' = failed, collPkt' \in Packets, {asked', arrivals'} \subseteq Nat,
         s \in {"TXCAL", "TXCALNOISE"} => tx # NoPkt
  PROVE  Inv'
<1>1. Sound(s, timers')
  BY Entry
<1>2. state' = s /\ rxPkt' = rx /\ txPkt' = TxPkt(s, tx)
  BY DEF EnterState
<1>3. txPkt' \in Packets /\ (s \in {"TXCAL", "TXCALNOISE"} => txPkt' # NoPkt)
  BY <1>2, PacketTypes DEF TxPkt
<1>4. Sound(state, timers)'
  BY <1>1, <1>2 DEF Sound, Matches, InTime, Runs
<1> QED
  BY <1>2, <1>3, <1>4 DEF Inv

(* Staying in the state keeps the invariant when the timers stay sound. *)
LEMMA StayInv ==
  ASSUME Inv, NEW tm, NEW rx \in Packets, NEW tx \in Packets, Sound(state, tm),
         Stay(tm, rx, tx), failed' = failed, collPkt' \in Packets, {asked', arrivals'} \subseteq Nat,
         state \in {"TXCAL", "TXCALNOISE"} => tx # NoPkt
  PROVE  Inv'
<1>1. state' = state /\ timers' = tm /\ rxPkt' = rx /\ txPkt' = tx
  BY DEF Stay
<1>2. Sound(state, timers)'
  BY <1>1 DEF Sound, Matches, InTime, Runs
<1> QED
  BY <1>1, <1>2 DEF Inv

(* A timer that expires is running; the handler begins with it stopped. *)
LEMMA Expiry ==
  ASSUME Inv, NEW t \in Timers, Expires(t)
  PROVE  /\ timers.left[t] = 0 /\ Runs(timers, t)
         /\ Stop(timers, t) \in TimerSets /\ ~Stop(timers, t).twice
         /\ \A u \in Timers : Stop(timers, t).left[u] = IF u = t THEN Off ELSE timers.left[u]
         /\ t \notin {"cca", "state"} /\ <<"cca", "state">> \in timers.before =>
              <<"cca", "state">> \in Stop(timers, t).before
BY StopLeft DEF Inv, Sound, Expires, Due, Runs, Off

(* The invariant says what each of the five timers is up to. *)
LEMMA Left ==
  ASSUME Inv
  PROVE  /\ timers \in TimerSets /\ ~timers.twice
         /\ \A t \in Timers : timers.left[t] \in Nat \cup {Off}
BY DEF Inv, Sound, TimerSets

(* The state timer only expires where the machine waits for it. *)
LEMMA StateTimerInv ==
  ASSUME Inv, StateTimerExpired
  PROVE  Inv'
<1> DEFINE tm == Stop(timers, "state")
<1>0. "state" \in Timers /\ Expires("state")
  BY DEF StateTimerExpired, Timers
<1>1. /\ timers.left["state"] = 0 /\ Runs(timers, "state")
      /\ tm \in TimerSets /\ ~tm.twice
      /\ \A u \in Timers : tm.left[u] = IF u = "state" THEN Off ELSE timers.left[u]
  BY <1>0, Expiry
<1>2. state \in TimedStates
  BY <1>1 DEF Inv, Sound, Matches
<1>3. UNCHANGED <<collPkt, asked, arrivals, failed>>
  BY <1>2 DEF StateTimerExpired, TimedStates, Survives, history
<1>4. rxPkt \in Packets /\ txPkt \in Packets /\ collPkt' \in Packets /\ {asked', arrivals'} \subseteq Nat
  BY <1>3 DEF Inv
<1>5. ~(state \in {"RXCCA", "RXDATA", "RXDATACAP", "RXCOLL", "RXNOISECCA", "TX", "TXNOISE"})
  BY <1>2 DEF TimedStates
<1>14. state \in {"TXCAL", "TXCALNOISE"} => ~Runs(timers, "cca")
  <2> SUFFICES ASSUME state \in {"TXCAL", "TXCALNOISE"}, Runs(timers, "cca")
               PROVE  FALSE
    OBVIOUS
  <2>1. timers.left["cca"] <= 0 /\ <<"cca", "state">> \in timers.before
    BY <1>1 DEF Inv, Sound, InTime, CcaFirst
  <2>2. timers.left["cca"] = 0 /\ "cca" \in Timers
    BY <2>1, Left DEF Runs, Off, Timers
  <2> QED
    BY <1>0, <2>1, <2>2 DEF Expires, Due
<1> HIDE DEF tm
<1>6. CASE state = "RXCAL"
  <2>0. state = "RXCAL"
    BY <1>6
  <2>1. EnterState("RX", tm, rxPkt, txPkt)
    BY <1>5, <2>0 DEF StateTimerExpired, tm
  <2>2. Enterable("RX", tm, txPkt)
    BY <1>1, <2>0, Left DEF Inv, Sound, Enterable, Matches, InTime, Runs, Off, Timers,
      TimedStates, NoisyStates, Receiving, States
  <2> QED
    BY <1>3, <1>4, <2>1, <2>2, EntryInv DEF States
<1>7. CASE state = "RXCALNOISE"
  <2>0. state = "RXCALNOISE"
    BY <1>7
  <2>1. EnterState("RXNOISE", tm, rxPkt, txPkt)
    BY <1>5, <2>0 DEF StateTimerExpired, tm
  <2>2. Enterable("RXNOISE", tm, txPkt)
    BY <1>1, <2>0, Left DEF Inv, Sound, Enterable, Matches, InTime, Runs, Off, Timers,
      TimedStates, NoisyStates, Receiving, States
  <2> QED
    BY <1>3, <1>4, <2>1, <2>2, EntryInv DEF States
<1>8. CASE state = "RX"
  <2>0. state = "RX"
    BY <1>8
  <2>1. EnterState("RXCCA", tm, rxPkt, txPkt)
    BY <1>5, <2>0 DEF StateTimerExpired, tm
  <2>2. Enterable("RXCCA", tm, txPkt)
    BY <1>1, <2>0, Left DEF Inv, Sound, Enterable, Matches, InTime, Runs, Off, Timers,
      TimedStates, NoisyStates, Receiving, States
  <2> QED
    BY <1>3, <1>4, <2>1, <2>2, EntryInv DEF States
<1>9. CASE state = "RXNOISE"
  <2>0. state = "RXNOISE"
    BY <1>9
  <2>1. EnterState("RXNOISECCA", tm, rxPkt, txPkt)
    BY <1>5, <2>0 DEF StateTimerExpired, tm
  <2>2. Enterable("RXNOISECCA", tm, txPkt)
    BY <1>1, <2>0, Left DEF Inv, Sound, Enterable, Matches, InTime, Runs, Off, Timers,
      TimedStates, NoisyStates, Receiving, States
  <2> QED
    BY <1>3, <1>4, <2>1, <2>2, EntryInv DEF States
<1>10. CASE state = "RXHDR"
  <2>0. state = "RXHDR"
    BY <1>10
  <2>1. EnterState("RXDATA", tm, rxPkt, txPkt)
    BY <1>5, <2>0 DEF StateTimerExpired, tm
  <2>2. Enterable("RXDATA", tm, txPkt)
    BY <1>1, <2>0, Left DEF Inv, Sound, Enterable, Matches, InTime, Runs, Off, Timers,
      TimedStates, NoisyStates, Receiving, States
  <2> QED
    BY <1>3, <1>4, <2>1, <2>2, EntryInv DEF States
<1>11. CASE state = "RXHDRCAP"
  <2>0. state = "RXHDRCAP"
    BY <1>11
  <2>1. EnterState("RXDATACAP", tm, rxPkt, txPkt)
    BY <1>5, <2>0 DEF StateTimerExpired, tm
  <2>2. Enterable("RXDATACAP", tm, txPkt)
    BY <1>1, <2>0, Left DEF Inv, Sound, Enterable, Matches, InTime, Runs, Off, Timers,
      TimedStates, NoisyStates, Receiving, States
  <2> QED
    BY <1>3, <1>4, <2>1, <2>2, EntryInv DEF States
<1>12. CASE state = "TXCAL"
  <2>0. state = "TXCAL"
    BY <1>12
  <2>1. EnterState("TX", tm, rxPkt, txPkt)
    BY <1>5, <2>0 DEF StateTimerExpired, tm
  <2>2. Enterable("TX", tm, txPkt)
    BY <1>1, <1>14, <2>0, Left DEF Inv, Sound, Enterable, Matches, InTime, Runs, Off, Timers,
      TimedStates, NoisyStates, Receiving, States
  <2> QED
    BY <1>3, <1>4, <2>1, <2>2, EntryInv DEF States
<1>13. CASE state = "TXCALNOISE"
  <2>0. state = "TXCALNOISE"
    BY <1>13
  <2>1. EnterState("TXNOISE", tm, rxPkt, txPkt)
    BY <1>5, <2>0 DEF StateTimerExpired, tm
  <2>2. Enterable("TXNOISE", tm, txPkt)
    BY <1>1, <1>14, <2>0, Left DEF Inv, Sound, Enterable, Matches, InTime, Runs, Off, Timers,
      TimedStates, NoisyStates, Receiving, States
  <2> QED
    BY <1>3, <1>4, <2>1, <2>2, EntryInv DEF States
<1> QED
  BY <1>2, <1>6, <1>7, <1>8, <1>9, <1>10, <1>11, <1>12, <1>13 DEF TimedStates

(* The transmission timer only expires during a transmission. *)
LEMMA TxTimerInv ==
  ASSUME Inv, TxTimerExpired
  PROVE  Inv'
<1> DEFINE tm == Stop(timers, "tx")
<1>0. "tx" \in Timers /\ Expires("tx")
  BY DEF TxTimerExpired, Timers
<1>1. /\ timers.left["tx"] = 0 /\ Runs(timers, "tx")
      /\ tm \in TimerSets /\ ~tm.twice
      /\ \A u \in Timers : tm.left[u] = IF u = "tx" THEN Off ELSE timers.left[u]
  BY <1>0, Expiry
<1>2. state \in {"TX", "TXNOISE"}
  BY <1>1 DEF Inv, Sound, Matches
<1>3. UNCHANGED <<collPkt, asked, arrivals, failed>>
  BY <1>2 DEF TxTimerExpired, Survives, history
<1>4. rxPkt \in Packets /\ txPkt \in Packets /\ collPkt' \in Packets /\ {asked', arrivals'} \subseteq Nat
  BY <1>3 DEF Inv
<1>5. EnterState(IF state = "TX" THEN "RXCAL" ELSE "RXCALNOISE", tm, rxPkt, txPkt)
  BY <1>2 DEF TxTimerExpired
<1> HIDE DEF tm
<1>6. CASE state = "TX"
  <2>0. state = "TX"
    BY <1>6
  <2>1. EnterState("RXCAL", tm, rxPkt, txPkt)
    BY <1>5, <2>0 DEF TxTimerExpired, tm
  <2>2. Enterable("RXCAL", tm, txPkt)
    BY <1>1, <2>0, Left DEF Inv, Sound, Enterable, Matches, InTime, Runs, Off, Timers,
      TimedStates, NoisyStates, Receiving, States
  <2> QED
    BY <1>3, <1>4, <2>1, <2>2, EntryInv DEF States
<1>7. CASE state = "TXNOISE"
  <2>0. state = "TXNOISE"
    BY <1>7
  <2>1. EnterState("RXCALNOISE", tm, rxPkt, txPkt)
    BY <1>5, <2>0 DEF TxTimerExpired, tm
  <2>2. Enterable("RXCALNOISE", tm, txPkt)
    BY <1>1, <2>0, Left DEF Inv, Sound, Enterable, Matches, InTime, Runs, Off, Timers,
      TimedStates, NoisyStates, Receiving, States
  <2> QED
    BY <1>3, <1>4, <2>1, <2>2, EntryInv DEF States
<1> QED
  BY <1>2, <1>6, <1>7

(* The noise ends only where the machine waits for it, or in RXCOLL. *)
LEMMA CollTimerInv ==
  ASSUME Inv, CollTimerExpired
  PROVE  Inv'
<1> DEFINE tm == Stop(timers, "coll")
<1>0. "coll" \in Timers /\ Expires("coll")
  BY DEF CollTimerExpired, Timers
<1>1. /\ timers.left["coll"] = 0 /\ Runs(timers, "coll")
      /\ tm \in TimerSets /\ ~tm.twice
      /\ \A u \in Timers : tm.left[u] = IF u = "coll" THEN Off ELSE timers.left[u]
      /\ <<"cca", "state">> \in timers.before => <<"cca", "state">> \in tm.before
  BY <1>0, Expiry
<1>2. state \in NoisyStates \cup {"RXCOLL"}
  BY <1>1 DEF Inv, Sound, Matches
<1>3. UNCHANGED <<collPkt, asked, arrivals, failed>>
  BY <1>2 DEF CollTimerExpired, NoisyStates, Survives, history
<1>4. rxPkt \in Packets /\ txPkt \in Packets /\ collPkt' \in Packets /\ {asked', arrivals'} \subseteq Nat
  BY <1>3 DEF Inv
<1>5. ~(state \in {"RXCAL", "RX", "RXCCA", "RXHDR", "RXDATA", "TXCAL", "TX"})
  BY <1>2 DEF NoisyStates
<1> HIDE DEF tm
<1>6. CASE state = "RXCALNOISE"
  <2>0. state = "RXCALNOISE"
    BY <1>6
  <2>1. EnterState("RXCAL", tm, rxPkt, txPkt)
    BY <1>5, <2>0 DEF CollTimerExpired, tm
  <2>2. Enterable("RXCAL", tm, txPkt)
    BY <1>1, <2>0, Left DEF Inv, Sound, Enterable, Matches, InTime, Runs, Off, Timers,
      TimedStates, NoisyStates, Receiving, States
  <2> QED
    BY <1>3, <1>4, <2>1, <2>2, EntryInv DEF States
<1>7. CASE state = "RXNOISE"
  <2>0. state = "RXNOISE"
    BY <1>7
  <2>1. EnterState("RX", tm, rxPkt, txPkt)
    BY <1>5, <2>0 DEF CollTimerExpired, tm
  <2>2. Enterable("RX", tm, txPkt)
    BY <1>1, <2>0, Left DEF Inv, Sound, Enterable, Matches, InTime, Runs, Off, Timers,
      TimedStates, NoisyStates, Receiving, States
  <2> QED
    BY <1>3, <1>4, <2>1, <2>2, EntryInv DEF States
<1>8. CASE state = "RXHDRCAP"
  <2>0. state = "RXHDRCAP"
    BY <1>8
  <2>1. EnterState("RXHDR", tm, rxPkt, txPkt)
    BY <1>5, <2>0 DEF CollTimerExpired, tm
  <2>2. Enterable("RXHDR", tm, txPkt)
    BY <1>1, <2>0, Left DEF Inv, Sound, Enterable, Matches, InTime, Runs, Off, Timers,
      TimedStates, NoisyStates, Receiving, States
  <2> QED
    BY <1>3, <1>4, <2>1, <2>2, EntryInv DEF States
<1>9. CASE state = "RXNOISECCA"
  <2>0. state = "RXNOISECCA"
    BY <1>9
  <2>1. EnterState("RXCCA", tm, rxPkt, txPkt)
    BY <1>5, <2>0 DEF CollTimerExpired, tm
  <2>2. Enterable("RXCCA", tm, txPkt)
    BY <1>1, <2>0, Left DEF Inv, Sound, Enterable, Matches, InTime, Runs, Off, Timers,
      TimedStates, NoisyStates, Receiving, States
  <2> QED
    BY <1>3, <1>4, <2>1, <2>2, EntryInv DEF States
<1>10. CASE state = "RXDATACAP"
  <2>0. state = "RXDATACAP"
    BY <1>10
  <2>1. EnterState("RXDATA", tm, rxPkt, txPkt)
    BY <1>5, <2>0 DEF CollTimerExpired, tm
  <2>2. Enterable("RXDATA", tm, txPkt)
    BY <1>1, <2>0, Left DEF Inv, Sound, Enterable, Matches, InTime, Runs, Off, Timers,
      TimedStates, NoisyStates, Receiving, States
  <2> QED
    BY <1>3, <1>4, <2>1, <2>2, EntryInv DEF States
<1>11. CASE state = "TXNOISE"
  <2>0. state = "TXNOISE"
    BY <1>11
  <2>1. EnterState("TX", tm, rxPkt, txPkt)
    BY <1>5, <2>0 DEF CollTimerExpired, tm
  <2>2. Enterable("TX", tm, txPkt)
    BY <1>1, <2>0, Left DEF Inv, Sound, Enterable, Matches, InTime, Runs, Off, Timers,
      TimedStates, NoisyStates, Receiving, States
  <2> QED
    BY <1>3, <1>4, <2>1, <2>2, EntryInv DEF States
<1>12. CASE state = "TXCALNOISE"
  <2>0. state = "TXCALNOISE"
    BY <1>12
  <2>1. EnterState("TXCAL", tm, rxPkt, txPkt)
    BY <1>5, <2>0 DEF CollTimerExpired, tm
  <2>2. Enterable("TXCAL", tm, txPkt)
    BY <1>1, <2>0, Left DEF Inv, Sound, Enterable, Matches, InTime, CcaFirst, Runs, Off, Timers,
      TimedStates, NoisyStates, Receiving, States
  <2>3. txPkt # NoPkt
    BY <2>0 DEF Inv
  <2> QED
    BY <1>3, <1>4, <2>1, <2>2, <2>3, EntryInv DEF States
<1>13. CASE state = "RXCOLL"
  <2>1. Stay(tm, rxPkt, txPkt)
    BY <1>5, <1>13 DEF CollTimerExpired, NoisyStates, tm
  <2>2. Sound(state, tm)
    BY <1>1, <1>13, Left DEF Inv, Sound, Matches, InTime, Runs, Off, Timers, TimedStates,
      NoisyStates, Receiving
  <2> QED
    BY <1>3, <1>4, <1>13, <2>1, <2>2, StayInv
<1> QED
  BY <1>2, <1>6, <1>7, <1>8, <1>9, <1>10, <1>11, <1>12, <1>13 DEF NoisyStates

(* A delayed CCA signal only ends where the handler knows what to say. *)
LEMMA CcaTimerInv ==
  ASSUME Inv, CcaTimerExpired
  PROVE  Inv'
<1> DEFINE tm == Stop(timers, "cca")
<1>0. "cca" \in Timers /\ Expires("cca")
  BY DEF CcaTimerExpired, Timers
<1>1. /\ timers.left["cca"] = 0 /\ Runs(timers, "cca")
      /\ tm \in TimerSets /\ ~tm.twice
      /\ \A u \in Timers : tm.left[u] = IF u = "cca" THEN Off ELSE timers.left[u]
  BY <1>0, Expiry
<1>2. ~(state \in {"RX", "RXNOISE", "TX", "TXNOISE"})
  BY <1>1 DEF Inv, Sound, InTime
<1>3. /\ UNCHANGED <<collPkt, asked, arrivals, failed>>
      /\ timers' = tm /\ UNCHANGED <<state, rxPkt, txPkt>>
  BY <1>2 DEF CcaTimerExpired, Survives, Stay, history
<1> HIDE DEF tm
<1>4. tm.left["cca"] = Off /\ \A u \in Timers \ {"cca"} : tm.left[u] = timers.left[u]
  BY <1>1 DEF Timers
<1>5. Sound(state, tm)
  BY <1>1, <1>4, Left, FSMAssumption DEF Inv, Sound, Matches, InTime, CcaFirst, Runs, Off, Timers, TimedStates, Receiving
<1>6. Sound(state, timers)'
  BY <1>3, <1>5 DEF Sound, Matches, InTime, Runs
<1> QED
  BY <1>3, <1>6 DEF Inv

(* The reception ends after its header; nobody sends from the callback. *)
LEMMA RxTimerInv ==
  ASSUME Inv, RxTimerExpired, ~Eager
  PROVE  Inv'
<1> DEFINE tm == Stop(timers, "rx")
<1>0. "rx" \in Timers /\ Expires("rx")
  BY DEF RxTimerExpired, Timers
<1>1. /\ timers.left["rx"] = 0 /\ Runs(timers, "rx")
      /\ tm \in TimerSets /\ ~tm.twice
      /\ \A u \in Timers : tm.left[u] = IF u = "rx" THEN Off ELSE timers.left[u]
  BY <1>0, Expiry
<1>2. state \in Receiving
  BY <1>1 DEF Inv, Sound, Matches
<1>3. ~(state \in {"RXHDR", "RXHDRCAP"})
  <2>1. timers.left["state"] \in Nat \cup {Off}
    BY Left DEF Timers
  <2> QED
    BY <1>1, <2>1 DEF Inv, Sound, Matches, InTime, TimedStates, Runs, Off
<1>4. state \in {"RXDATA", "RXDATACAP", "RXCOLL"}
  BY <1>2, <1>3 DEF Receiving
<1>5. Received(tm, rxPkt, txPkt) /\ UNCHANGED <<collPkt, asked, arrivals, failed>>
  BY <1>4 DEF RxTimerExpired, Survives
<1>6. rxPkt \in Packets /\ txPkt \in Packets /\ collPkt' \in Packets /\ {asked', arrivals'} \subseteq Nat
  BY <1>5 DEF Inv
<1> HIDE DEF tm
<1>7. CASE state # "RXDATA" /\ Runs(tm, "coll")
  <2>1. EnterState("RXNOISECCA", tm, rxPkt, txPkt)
    BY <1>5, <1>7 DEF Received
  <2>2. Enterable("RXNOISECCA", tm, txPkt)
    BY <1>1, <1>4, <1>7, Left DEF Inv, Sound, Enterable, Matches, InTime, Runs, Off, Timers,
      TimedStates, NoisyStates, Receiving
  <2> QED
    BY <1>5, <1>6, <2>1, <2>2, EntryInv DEF States
<1>8. CASE ~(state # "RXDATA" /\ Runs(tm, "coll"))
  <2>1. EnterState("RXCCA", tm, rxPkt, txPkt)
    BY <1>5, <1>8 DEF Received
  <2>2. Enterable("RXCCA", tm, txPkt)
    BY <1>1, <1>4, <1>8, Left DEF Inv, Sound, Enterable, Matches, InTime, Runs, Off, Timers,
      TimedStates, NoisyStates, Receiving
  <2> QED
    BY <1>5, <1>6, <2>1, <2>2, EntryInv DEF States
<1> QED
  BY <1>7, <1>8

(* What a granted request turns into noise lasts a natural time. *)
LEMMA NoiseTypes ==
  ASSUME Inv
  PROVE  /\ NoiseLeft \in Packets /\ Abandoned \in Packets
         /\ \A p \in Packets : Noise(p) \in Packets
BY PacketTypes DEF Inv, NoiseLeft, Abandoned, Noise

(* A granted request stops the reception and keeps track of the noise. *)
LEMMA TurnedAroundLeft ==
  ASSUME Inv
  PROVE  /\ TurnedAround(timers) \in TimerSets /\ ~TurnedAround(timers).twice
         /\ TurnedAround(timers).left["state"] = Off
         /\ TurnedAround(timers).left["cca"] = timers.left["cca"]
         /\ TurnedAround(timers).left["tx"] = timers.left["tx"]
         /\ TurnedAround(timers).left["rx"] = Off
         /\ Runs(TurnedAround(timers), "coll") <=> state \in NoisyStates \cup Receiving
<1> DEFINE calm == Stop(timers, "state")
           deaf == Stop(calm, "rx")
           mute == Stop(deaf, "coll")
<1>0. Timers = {"state", "rx", "tx", "coll", "cca"}
  BY DEF Timers
<1>1. timers \in TimerSets /\ ~timers.twice
  BY Left
<1>2. /\ calm \in TimerSets /\ calm.twice = timers.twice
      /\ \A u \in Timers : calm.left[u] = IF u = "state" THEN Off ELSE timers.left[u]
  BY <1>0, <1>1, StopLeft
<1> HIDE DEF calm
<1>3. /\ deaf \in TimerSets /\ deaf.twice = calm.twice
      /\ \A u \in Timers : deaf.left[u] = IF u = "rx" THEN Off ELSE calm.left[u]
  BY <1>0, <1>2, StopLeft
<1> HIDE DEF deaf
<1>4. /\ mute \in TimerSets /\ mute.twice = deaf.twice
      /\ \A u \in Timers : mute.left[u] = IF u = "coll" THEN Off ELSE deaf.left[u]
  BY <1>0, <1>3, StopLeft
<1> HIDE DEF mute
<1>5. CASE state \in Receiving
  <2>1. TurnedAround(timers) = Start(mute, "coll", NoiseLeft.left)
    BY <1>5 DEF TurnedAround, calm, deaf, mute
  <2>2. NoiseLeft.left \in Nat
    BY NoiseTypes DEF Packets
  <2>3. ~Runs(mute, "coll")
    BY <1>0, <1>4 DEF Runs
  <2>4. /\ Start(mute, "coll", NoiseLeft.left) \in TimerSets
        /\ Start(mute, "coll", NoiseLeft.left).twice = mute.twice
        /\ \A u \in Timers : Start(mute, "coll", NoiseLeft.left).left[u] =
             IF u = "coll" THEN NoiseLeft.left ELSE mute.left[u]
    BY <1>0, <1>4, <2>2, <2>3, StartLeft
  <2> QED
    BY <1>0, <1>1, <1>2, <1>3, <1>4, <1>5, <2>1, <2>2, <2>4 DEF Runs, Off
<1>6. CASE state \notin Receiving
  <2>1. TurnedAround(timers) = calm
    BY <1>6 DEF TurnedAround, calm
  <2> QED
    BY <1>0, <1>1, <1>2, <1>6, <2>1 DEF Inv, Sound, Matches, Runs, Off, Receiving
<1> QED
  BY <1>5, <1>6

(* A request turns the radio around, or fails and only leaves its packet. *)
LEMMA TxRequestInv ==
  ASSUME Inv, NEW len \in Lens, NEW cca \in BOOLEAN, TxRequest(len, cca)
  PROVE  Inv'
<1> DEFINE tx == Packet(len, 0, asked)
           tm == TurnedAround(timers)
<1>1. {asked, arrivals} \subseteq Nat /\ {asked', arrivals'} \subseteq Nat /\ failed' = failed
  BY DEF Inv, TxRequest, Survives
<1>2. tx \in Packets /\ tx # NoPkt
  BY <1>1, PacketTypes
<1>3. rxPkt \in Packets /\ collPkt \in Packets
  BY DEF Inv
<1>4. CASE ~Grants(cca)
  <2>1. Stay(timers, rxPkt, tx) /\ UNCHANGED collPkt
    BY <1>4 DEF TxRequest
  <2>2. Sound(state, timers)
    BY DEF Inv
  <2> QED
    BY <1>1, <1>2, <1>3, <2>1, <2>2, StayInv
<1>5. CASE Grants(cca)
  <2>1. /\ EnterState(IF state \in {"RXCAL", "RX", "RXCCA"} THEN "TXCAL" ELSE "TXCALNOISE",
                      tm, Abandoned, tx)
        /\ collPkt' = NoiseLeft
    BY <1>5 DEF TxRequest
  <2>2. /\ tm \in TimerSets /\ ~tm.twice
        /\ tm.left["state"] = Off /\ tm.left["rx"] = Off
        /\ tm.left["cca"] = timers.left["cca"] /\ tm.left["tx"] = timers.left["tx"]
        /\ Runs(tm, "coll") <=> state \in NoisyStates \cup Receiving
    BY TurnedAroundLeft
  <2>3. state \in States \ Transmitting
    BY <1>5 DEF Grants, Inv
  <2>4. Abandoned \in Packets /\ collPkt' \in Packets
    BY <2>1, NoiseTypes
  <2> HIDE DEF tm, tx
  <2>5. CASE state \in {"RXCAL", "RX", "RXCCA"}
    <3>1. Enterable("TXCAL", tm, tx)
      BY <2>2, <2>5 DEF Inv, Sound, Enterable, Matches, InTime, Runs, Off, TimedStates,
        NoisyStates, Receiving
    <3> QED
      BY <1>1, <1>2, <2>1, <2>4, <2>5, <3>1, EntryInv DEF States
  <2>6. CASE state \notin {"RXCAL", "RX", "RXCCA"}
    <3>1. Enterable("TXCALNOISE", tm, tx)
      BY <2>2, <2>3, <2>6 DEF Inv, Sound, Enterable, Matches, InTime, Runs, Off, TimedStates,
        NoisyStates, Receiving, States, Transmitting
    <3> QED
      BY <1>1, <1>2, <2>1, <2>4, <2>6, <3>1, EntryInv DEF States
  <2> QED
    BY <2>5, <2>6
<1> QED
  BY <1>4, <1>5

(* Tracking an arrival runs the noise timer and leaves the others alone. *)
LEMMA TrackingLeft ==
  ASSUME Inv, NEW p \in Packets
  PROVE  /\ Tracking(p) \in TimerSets /\ ~Tracking(p).twice /\ Runs(Tracking(p), "coll")
         /\ \A u \in Timers \ {"coll"} : Tracking(p).left[u] = timers.left[u]
         /\ <<"cca", "state">> \in timers.before => <<"cca", "state">> \in Tracking(p).before
<1> DEFINE mute == Stop(timers, "coll")
<1>0. "coll" \in Timers /\ timers \in TimerSets /\ ~timers.twice
  BY Left DEF Timers
<1>1. p.left \in Nat /\ Noise(p).left \in Nat
  BY NoiseTypes DEF Packets
<1>2. CASE state \in {"RXCAL", "RX", "TXCAL", "TX"}
  <2>1. ~Runs(timers, "coll")
    BY <1>2 DEF Inv, Sound, Matches, NoisyStates
  <2>2. Tracking(p) = Start(timers, "coll", p.left)
    BY <1>2 DEF Tracking
  <2> QED
    BY <1>0, <1>1, <2>1, <2>2, StartLeft DEF Runs, Off
<1>3. CASE state \notin {"RXCAL", "RX", "TXCAL", "TX"}
  <2>1. /\ mute \in TimerSets /\ mute.twice = timers.twice
        /\ \A u \in Timers : mute.left[u] = IF u = "coll" THEN Off ELSE timers.left[u]
        /\ <<"cca", "state">> \in timers.before => <<"cca", "state">> \in mute.before
    BY <1>0, StopLeft
  <2>2. Tracking(p) = Start(mute, "coll", Noise(p).left)
    BY <1>3 DEF Tracking
  <2> HIDE DEF mute
  <2>3. ~Runs(mute, "coll")
    BY <1>0, <2>1 DEF Runs
  <2> QED
    BY <1>0, <1>1, <2>1, <2>2, <2>3, StartLeft DEF Runs, Off
<1> QED
  BY <1>2, <1>3

(* Whatever arrives, the machine enters a state that has the timers it needs. *)
LEMMA ArriveInv ==
  ASSUME Inv, NEW len \in Lens, NEW power \in Powers, NEW noise \in BOOLEAN,
         Arrive(len, power, noise)
  PROVE  Inv'
<1> DEFINE p == Packet(len, power, OnAir(arrivals))
<1>1. {asked', arrivals'} \subseteq Nat /\ failed' = failed /\ RxFromMedium(p, noise)
  BY DEF Inv, Arrive, Survives
<1>2. /\ p \in Packets /\ rxPkt \in Packets /\ txPkt \in Packets
      /\ NoPkt \in Packets /\ Noise(p) \in Packets
  <2>1. len \in Nat /\ power \in Int /\ arrivals \in Nat
    BY FSMAssumption DEF Inv
  <2>2. p \in Packets
    BY <2>1 DEF Packet, Packets, OnAir
  <2> HIDE DEF p
  <2> QED
    BY <2>2, PacketTypes, NoiseTypes DEF Inv
<1>3. p.left \in Nat /\ Header < p.left
  BY FSMAssumption DEF Packet
<1>4. /\ Tracking(p) \in TimerSets /\ ~Tracking(p).twice /\ Runs(Tracking(p), "coll")
      /\ \A u \in Timers \ {"coll"} : Tracking(p).left[u] = timers.left[u]
      /\ <<"cca", "state">> \in timers.before => <<"cca", "state">> \in Tracking(p).before
  <2> HIDE DEF p
  <2> QED
    BY <1>2, TrackingLeft
<1> HIDE DEF p
<1>5. CASE state = "RXCCA" /\ ~noise
  <2> DEFINE tm == Start(timers, "rx", p.left)
  <2>1. EnterState("RXHDR", tm, p, txPkt) /\ collPkt' = collPkt
    BY <1>1, <1>5 DEF RxFromMedium
  <2>2. "rx" \in Timers /\ ~Runs(timers, "rx") /\ timers \in TimerSets /\ ~timers.twice
    BY <1>5, Left DEF Inv, Sound, Matches, Receiving, Timers
  <2>3. /\ tm \in TimerSets /\ ~tm.twice
        /\ \A u \in Timers : tm.left[u] = IF u = "rx" THEN p.left ELSE timers.left[u]
    BY <1>3, <2>2, StartLeft
  <2> HIDE DEF tm
  <2>4. Enterable("RXHDR", tm, txPkt)
    BY <1>3, <1>5, <2>3, Left, FSMAssumption DEF Inv, Sound, Enterable, Matches, InTime, Runs, Off,
      Timers, TimedStates, NoisyStates, Receiving
  <2>5. collPkt' \in Packets
    BY <2>1 DEF Inv
  <2> QED
    BY <1>1, <1>2, <2>1, <2>4, <2>5, EntryInv DEF States
<1>6. CASE state = "RXCCA" /\ noise
  <2>1. EnterState("RXNOISECCA", Tracking(p), rxPkt, txPkt) /\ collPkt' = p
    BY <1>1, <1>6 DEF RxFromMedium
  <2>2. Enterable("RXNOISECCA", Tracking(p), txPkt)
    BY <1>4, <1>6 DEF Inv, Sound, Enterable, Matches, InTime, Runs, Off, Timers, TimedStates,
      NoisyStates, Receiving
  <2> QED
    BY <1>1, <1>2, <2>1, <2>2, EntryInv DEF States
<1>7. CASE state = "RXCAL"
  <2>0. state = "RXCAL"
    BY <1>7
  <2>1. EnterState("RXCALNOISE", Tracking(p), rxPkt, txPkt) /\ collPkt' = p
    BY <1>1, <2>0 DEF RxFromMedium
  <2>2. Enterable("RXCALNOISE", Tracking(p), txPkt)
    BY <1>4, <2>0 DEF Inv, Sound, Enterable, Matches, InTime, Runs, Off, Timers, TimedStates,
      NoisyStates, Receiving, States
  <2>3. "RXCALNOISE" \in {"TXCAL", "TXCALNOISE"} => txPkt # NoPkt
    BY <2>0 DEF Inv
  <2> QED
    BY <1>1, <1>2, <2>1, <2>2, <2>3, EntryInv DEF States
<1>8. CASE state = "RX"
  <2>0. state = "RX"
    BY <1>8
  <2>1. EnterState("RXNOISE", Tracking(p), rxPkt, txPkt) /\ collPkt' = p
    BY <1>1, <2>0 DEF RxFromMedium
  <2>2. Enterable("RXNOISE", Tracking(p), txPkt)
    BY <1>4, <2>0 DEF Inv, Sound, Enterable, Matches, InTime, Runs, Off, Timers, TimedStates,
      NoisyStates, Receiving, States
  <2>3. "RXNOISE" \in {"TXCAL", "TXCALNOISE"} => txPkt # NoPkt
    BY <2>0 DEF Inv
  <2> QED
    BY <1>1, <1>2, <2>1, <2>2, <2>3, EntryInv DEF States
<1>9. CASE state = "TXCAL"
  <2>0. state = "TXCAL"
    BY <1>9
  <2>1. EnterState("TXCALNOISE", Tracking(p), rxPkt, txPkt) /\ collPkt' = p
    BY <1>1, <2>0 DEF RxFromMedium
  <2>2. Enterable("TXCALNOISE", Tracking(p), txPkt)
    BY <1>4, <2>0 DEF Inv, Sound, Enterable, Matches, InTime, CcaFirst, Runs, Off, Timers, TimedStates,
      NoisyStates, Receiving, States
  <2>3. "TXCALNOISE" \in {"TXCAL", "TXCALNOISE"} => txPkt # NoPkt
    BY <2>0 DEF Inv
  <2> QED
    BY <1>1, <1>2, <2>1, <2>2, <2>3, EntryInv DEF States
<1>10. CASE state = "TX"
  <2>0. state = "TX"
    BY <1>10
  <2>1. EnterState("TXNOISE", Tracking(p), rxPkt, txPkt) /\ collPkt' = p
    BY <1>1, <2>0 DEF RxFromMedium
  <2>2. Enterable("TXNOISE", Tracking(p), txPkt)
    BY <1>4, <2>0 DEF Inv, Sound, Enterable, Matches, InTime, Runs, Off, Timers, TimedStates,
      NoisyStates, Receiving, States
  <2>3. "TXNOISE" \in {"TXCAL", "TXCALNOISE"} => txPkt # NoPkt
    BY <2>0 DEF Inv
  <2> QED
    BY <1>1, <1>2, <2>1, <2>2, <2>3, EntryInv DEF States
<1>11. CASE state \in {"RXHDR", "RXHDRCAP"} /\ IsCollision(rxPkt, p)
  <2> DEFINE tm == Stop(Tracking(p), "rx")
  <2>1. EnterState("RXNOISECCA", tm, NoPkt, txPkt) /\ collPkt' = Noise(p)
    BY <1>1, <1>11 DEF RxFromMedium
  <2>2. /\ tm \in TimerSets /\ ~tm.twice
        /\ \A u \in Timers : tm.left[u] = IF u = "rx" THEN Off ELSE Tracking(p).left[u]
    BY <1>4, StopLeft DEF Timers
  <2> HIDE DEF tm
  <2>3. Enterable("RXNOISECCA", tm, txPkt)
    BY <1>4, <1>11, <2>2 DEF Inv, Sound, Enterable, Matches, InTime, Runs, Off, Timers, TimedStates,
      NoisyStates, Receiving
  <2> QED
    BY <1>1, <1>2, <2>1, <2>3, EntryInv DEF States
<1>12. CASE state \in {"RXDATA", "RXDATACAP"} /\ IsCollision(rxPkt, p)
  <2>1. EnterState("RXCOLL", Tracking(p), rxPkt, txPkt) /\ collPkt' = Noise(p)
    BY <1>1, <1>12 DEF RxFromMedium
  <2>2. Enterable("RXCOLL", Tracking(p), txPkt)
    BY <1>4, <1>12 DEF Inv, Sound, Enterable, Matches, InTime, Runs, Off, Timers, TimedStates,
      NoisyStates, Receiving
  <2> QED
    BY <1>1, <1>2, <2>1, <2>2, EntryInv DEF States
<1>13. CASE state \in {"RXHDR", "RXDATA"} /\ ~IsCollision(rxPkt, p)
  <2> DEFINE s == IF state = "RXHDR" THEN "RXHDRCAP" ELSE "RXDATACAP"
  <2>1. EnterState(s, Tracking(p), rxPkt, txPkt) /\ collPkt' = p
    BY <1>1, <1>13 DEF RxFromMedium
  <2>2. Enterable(s, Tracking(p), txPkt)
    BY <1>4, <1>13 DEF Inv, Sound, Enterable, Matches, InTime, Runs, Off, Timers, TimedStates,
      NoisyStates, Receiving
  <2> QED
    BY <1>1, <1>2, <2>1, <2>2, EntryInv DEF States
<1>14. CASE \/ state \in {"RXHDRCAP", "RXDATACAP"} /\ ~IsCollision(rxPkt, p)
            \/ state \in {"RXCOLL", "RXCALNOISE", "RXNOISE", "RXNOISECCA", "TXNOISE", "TXCALNOISE"}
  <2>1. Stay(Tracking(p), rxPkt, txPkt) /\ collPkt' = Noise(p)
    BY <1>1, <1>14 DEF RxFromMedium
  <2>2. Sound(state, Tracking(p))
    BY <1>4, <1>14 DEF Inv, Sound, Matches, InTime, CcaFirst, Runs, Off, Timers, TimedStates, NoisyStates,
      Receiving
  <2>3. state \in {"TXCAL", "TXCALNOISE"} => txPkt # NoPkt
    BY DEF Inv
  <2> QED
    BY <1>1, <1>2, <2>1, <2>2, <2>3, StayInv
<1>15. state \in States /\ noise \in BOOLEAN
  BY DEF Inv
<1> QED
  BY <1>5, <1>6, <1>7, <1>8, <1>9, <1>10, <1>11, <1>12, <1>13, <1>14, <1>15 DEF States

(* A switch of the channel stops every timer and calibrates the receiver. *)
LEMMA SwitchInv ==
  ASSUME Inv, SwitchChannel
  PROVE  Inv'
<1> DEFINE a == Stop(timers, "tx")
           b == Stop(a, "cca")
           c == Stop(b, "state")
           d == Stop(c, "coll")
           e == Stop(d, "rx")
<1>0. Timers = {"state", "rx", "tx", "coll", "cca"}
  BY DEF Timers
<1>1. /\ EnterState("RXCAL", e, NoPkt, NoPkt)
      /\ failed' = failed /\ collPkt' \in Packets /\ {asked', arrivals'} \subseteq Nat
  BY PacketTypes DEF SwitchChannel, Survives, Inv
<1>2. timers \in TimerSets /\ ~timers.twice
  BY Left
<1>3. /\ a \in TimerSets /\ a.twice = timers.twice
      /\ \A u \in Timers : a.left[u] = IF u = "tx" THEN Off ELSE timers.left[u]
  BY <1>0, <1>2, StopLeft
<1> HIDE DEF a
<1>4. /\ b \in TimerSets /\ b.twice = a.twice
      /\ \A u \in Timers : b.left[u] = IF u = "cca" THEN Off ELSE a.left[u]
  BY <1>0, <1>3, StopLeft
<1> HIDE DEF b
<1>5. /\ c \in TimerSets /\ c.twice = b.twice
      /\ \A u \in Timers : c.left[u] = IF u = "state" THEN Off ELSE b.left[u]
  BY <1>0, <1>4, StopLeft
<1> HIDE DEF c
<1>6. /\ d \in TimerSets /\ d.twice = c.twice
      /\ \A u \in Timers : d.left[u] = IF u = "coll" THEN Off ELSE c.left[u]
  BY <1>0, <1>5, StopLeft
<1> HIDE DEF d
<1>7. /\ e \in TimerSets /\ e.twice = d.twice
      /\ \A u \in Timers : e.left[u] = IF u = "rx" THEN Off ELSE d.left[u]
  BY <1>0, <1>6, StopLeft
<1> HIDE DEF e
<1>8. e \in TimerSets /\ ~e.twice /\ \A u \in Timers : e.left[u] = Off
  BY <1>0, <1>2, <1>3, <1>4, <1>5, <1>6, <1>7
<1>9. Enterable("RXCAL", e, NoPkt)
  BY <1>0, <1>8, FSMAssumption DEF Enterable, Runs, Off, NoisyStates, Receiving, TimedStates
<1> QED
  BY <1>1, <1>9, PacketTypes, EntryInv DEF States

(* Time passes for all running timers at the same pace, as none of them is due. *)
LEMMA ElapseInv ==
  ASSUME Inv, Elapse
  PROVE  Inv'
<1> DEFINE tm == [timers EXCEPT !.left = [t \in Timers |-> Less(@[t])]]
<1>1. timers \in TimerSets /\ ~timers.twice /\ \A t \in Timers : timers.left[t] \in Nat \cup {Off}
  BY Left
<1>2. \A t \in Timers : timers.left[t] # 0
  BY DEF Elapse, Due
<1>3. /\ tm \in TimerSets /\ ~tm.twice
      /\ \A t \in Timers : /\ Runs(timers, t) => tm.left[t] = timers.left[t] - 1 /\ tm.left[t] \in Nat
                           /\ ~Runs(timers, t) => tm.left[t] = Off
      /\ tm.before = timers.before
  <2>1. \A t \in Timers : Less(timers.left[t]) \in Nat \cup {Off}
    BY <1>1 DEF Less, Off
  <2>2. /\ tm \in TimerSets /\ ~tm.twice
        /\ tm.before = timers.before /\ \A t \in Timers : tm.left[t] = Less(timers.left[t])
    BY <1>1, <2>1 DEF TimerSets
  <2> QED
    BY <1>1, <1>2, <2>2 DEF Less, Runs, Off
<1>4. timers' = tm /\ UNCHANGED <<state, txPkt, failed, asked, arrivals>>
  BY DEF Elapse
<1>5. rxPkt' \in Packets /\ collPkt' \in Packets
  BY DEF Elapse, Inv, Packets, Less
<1> HIDE DEF tm
<1>6. \A t \in Timers : Runs(tm, t) <=> Runs(timers, t)
  BY <1>3 DEF Runs, Off
<1>7. Sound(state, tm)
  BY <1>1, <1>3, <1>6, FSMAssumption DEF Inv, Sound, Matches, InTime, CcaFirst, Runs, Off, Timers, TimedStates,
    Receiving
<1>8. Sound(state, timers)'
  BY <1>4, <1>7 DEF Sound, Matches, InTime, Runs
<1> QED
  BY <1>4, <1>5, <1>8 DEF Inv

(* The constructor enters RXCAL: only the calibration runs. *)
LEMMA InitInv ==
  ASSUME Init
  PROVE  Inv
<1> DEFINE none == [left |-> [t \in Timers |-> Off], before |-> {}, twice |-> FALSE]
<1>1. "state" \in Timers /\ none \in TimerSets /\ ~none.twice /\ ~Runs(none, "state")
      /\ \A t \in Timers : none.left[t] = Off
  BY DEF Timers, TimerSets, Runs
<1>2. timers = Start(none, "state", Twelve) /\ state = "RXCAL"
  BY DEF Init
<1>3. Twelve \in Nat /\ TxCal \in Nat
  BY FSMAssumption
<1> HIDE DEF none
<1>4. /\ timers \in TimerSets /\ ~timers.twice
      /\ \A u \in Timers : timers.left[u] = IF u = "state" THEN Twelve ELSE Off
  BY <1>1, <1>2, <1>3, StartLeft
<1>5. Sound(state, timers)
  BY <1>2, <1>3, <1>4 DEF Sound, Matches, InTime, Runs, Off, Timers, TimedStates, NoisyStates, Receiving
<1> QED
  BY <1>2, <1>5, PacketTypes DEF Init, Inv, States

(* Every step of the machine keeps the invariant. *)
LEMMA NextInv ==
  ASSUME Inv, [Next]_vars, ~Eager
  PROVE  Inv'
<1>1. CASE UNCHANGED vars
  BY <1>1 DEF Inv, vars, Sound, Matches, InTime, Runs
<1>2. CASE TimerExpires
  BY <1>2, StateTimerInv, TxTimerInv, RxTimerInv, CollTimerInv, CcaTimerInv DEF TimerExpires
<1>3. CASE Elapse
  BY <1>3, ElapseInv
<1>4. CASE \E len \in Lens, cca \in BOOLEAN : TxRequest(len, cca)
  BY <1>4, TxRequestInv
<1>5. CASE \E len \in Lens, power \in Powers, noise \in BOOLEAN : Arrive(len, power, noise)
  BY <1>5, ArriveInv
<1>6. CASE SwitchChannel
  BY <1>6, SwitchInv
<1> QED
  BY <1>1, <1>2, <1>3, <1>4, <1>5, <1>6 DEF Next

(* With an upper layer that waits for its callback to return, no handler of     *)
(* cc2420-fsm.cc reaches an NS_FATAL_ERROR and no running timer is scheduled     *)
(* again.                                                                        *)
THEOREM NeverFatal ==
  ASSUME ~Eager
  PROVE  Spec => []NoFatal
<1>1. Init => Inv
  BY InitInv
<1>2. Inv /\ [Next]_vars => Inv'
  BY NextInv
<1>3. Inv => NoFatal
  BY DEF Inv, Sound, NoFatal, Halted
<1> QED
  BY <1>1, <1>2, <1>3, PTL DEF Spec

(* Under the same assumption every state has exactly the timers that leave it. *)
THEOREM TimersAlwaysMatch ==
  ASSUME ~Eager
  PROVE  Spec => []TimersMatch
<1>1. Init => Inv
  BY InitInv
<1>2. Inv /\ [Next]_vars => Inv'
  BY NextInv
<1>3. Inv => TimersMatch
  BY DEF Inv, Sound, TimersMatch
<1> QED
  BY <1>1, <1>2, <1>3, PTL DEF Spec
=============================================================================
