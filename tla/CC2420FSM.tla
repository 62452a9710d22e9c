----------------------------- MODULE CC2420FSM -----------------------------
(***************************************************************************)
(* The state machine of the CC2420 transceiver (ns3::CC2420FSM): what one  *)
(* node's radio does with the packets its medium brings, the packets it is *)
(* asked to send and its five timers. Each handler is one action.          *)
(*                                                                         *)
(* Time advances in units of four symbols, only while no timer is due, so  *)
(* that timers of the same instant expire in the order they were scheduled *)
(* and the medium and the upper layer may act before, between or after.    *)
(*                                                                         *)
(* Definitions named ...Bug are not the code: each is a wrong version of   *)
(* the definition that follows it, kept to show what the properties see.   *)
(***************************************************************************)
EXTENDS Integers, Sequences

CONSTANTS
  Twelve,      \* m_TwelveSymbolTime, in time units
  Eight,       \* m_EightSymbolTime
  Header,      \* m_THEADER
  TxCal,       \* the transmitter's calibration: Twelve, or Eight (txTurnAround)
  Lens,        \* the durations of packets
  Powers,      \* the powers packets arrive with, in dBm
  CcaDelays,   \* what delayCCASignal may add; 0 signals at once
  Eager,       \* may the upper layer send from inside its receive callback?
  MaxArrivals, \* bound: packets the medium brings
  MaxRequests, \* bound: packets the upper layer asks to send
  MaxSwitches  \* bound: changes of the channel number

(* A packet outlasts its header; a CCA delay is at most eight symbols. *)
ASSUME FSMAssumption ==
  /\ {Twelve, Eight, Header} \subseteq Nat \ {0} /\ TxCal \in {Eight, Twelve}
  /\ Eight <= Twelve
  /\ Lens \subseteq Nat /\ \A n \in Lens : n > Header
  /\ Powers \subseteq Int
  /\ CcaDelays \subseteq 0 .. Eight
  /\ Eager \in BOOLEAN
  /\ {MaxArrivals, MaxRequests, MaxSwitches} \subseteq Nat

VARIABLES
  state,    \* m_fsmState
  timers,   \* the five timers: what is left of each, and which came first
  rxPkt,    \* m_rxPkt
  collPkt,  \* m_collPkt
  txPkt,    \* m_txPkt
  pin,      \* the last value NotifyCcaChange gave the upper layer
  failed,   \* has a handler called NS_FATAL_ERROR?
  sent,     \* the requests SendToChannel was called for
  refused,  \* the requests that failed
  air,      \* how long the packets that have arrived keep the medium busy
  others,   \* the powers that arrived since the reception in progress began
  arrivals, asked, switches  \* bounded counters

vars == <<state, timers, rxPkt, collPkt, txPkt, pin, failed, sent, refused, air,
          others, arrivals, asked, switches>>

Timers == {"state", "rx", "tx", "coll", "cca"}

-----------------------------------------------------------------------------
(* ns3::Timer: scheduling one that runs is a fatal error. before tells which of *)
(* two running timers was scheduled first.                                      *)
Off == -1

Runs(tm, t) == tm.left[t] # Off

Stop(tm, t) ==
  [tm EXCEPT !.left[t] = Off, !.before = {e \in @ : t \notin {e[1], e[2]}}]

Start(tm, t, d) ==
  [tm EXCEPT !.left[t] = d,
             !.before = @ \cup {u \in Timers : Runs(tm, u)} \X {t},
             !.twice = @ \/ Runs(tm, t)]

(* Calibrations, headers and transmissions that have begun are not begun again. *)
StartedBug(tm, t, d) == Start(tm, t, d)
Started(tm, t, d) == IF Runs(tm, t) THEN tm ELSE Start(tm, t, d)

Halted == failed \/ timers.twice

(* A packet with its remaining time, its power, and an id that stands for the   *)
(* pointer: from 0 on those of the requests, from -2 down those of the medium.  *)
Packet(len, power, n) == [left |-> len, power |-> power, id |-> n]
NoPkt == Packet(0, 0, -1)
OnAir(n) == 0 - 2 - n

(* remainingTime, getLongerPacket *)
LongerBug(p, q) == q
Longer(p, q) == IF p.left > q.left THEN p ELSE q

(* isCollision: three dBm more are enough to capture the receiver *)
IsCollisionBug(rx, p) == rx.power < p.power
IsCollision(rx, p) == rx.power - 3 < p.power

(* delayCCASignal: at once, when the delay of an earlier signal ends, or delayed *)
DelayCCASignal(cca, tm, rx) ==
  \/ /\ rx = NoPkt \/ (0 \in CcaDelays /\ ~Runs(tm, "cca"))
     /\ pin' = cca
     /\ timers' = tm
  \/ /\ rx # NoPkt /\ Runs(tm, "cca")
     /\ timers' = tm
     /\ UNCHANGED pin
  \/ /\ rx # NoPkt /\ ~Runs(tm, "cca")
     /\ \E d \in CcaDelays \ {0} : timers' = Start(tm, "cca", d)
     /\ UNCHANGED pin

(* The timers after entering state s with the packet tx to transmit. *)
EntryTimers(s, tm, tx) ==
  CASE s \in {"TXCAL", "TXCALNOISE"}        -> Started(tm, "state", TxCal)
    [] s \in {"RXCAL", "RXCALNOISE"}        -> Started(tm, "state", Twelve)
    [] s \in {"RX", "RXNOISE"}              -> Started(tm, "state", Eight)
    [] s = "RXHDR"                          -> Started(tm, "state", Header)
    [] s = "RXNOISECCA"                     -> Stop(tm, "state")
    [] s \in {"TX", "TXNOISE"} /\ tx # NoPkt -> Started(tm, "tx", tx.left)
    [] OTHER                                -> tm

(* The states whose entry signals CCA. *)
BusySignalBug == {"RXHDR", "RXNOISECCA"}
NoiseSignalBug == {"RXCCA", "RXHDR"}
Signalling == {"RXCCA", "RXHDR", "RXNOISECCA"}

(* m_txPkt is reset once it is on the channel. *)
TxPkt(s, tx) == IF s \in {"TX", "TXNOISE"} THEN NoPkt ELSE tx

(* enterState(s) while the timers, m_rxPkt and m_txPkt are tm, rx and tx *)
EnterState(s, tm, rx, tx) ==
  /\ state' = s
  /\ rxPkt' = rx
  /\ txPkt' = TxPkt(s, tx)
  /\ \/ /\ s \in Signalling
        /\ DelayCCASignal(s = "RXCCA", EntryTimers(s, tm, tx), rx)
     \/ /\ s \notin Signalling
        /\ timers' = EntryTimers(s, tm, tx)
        /\ UNCHANGED pin
  /\ sent' = IF s \in {"TX", "TXNOISE"} /\ tx # NoPkt THEN Append(sent, tx.id) ELSE sent

(* A handler that stays in its state *)
Stay(tm, rx, tx) ==
  /\ timers' = tm /\ rxPkt' = rx /\ txPkt' = tx
  /\ UNCHANGED <<state, pin, sent>>

(* A handler that finds itself in a state it does not expect *)
Fatal(tm) == failed' = TRUE /\ Stay(tm, rxPkt, txPkt)

Survives == UNCHANGED failed

Init ==
  /\ state = "RXCAL"
  /\ timers = Start([left |-> [t \in Timers |-> Off], before |-> {}, twice |-> FALSE],
                     "state", Twelve)
  /\ rxPkt = NoPkt /\ collPkt = NoPkt /\ txPkt = NoPkt
  /\ pin = FALSE /\ failed = FALSE
  /\ sent = <<>> /\ refused = {}
  /\ air = 0 /\ others = {}
  /\ arrivals = 0 /\ asked = 0 /\ switches = 0

-----------------------------------------------------------------------------
(* Timer t is the first of those that are due. *)
Due(tm) == {t \in Timers : tm.left[t] = 0}

Expires(t) ==
  /\ ~Halted
  /\ t \in Due(timers)
  /\ \A u \in Due(timers) : <<u, t>> \notin timers.before

history == <<refused, air, others, arrivals, asked, switches>>

StateTimerExpired ==
  /\ Expires("state")
  /\ LET tm == Stop(timers, "state") IN
     \/ /\ state \in {"RXCAL", "RXCALNOISE", "RX", "RXNOISE", "RXHDR", "RXHDRCAP",
                       "TXCAL", "TXCALNOISE"}
        /\ EnterState(CASE state = "RXCAL"      -> "RX"
                         [] state = "RXCALNOISE" -> "RXNOISE"
                         [] state = "RX"         -> "RXCCA"
                         [] state = "RXNOISE"    -> "RXNOISECCA"
                         [] state = "RXHDR"      -> "RXDATA"
                         [] state = "RXHDRCAP"   -> "RXDATACAP"
                         [] state = "TXCAL"      -> "TX"
                         [] state = "TXCALNOISE" -> "TXNOISE", tm, rxPkt, txPkt)
        /\ Survives
     \/ /\ state \in {"RXCCA", "RXDATA", "RXDATACAP", "RXCOLL", "RXNOISECCA", "TX", "TXNOISE"}
        /\ Fatal(tm)
  /\ UNCHANGED <<collPkt, history>>

TxTimerExpired ==
  /\ Expires("tx")
  /\ LET tm == Stop(timers, "tx") IN
     \/ /\ state \in {"TX", "TXNOISE"}
        /\ EnterState(IF state = "TX" THEN "RXCAL" ELSE "RXCALNOISE", tm, rxPkt, txPkt)
        /\ Survives
     \/ /\ state \notin {"TX", "TXNOISE"}
        /\ Fatal(tm)
  /\ UNCHANGED <<collPkt, history>>

CollTimerExpired ==
  /\ Expires("coll")
  /\ LET tm == Stop(timers, "coll") IN
     \/ /\ state \in {"RXCALNOISE", "RXNOISE", "RXHDRCAP", "RXNOISECCA", "RXDATACAP",
                       "TXNOISE", "TXCALNOISE"}
        /\ EnterState(CASE state = "RXCALNOISE" -> "RXCAL"
                         [] state = "RXNOISE"    -> "RX"
                         [] state = "RXHDRCAP"   -> "RXHDR"
                         [] state = "RXNOISECCA" -> "RXCCA"
                         [] state = "RXDATACAP"  -> "RXDATA"
                         [] state = "TXNOISE"    -> "TX"
                         [] state = "TXCALNOISE" -> "TXCAL", tm, rxPkt, txPkt)
        /\ Survives
     \/ /\ state = "RXCOLL"
        /\ Stay(tm, rxPkt, txPkt)
        /\ Survives
     \/ /\ state \in {"RXCAL", "RX", "RXCCA", "RXHDR", "RXDATA", "TXCAL", "TX"}
        /\ Fatal(tm)
  /\ UNCHANGED <<collPkt, history>>

(* In the calibration of the transmitter the signal is suppressed. *)
CcaTimerExpired ==
  /\ Expires("cca")
  /\ LET tm == Stop(timers, "cca") IN
     \/ /\ state \in {"RXCALNOISE", "RXHDR", "RXHDRCAP", "RXDATA", "RXDATACAP",
                       "RXNOISECCA", "RXCOLL", "RXCAL", "RXCCA"}
        /\ pin' = (state \in {"RXCAL", "RXCCA"})
        /\ timers' = tm
        /\ UNCHANGED <<state, rxPkt, txPkt, sent>>
        /\ Survives
     \/ /\ state \in {"TXCAL", "TXCALNOISE"}
        /\ Stay(tm, rxPkt, txPkt)
        /\ Survives
     \/ /\ state \in {"RX", "RXNOISE", "TX", "TXNOISE"}
        /\ Fatal(tm)
  /\ UNCHANGED <<collPkt, history>>

-----------------------------------------------------------------------------
Transmitting == {"TXCAL", "TX", "TXCALNOISE", "TXNOISE"}
Receiving    == {"RXHDR", "RXHDRCAP", "RXDATA", "RXDATACAP", "RXCOLL"}

(* The packet a granted request leaves behind as noise. *)
NoiseLeft ==
  CASE state \in {"RXHDR", "RXDATA"}                -> rxPkt
    [] state \in {"RXHDRCAP", "RXDATACAP", "RXCOLL"} -> Longer(collPkt, rxPkt)
    [] OTHER                                        -> collPkt

(* The timers when a granted request enters TXCAL or TXCALNOISE. *)
TurnedAroundBug(tm) ==
  LET calm == Stop(tm, "state") IN
  IF state \in Receiving THEN Start(Stop(calm, "coll"), "coll", NoiseLeft.left) ELSE calm

TurnedAround(tm) ==
  LET calm == Stop(tm, "state") IN
  IF state \in Receiving
    THEN Start(Stop(Stop(calm, "rx"), "coll"), "coll", NoiseLeft.left)
    ELSE calm

(* The states in which the medium makes txRequest fail, if it is to check. *)
CarrierSensed == Receiving \cup {"RXCALNOISE", "RXNOISE", "RXNOISECCA"}

Grants(cca) == state \notin Transmitting /\ ~(cca /\ state \in CarrierSensed)

(* m_rxPkt after a granted request: reset when the longer packet is m_collPkt, which *)
(* after a collision may be m_rxPkt itself.                                          *)
Abandoned ==
  IF state \in {"RXHDRCAP", "RXDATACAP", "RXCOLL"} /\ Longer(collPkt, rxPkt) = collPkt
    THEN NoPkt ELSE rxPkt

(* txRequest stores the packet before it looks at the state. *)
TxRequest(len, cca) ==
  /\ ~Halted
  /\ asked < MaxRequests /\ asked' = asked + 1
  /\ LET tx == Packet(len, 0, asked) IN
     \/ /\ Grants(cca)
        /\ EnterState(IF state \in {"RXCAL", "RX", "RXCCA"} THEN "TXCAL" ELSE "TXCALNOISE",
                      TurnedAround(timers), Abandoned, tx)
        /\ collPkt' = NoiseLeft
        /\ UNCHANGED refused
     \/ /\ ~Grants(cca)
        /\ Stay(timers, rxPkt, tx)
        /\ refused' = refused \cup {asked}
        /\ UNCHANGED collPkt
  /\ Survives
  /\ UNCHANGED <<air, others, arrivals, switches>>

(* The received packet goes up, then the state changes. The upper layer may    *)
(* answer from inside its callback, which a collided packet does not reach;     *)
(* the state entered last is the receiver's.                                    *)
Received(tm, rx, tx) ==
  EnterState(IF state # "RXDATA" /\ Runs(tm, "coll") THEN "RXNOISECCA" ELSE "RXCCA", tm, rx, tx)

RxTimerExpired ==
  /\ Expires("rx")
  /\ LET tm == Stop(timers, "rx")
         ready == state \in {"RXDATA", "RXDATACAP", "RXCOLL"} IN
     \/ /\ ready
        /\ Received(tm, rxPkt, txPkt)
        /\ Survives
        /\ UNCHANGED <<collPkt, refused, asked>>
     \/ /\ ready /\ Eager /\ state # "RXCOLL"
        /\ asked < MaxRequests /\ asked' = asked + 1
        /\ \E len \in Lens, cca \in BOOLEAN :
             LET tx == Packet(len, 0, asked) IN
             \/ /\ Grants(cca)
                /\ Received(EntryTimers("TXCALNOISE", TurnedAround(tm), tx), Abandoned, tx)
                /\ collPkt' = NoiseLeft
                /\ UNCHANGED refused
             \/ /\ ~Grants(cca)
                /\ Received(tm, rxPkt, tx)
                /\ refused' = refused \cup {asked}
                /\ UNCHANGED collPkt
        /\ Survives
     \/ /\ ~ready
        /\ Fatal(tm)
        /\ UNCHANGED <<collPkt, refused, asked>>
  /\ UNCHANGED <<air, others, arrivals, switches>>

-----------------------------------------------------------------------------
(* capture and collision both track what keeps the medium busy longest. *)
Noise(p) ==
  LET heard == IF state \in Receiving \ {"RXCOLL"} /\ IsCollision(rxPkt, p)
                 THEN Longer(rxPkt, p) ELSE p
  IN IF state \in {"RXHDRCAP", "RXDATACAP", "RXCOLL", "RXCALNOISE", "RXNOISE", "RXNOISECCA",
                   "TXNOISE", "TXCALNOISE"}
       THEN Longer(collPkt, heard) ELSE heard

(* The timers while p is tracked; in RXCAL, RX, TXCAL and TX the code expects *)
(* the timer not to run.                                                       *)
Tracking(p) ==
  IF state \in {"RXCAL", "RX", "TXCAL", "TX"}
    THEN Start(timers, "coll", p.left)
    ELSE Start(Stop(timers, "coll"), "coll", Noise(p).left)

(* rxFromMedium: a noise packet lacks its header or has another sync word. *)
RxFromMedium(p, noise) ==
  \/ /\ state = "RXCCA" /\ ~noise
     /\ EnterState("RXHDR", Start(timers, "rx", p.left), p, txPkt)
     /\ UNCHANGED collPkt
  \/ /\ state = "RXCCA" /\ noise
     /\ collPkt' = p
     /\ EnterState("RXNOISECCA", Tracking(p), rxPkt, txPkt)
  \/ /\ state \in {"RXCAL", "RX", "TXCAL", "TX"}
     /\ collPkt' = p
     /\ EnterState(CASE state = "RXCAL" -> "RXCALNOISE"
                      [] state = "RX"    -> "RXNOISE"
                      [] state = "TXCAL" -> "TXCALNOISE"
                      [] state = "TX"    -> "TXNOISE", Tracking(p), rxPkt, txPkt)
  \/ /\ state \in {"RXHDR", "RXHDRCAP"} /\ IsCollision(rxPkt, p)
     /\ collPkt' = Noise(p)
     /\ EnterState("RXNOISECCA", Stop(Tracking(p), "rx"), NoPkt, txPkt)
  \/ /\ state \in {"RXDATA", "RXDATACAP"} /\ IsCollision(rxPkt, p)
     /\ collPkt' = Noise(p)
     /\ EnterState("RXCOLL", Tracking(p), rxPkt, txPkt)
  \/ /\ state \in {"RXHDR", "RXDATA"} /\ ~IsCollision(rxPkt, p)
     /\ collPkt' = p
     /\ EnterState(IF state = "RXHDR" THEN "RXHDRCAP" ELSE "RXDATACAP",
                   Tracking(p), rxPkt, txPkt)
  \/ /\ \/ state \in {"RXHDRCAP", "RXDATACAP"} /\ ~IsCollision(rxPkt, p)
        \/ state \in {"RXCOLL", "RXCALNOISE", "RXNOISE", "RXNOISECCA", "TXNOISE", "TXCALNOISE"}
     /\ collPkt' = Noise(p)
     /\ Stay(Tracking(p), rxPkt, txPkt)

Arrive(len, power, noise) ==
  /\ ~Halted
  /\ arrivals < MaxArrivals /\ arrivals' = arrivals + 1
  /\ RxFromMedium(Packet(len, power, OnAir(arrivals)), noise)
  /\ air' = IF len > air THEN len ELSE air
  /\ others' = IF state = "RXCCA" THEN {} ELSE others \cup {power}
  /\ Survives
  /\ UNCHANGED <<refused, asked, switches>>

(* CC2420Phy::ChangeChannelNumber: reset(true). What is in flight on the new   *)
(* channel arrives through Arrive.                                              *)
SwitchChannel ==
  /\ ~Halted
  /\ switches < MaxSwitches /\ switches' = switches + 1
  /\ collPkt' = NoPkt
  /\ EnterState("RXCAL", Stop(Stop(Stop(Stop(Stop(timers, "tx"), "cca"), "state"), "coll"), "rx"),
                NoPkt, NoPkt)
  /\ air' = 0
  /\ Survives
  /\ UNCHANGED <<refused, others, arrivals, asked>>

(* One time unit passes; a remaining time below zero is as good as zero. *)
LessBug(n) == n - 1
Less(n) == IF n > 0 THEN n - 1 ELSE n

Elapse ==
  /\ ~Halted /\ Due(timers) = {}
  /\ timers' = [timers EXCEPT !.left = [t \in Timers |-> Less(@[t])]]
  /\ rxPkt' = [rxPkt EXCEPT !.left = Less(@)]
  /\ collPkt' = [collPkt EXCEPT !.left = Less(@)]
  /\ air' = Less(air)
  /\ UNCHANGED <<state, txPkt, pin, failed, sent, refused, others, arrivals, asked, switches>>

-----------------------------------------------------------------------------
TimerExpires ==
  StateTimerExpired \/ TxTimerExpired \/ RxTimerExpired \/ CollTimerExpired \/ CcaTimerExpired

Next ==
  \/ TimerExpires
  \/ Elapse
  \/ \E len \in Lens, cca \in BOOLEAN : TxRequest(len, cca)
  \/ \E len \in Lens, power \in Powers, noise \in BOOLEAN : Arrive(len, power, noise)
  \/ SwitchChannel

Spec == Init /\ [][Next]_vars

(* The simulator runs every event: timers expire and time goes on. *)
FairSpec == Spec /\ WF_vars(TimerExpires) /\ WF_vars(Elapse)
=============================================================================
