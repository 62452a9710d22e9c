---------------------------- MODULE CC2420Props ----------------------------
(* What the transceiver's state machine promises, stated over CC2420FSM. *)
EXTENDS CC2420FSM, FiniteSets

States == {"RXCAL", "RXCALNOISE", "RX", "RXCCA", "RXHDR", "RXHDRCAP", "RXDATA", "RXDATACAP",
           "RXCOLL", "RXNOISE", "RXNOISECCA", "TXCAL", "TXCALNOISE", "TX", "TXNOISE"}

Packets == [left : Nat, power : Int, id : Int]

TimerSets ==
  [left : [Timers -> Nat \cup {Off}], before : SUBSET (Timers \X Timers), twice : BOOLEAN]

(* Every variable has the type of the member it stands for. *)
TypeOK ==
  /\ state \in States
  /\ timers \in TimerSets
  /\ {rxPkt, collPkt, txPkt} \subseteq Packets
  /\ {pin, failed} \subseteq BOOLEAN
  /\ sent \in Seq(Nat) /\ refused \subseteq Nat
  /\ air \in Nat /\ others \subseteq Powers
  /\ {arrivals, asked, switches} \subseteq Nat

(* No timer expires in a state that does not expect it and none is scheduled   *)
(* while it runs: the handlers' NS_FATAL_ERROR lines are never reached.         *)
NoFatal == ~Halted

(* The states the comments of cc2420-fsm.h call "air is idle", and busy ones.  *)
IdleAir == {"RXCAL", "RX", "RXCCA", "TXCAL", "TX"}

(* The state knows the medium: between two instants it is one of the idle      *)
(* states exactly when every packet that arrived has ended, whatever the        *)
(* packets overlapped with (cc2420-fsm.h:61-75).                                *)
MediumKnown == Due(timers) = {} => (state \in IdleAir <=> air = 0)

(* The states a timer, the end of a reception or the end of the noise leaves. *)
TimedStates == {"RXCAL", "RXCALNOISE", "RX", "RXNOISE", "RXHDR", "RXHDRCAP", "TXCAL", "TXCALNOISE"}
NoisyStates == {"RXCALNOISE", "RXNOISE", "RXHDRCAP", "RXNOISECCA", "RXDATACAP", "TXNOISE", "TXCALNOISE"}

Matches(s, tm) ==
  /\ Runs(tm, "state") <=> s \in TimedStates
  /\ Runs(tm, "rx") <=> s \in Receiving
  /\ Runs(tm, "tx") <=> s \in {"TX", "TXNOISE"}
  /\ s # "RXCOLL" => (Runs(tm, "coll") <=> s \in NoisyStates)

(* Every state has the timers that leave it, and no others: none outlives the  *)
(* state it was scheduled for (in RXCOLL the interferer may already have ended).*)
TimersMatch == Matches(state, timers)

(* Once its delay is over, the signal the upper layer has is the state's: true *)
(* in RXCCA, false while the receiver hears something.                          *)
PinAgrees ==
  ~Runs(timers, "cca") =>
    /\ state = "RXCCA" => pin
    /\ state \in Receiving \cup {"RXNOISECCA"} => ~pin

(* A packet that is still being received as a whole was at least 3 dBm louder  *)
(* than everything else that arrived meanwhile (cc2420-fsm.cc:901-903).         *)
DeliveredClean ==
  state \in Receiving \ {"RXCOLL"} => \A q \in others : q <= rxPkt.power - 3

(* A request whose failure was signalled is not transmitted all the same        *)
(* (cc2420-fsm.cc:700-709).                                                     *)
RefusedNotSent == \A i \in DOMAIN sent : sent[i] \notin refused

(* Whenever the medium is idle the upper layer is told so in the end, unless    *)
(* another packet arrives: no delayed, suppressed or overtaken signal leaves it *)
(* waiting for a free medium (cc2420-fsm.cc:150-155, 933-986).                  *)
FreeSignalled == air = 0 ~> (pin \/ air > 0)
=============================================================================
