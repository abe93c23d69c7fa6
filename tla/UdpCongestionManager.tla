------------------------ MODULE UdpCongestionManager ------------------------
(***************************************************************************)
(* The congestion manager of one udp address: packets wait in a queue and  *)
(* are sent while fewer packets are unconfirmed than the window allows.    *)
(* The window is the product of a rate and of an estimate of the roundtrip *)
(* latency; both are adapted at the end of a trial, when the counters of   *)
(* the trial are set back and the packets on their way are forgotten.      *)
(*                                                                         *)
(* A packet counts as one unit of size.  Rates are levels a factor of 1.2  *)
(* apart.  Time passes in ticks, and timers fire when they are due.        *)
(***************************************************************************)
EXTENDS Integers, Sequences, FiniteSets

CONSTANTS
  Packets,        \* the packets that are ever sent (internalId)
  TrialDuration,  \* #trialDurationMsec
  TimeoutFactor,  \* a packet times out after so many estimated roundtrips
  LatMin, LatMax, \* minEstLatency, maxEstLatency
  FirstLatency,   \* the first estimate of the latency
  MinSamples,     \* roundtrips needed for an estimate
  MinSent,        \* packets needed to adapt the rate
  TopLevel,       \* the highest rate (bounds the model)
  FirstLevel,     \* the first rate
  FloorLevel,     \* lowerBound
  Window(_, _),   \* packets allowed at a rate and a latency, rounded up
  MaxWindow       \* a bound of Window

ASSUME CongestionAssumption ==
  /\ IsFiniteSet(Packets)
  /\ {TrialDuration, TimeoutFactor, MinSamples, MinSent, MaxWindow}
       \subseteq Nat
  /\ {LatMin, LatMax, TopLevel, FirstLevel, FloorLevel} \subseteq Nat \ {0}
  /\ FirstLatency \in LatMin..LatMax
  /\ FirstLevel <= TopLevel /\ FloorLevel <= TopLevel
  \* 5 * 1000 msec, and trials of 5000 msec
  /\ \A l \in LatMin..LatMax : TimeoutFactor * l \in 0..TrialDuration
  /\ \A level \in 1..TopLevel, l \in LatMin..LatMax :
       Window(level, l) \in 1..MaxWindow

VARIABLES
  queue,     \* #queuedPackets
  status,    \* of each packet
  left,      \* ticks until the timer of a packet fires
  trial,     \* #currentTrialData
  latency,   \* #estimatedRoundtripLatencyMsec
  level      \* #maxNumBytesPerSecondToSend

congestionVars == <<queue, status, left, trial, latency, level>>

Outcomes == {"confirmed", "timedOut", "error"}

\* TrialData.reset
NewTrial ==
  [age |-> 0, ids |-> {}, sent |-> 0, confirmed |-> 0, timedOut |-> 0,
   error |-> 0, peak |-> 0]

CongestionInit ==
  /\ queue = << >>
  /\ status = [p \in Packets |-> "new"]
  /\ left = [p \in Packets |-> 0]
  /\ trial = NewTrial
  /\ latency = FirstLatency
  /\ level = FirstLevel

-----------------------------------------------------------------------------
(* TrialData.                                                              *)

\* computeNumUnconfirmedBytes
Unconfirmed(t) == t.sent - t.confirmed - t.timedOut - t.error

One(outcome, kind) == IF outcome = kind THEN 1 ELSE 0

\* mutant of Report: the packets of earlier trials are counted too
ReportAny(t, p, outcome) ==
  [t EXCEPT !.confirmed = @ + One(outcome, "confirmed"),
            !.timedOut = @ + One(outcome, "timedOut"),
            !.error = @ + One(outcome, "error")]

\* reportConfirmed, reportTimedOut, reportError
Report(t, p, outcome) ==
  IF p \in t.ids
  THEN [t EXCEPT !.confirmed = @ + One(outcome, "confirmed"),
                 !.timedOut = @ + One(outcome, "timedOut"),
                 !.error = @ + One(outcome, "error")]
  ELSE t

\* estimateRoundtripLatency: a mean of the median and the old estimate, which
\* may be any value within the bounds
Estimates(t) ==
  IF t.confirmed < MinSamples THEN {latency} ELSE LatMin..LatMax

\* determineMaxNumBytesPerSecondToSend; what is not confirmed counts as lost
NewLevel(t, lat) ==
  LET lost    == t.sent - t.confirmed
      limited == 10 * t.peak > 6 * Window(level, lat)
      adapted == IF 50 * lost < t.sent
                 THEN IF limited /\ level < TopLevel THEN level + 1 ELSE level
                 ELSE IF level > 1 THEN level - 1 ELSE level
  IN  IF t.sent < MinSent
      THEN level
      ELSE IF 5 * lost < t.sent /\ adapted < FloorLevel
           THEN FloorLevel
           ELSE adapted

-----------------------------------------------------------------------------
(* UdpCongestionManager.                                                   *)

\* mutant of Expired: a trial is as long as a tick
ExpiredEarly(t) == t.age > 0

\* the trial is over
Expired(t) == t.age > TrialDuration

\* _handleNextPackets with the trial t, the queue q and the packets' states:
\* a new trial if the time of t is over, then packets while there is room
HandleNextPackets(t, q, st, lf) ==
  LET base == IF Expired(t) THEN NewTrial ELSE t
      room == Window(level', latency') - Unconfirmed(base)
      n    == IF room <= 0 THEN 0 ELSE IF Len(q) < room THEN Len(q) ELSE room
      now  == {q[i] : i \in 1..n}
      u    == Unconfirmed(base) + n
  IN  /\ latency' \in IF Expired(t) THEN Estimates(t) ELSE {latency}
      /\ level' = IF Expired(t) THEN NewLevel(t, latency') ELSE level
      /\ queue' = SubSeq(q, n + 1, Len(q))
      /\ status' = [p \in Packets |-> IF p \in now THEN "sent" ELSE st[p]]
      /\ left' = [p \in Packets |->
                    IF p \in now THEN TimeoutFactor * latency' ELSE lf[p]]
      /\ trial' = [base EXCEPT
                     !.ids = @ \cup now, !.sent = @ + n,
                     !.peak = IF n > 0 /\ u > @ THEN u ELSE @]

\* sendPacket
SendPacket(p) ==
  /\ status[p] = "new"
  /\ HandleNextPackets(trial, Append(queue, p), [status EXCEPT ![p] = "queued"],
                       left)

\* mutant of Answered: the queue is left alone when a packet times out
AnsweredAlone(p, outcome) ==
  /\ status[p] = "sent"
  /\ IF outcome = "timedOut"
     THEN /\ trial' = Report(trial, p, outcome)
          /\ status' = [status EXCEPT ![p] = outcome]
          /\ left' = [left EXCEPT ![p] = 0]
          /\ UNCHANGED <<queue, latency, level>>
     ELSE HandleNextPackets(Report(trial, p, outcome), queue,
                            [status EXCEPT ![p] = outcome],
                            [left EXCEPT ![p] = 0])

\* _onConfirmed, _onTimedOut, _onError
Answered(p, outcome) ==
  /\ status[p] = "sent"
  /\ HandleNextPackets(Report(trial, p, outcome), queue,
                       [status EXCEPT ![p] = outcome], [left EXCEPT ![p] = 0])

TimedOut(p) == left[p] = 0 /\ Answered(p, "timedOut")

\* a confirmation, or an error of the socket, comes before the timer fires
Confirmed(p) == Answered(p, "confirmed")
Failed(p) == Answered(p, "error")

InFlight == {p \in Packets : status[p] = "sent"}

Tick ==
  /\ \A p \in InFlight : left[p] > 0
  /\ InFlight # {} \/ trial.age <= TrialDuration
  /\ left' = [p \in Packets |-> IF p \in InFlight THEN left[p] - 1 ELSE 0]
  /\ trial' = [trial EXCEPT !.age = IF @ <= TrialDuration THEN @ + 1 ELSE @]
  /\ UNCHANGED <<queue, status, latency, level>>

CongestionNext ==
  \/ \E p \in Packets : \/ SendPacket(p)
                        \/ Confirmed(p)
                        \/ TimedOut(p)
                        \/ Failed(p)
  \/ Tick

CongestionSpec == CongestionInit /\ [][CongestionNext]_congestionVars

\* time passes and timers fire
CongestionFairSpec ==
  /\ CongestionSpec
  /\ WF_congestionVars(Tick)
  /\ \A p \in Packets : WF_congestionVars(TimedOut(p))

-----------------------------------------------------------------------------
(* Type invariant of the module.                                           *)
CongestionTypeOK ==
  /\ queue \in Seq(Packets)
  /\ status \in [Packets -> {"new", "queued", "sent"} \cup Outcomes]
  /\ left \in [Packets -> 0..TrialDuration]
  /\ trial \in [age : 0..(TrialDuration + 1), ids : SUBSET Packets, sent : Nat,
                confirmed : Nat, timedOut : Nat, error : Nat, peak : Nat]
  /\ latency \in LatMin..LatMax
  /\ level \in 1..TopLevel

(* The counters of the trial agree with the packets: what is unconfirmed   *)
(* is what was sent in this trial and has no outcome, however late the     *)
(* outcomes of the trial before come in.                                   *)
CounterExact == Unconfirmed(trial) = Cardinality(InFlight \cap trial.ids)

(* Packets wait only while the window is full, so that an outcome is due   *)
(* which calls _handleNextPackets again: the queue is never stuck.         *)
NeverStuck ==
  queue # << >> => /\ Unconfirmed(trial) >= Window(level, latency)
                   /\ InFlight \cap trial.ids # {}

(* A packet that is forgotten at the end of a trial has its outcome before *)
(* the next trial ends: nothing is on its way for more than two trials.    *)
ForgottenOnce == trial.age > TrialDuration => InFlight \subseteq trial.ids

(* No more packets are on their way than one window of this trial and one  *)
(* of the trial before hold.                                               *)
InFlightBound ==
  /\ Cardinality(InFlight \cap trial.ids) <= MaxWindow
  /\ Cardinality(InFlight \ trial.ids) <= MaxWindow

(* All packets that are put in the queue get an outcome (the packets of    *)
(* the model are finite in number, so the queue drains).                   *)
EveryPacketAnswered ==
  (\E p \in Packets : status[p] \in {"queued", "sent"})
    ~> \A p \in Packets : status[p] \notin {"queued", "sent"}

=============================================================================
