----------------------------- MODULE Udp_proofs -----------------------------
(***************************************************************************)
(* The packets over udp: the accounting of the congestion manager, for any *)
(* set of packets, any window and any timing within the assumptions of the *)
(* module; and a request, for messages of any number of packets: handled   *)
(* at most once, and an implementation of RemoteCall.  The two components  *)
(* have no variable in common.                                             *)
(***************************************************************************)
EXTENDS UdpCongestionManager, UdpRequest, FiniteSetTheorems, SequenceTheorems,
        TLAPS

-----------------------------------------------------------------------------
(***************************************************************************)
(* UdpCongestionManager.                                                   *)
(***************************************************************************)

Sent(st) == {p \in Packets : st[p] = "sent"}

TrialSet == [age : 0..(TrialDuration + 1), ids : SUBSET Packets, sent : Nat,
             confirmed : Nat, timedOut : Nat, error : Nat, peak : Nat]

Types(t, q, st, lf) ==
  /\ q \in Seq(Packets)
  /\ st \in [Packets -> {"new", "queued", "sent"} \cup Outcomes]
  /\ lf \in [Packets -> 0..TrialDuration]
  /\ t \in TrialSet

(* The queue holds the packets that wait, each once.                       *)
QueueOK(q, st) ==
  /\ \A i \in 1..Len(q) : st[q[i]] = "queued"
  /\ \A i, j \in 1..Len(q) : q[i] = q[j] => i = j

(* The counters of the trial count its packets that are on their way, and  *)
(* are within the window.                                                  *)
CountOK(t, st) ==
  /\ Unconfirmed(t) = Cardinality(Sent(st) \cap t.ids)
  /\ Unconfirmed(t) <= Window(level, latency)

(* The packets of the trial before are at most a window, and their timers  *)
(* fire before this trial is over.                                         *)
OldOK(t, st, lf) ==
  /\ \A p \in Sent(st) \ t.ids : lf[p] + t.age <= TrialDuration
  /\ Cardinality(Sent(st) \ t.ids) <= MaxWindow

(* What holds before _handleNextPackets, whatever has just happened.       *)
Accounts(t, q, st, lf) ==
  /\ Types(t, q, st, lf)
  /\ QueueOK(q, st)
  /\ CountOK(t, st)
  /\ OldOK(t, st, lf)
  /\ latency \in LatMin..LatMax
  /\ level \in 1..TopLevel

Full == queue # << >> => Unconfirmed(trial) >= Window(level, latency)

(* The inductive invariant.                                                *)
CongestionInv == Accounts(trial, queue, status, left) /\ Full

-----------------------------------------------------------------------------
LEMMA PacketsFinite ==
  ASSUME NEW S \in SUBSET Packets
  PROVE  IsFiniteSet(S) /\ Cardinality(S) \in Nat
BY CongestionAssumption, FS_Subset, FS_CardinalityType

LEMMA WindowType ==
  ASSUME NEW lv \in 1..TopLevel, NEW lat \in LatMin..LatMax
  PROVE  /\ Window(lv, lat) \in Nat \ {0}
         /\ Window(lv, lat) <= MaxWindow
         /\ TimeoutFactor * lat \in 0..TrialDuration
BY CongestionAssumption

(* The first n packets of the queue are n packets.                         *)
LEMMA FirstPackets ==
  ASSUME NEW q \in Seq(Packets), NEW n \in 0..Len(q),
         \A i, j \in 1..Len(q) : q[i] = q[j] => i = j
  PROVE  Cardinality({q[i] : i \in 1..n}) = n
<1> DEFINE S == {q[i] : i \in 1..n}
           f == [i \in 1..n |-> q[i]]
<1>1. Len(q) \in Nat /\ n \in Nat /\ \A i \in 1..n : i \in 1..Len(q)
  OBVIOUS
<1>2. f \in Injection(1..n, S)
  BY <1>1 DEF Injection, IsInjective
<1>3. f \in Surjection(1..n, S)
  BY DEF Surjection
<1>4. ExistsBijection(1..n, S)
  BY <1>2, <1>3 DEF ExistsBijection, Bijection
<1>5. IsFiniteSet(1..n) /\ Cardinality(1..n) = n
  BY <1>1, FS_Interval
<1> QED
  BY <1>4, <1>5, FS_Bijection

LEMMA NewTrialType ==
  NewTrial \in TrialSet /\ Unconfirmed(NewTrial) = 0 /\ NewTrial.ids = {}
  /\ NewTrial.age = 0
BY CongestionAssumption DEF NewTrial, TrialSet, Unconfirmed

LEMMA LevelType ==
  ASSUME NEW t \in TrialSet, NEW lat \in LatMin..LatMax, level \in 1..TopLevel
  PROVE  NewLevel(t, lat) \in 1..TopLevel
BY CongestionAssumption DEF NewLevel

-----------------------------------------------------------------------------
(* _handleNextPackets keeps the accounts, and leaves no packet waiting     *)
(* while there is room.                                                    *)
LEMMA HandleNextPacketsKeeps ==
  ASSUME NEW t, NEW q, NEW st, NEW lf,
         Accounts(t, q, st, lf), HandleNextPackets(t, q, st, lf)
  PROVE  CongestionInv'
<1> DEFINE base == IF Expired(t) THEN NewTrial ELSE t
           room == Window(level', latency') - Unconfirmed(base)
           n == IF room <= 0 THEN 0 ELSE IF Len(q) < room THEN Len(q) ELSE room
           now == {q[i] : i \in 1..n}
           u == Unconfirmed(base) + n
<1> USE DEF Accounts
<1>1. Types(t, q, st, lf) /\ QueueOK(q, st) /\ CountOK(t, st) /\ OldOK(t, st, lf)
  OBVIOUS
<1>2. /\ q \in Seq(Packets) /\ Len(q) \in Nat
      /\ \A i \in 1..Len(q) : q[i] \in Packets
      /\ st \in [Packets -> {"new", "queued", "sent"} \cup Outcomes]
      /\ lf \in [Packets -> 0..TrialDuration]
      /\ t \in TrialSet
      /\ TrialDuration \in Nat
  <2>1. /\ q \in Seq(Packets)
        /\ st \in [Packets -> {"new", "queued", "sent"} \cup Outcomes]
        /\ lf \in [Packets -> 0..TrialDuration]
        /\ t \in TrialSet
    BY <1>1 DEF Types
  <2>2. Len(q) \in Nat /\ \A i \in 1..Len(q) : q[i] \in Packets
    BY <2>1
  <2>3. TrialDuration \in Nat
    BY CongestionAssumption
  <2> QED
    BY <2>1, <2>2, <2>3
<1>3. latency' \in LatMin..LatMax
  BY DEF HandleNextPackets, Estimates
<1>4. level' \in 1..TopLevel
  BY <1>2, <1>3, LevelType DEF HandleNextPackets
<1>5. /\ Window(level', latency') \in Nat \ {0}
      /\ Window(level', latency') <= MaxWindow
      /\ TimeoutFactor * latency' \in 0..TrialDuration
      /\ MaxWindow \in Nat
  BY <1>3, <1>4, WindowType, CongestionAssumption
<1>6. base \in TrialSet /\ Unconfirmed(base) \in Int
  <2>1. base \in TrialSet
    BY <1>2, NewTrialType
  <2> HIDE DEF base
  <2> QED
    BY <2>1 DEF TrialSet, Unconfirmed
<1> DEFINE S == Sent(st)
<1>7. S \in SUBSET Packets
  BY DEF Sent
<1>8. /\ Unconfirmed(base) = Cardinality(S \cap base.ids)
      /\ Unconfirmed(base) <= Window(level', latency')
      /\ \A p \in S \ base.ids : lf[p] + base.age <= TrialDuration
      /\ Cardinality(S \ base.ids) <= MaxWindow
  <2>1. CASE ~Expired(t)
    <3>1. base = t /\ latency' = latency /\ level' = level
      BY <2>1 DEF HandleNextPackets
    <3> QED
      BY <1>1, <3>1 DEF CountOK, OldOK
  <2>2. CASE Expired(t)
    <3>1. base = NewTrial /\ base.ids = {} /\ base.age = 0 /\ Unconfirmed(base) = 0
      BY <2>2, NewTrialType
    <3>2. t.age > TrialDuration /\ t.age \in Int
      BY <1>2, <2>2 DEF Expired, TrialSet
    <3>3. S \subseteq t.ids
      <4> SUFFICES ASSUME NEW p \in S \ t.ids PROVE FALSE
        OBVIOUS
      <4>1. lf[p] \in Nat /\ lf[p] + t.age <= TrialDuration
        BY <1>1, <1>2, <1>7 DEF OldOK
      <4> QED
        BY <1>2, <3>2, <4>1
    <3>4. S \cap base.ids = {} /\ S \ base.ids = S /\ S \cap t.ids = S
      BY <3>1, <3>3
    <3>5. Cardinality(S) <= Window(level, latency)
      BY <1>1, <3>4 DEF CountOK
    <3>6. Window(level, latency) <= MaxWindow /\ Window(level, latency) \in Nat
      BY WindowType
    <3>7. Cardinality(S) \in Nat
      BY <1>7, PacketsFinite
    <3>8. \A p \in S : lf[p] + 0 <= TrialDuration
      BY <1>2, <1>7
    <3> QED
      BY <1>5, <3>1, <3>4, <3>5, <3>6, <3>7, <3>8, FS_EmptySet
  <2> QED
    BY <2>1, <2>2
<1>9. n \in 0..Len(q) /\ n <= room /\ room \in Nat
  BY <1>2, <1>5, <1>6, <1>8
<1>10. now \in SUBSET Packets /\ \A p \in now : st[p] = "queued"
  BY <1>1, <1>2, <1>9 DEF QueueOK
<1>11. Cardinality(now) = n
  BY <1>1, <1>2, <1>9, FirstPackets DEF QueueOK
<1>12. /\ queue' = SubSeq(q, n + 1, Len(q))
       /\ status' = [p \in Packets |-> IF p \in now THEN "sent" ELSE st[p]]
       /\ left' = [p \in Packets |->
                     IF p \in now THEN TimeoutFactor * latency' ELSE lf[p]]
       /\ trial' = [base EXCEPT !.ids = @ \cup now, !.sent = @ + n,
                                !.peak = IF n > 0 /\ u > @ THEN u ELSE @]
  BY DEF HandleNextPackets
<1>13. /\ trial'.ids = base.ids \cup now /\ trial'.sent = base.sent + n
       /\ trial'.age = base.age /\ trial'.confirmed = base.confirmed
       /\ trial'.timedOut = base.timedOut /\ trial'.error = base.error
  BY <1>6, <1>12 DEF TrialSet
<1>14. Sent(status') = S \cup now
  BY <1>10, <1>12 DEF Sent
<1>15. S \cap now = {}
  BY <1>10 DEF Sent
<1>16. /\ queue' \in Seq(Packets)
       /\ Len(queue') = Len(q) - n
       /\ \A i \in 1..Len(queue') : queue'[i] = q[n + i]
  <2>1. \A i \in (n + 1)..Len(q) : q[i] \in Packets
    BY <1>2, <1>9
  <2>2. n + 1 \in Int /\ Len(q) \in Int
    BY <1>2, <1>9
  <2>3. /\ queue' \in Seq(Packets)
        /\ Len(queue') = IF n + 1 <= Len(q) THEN Len(q) - (n + 1) + 1 ELSE 0
        /\ \A i \in 1..(Len(q) - (n + 1) + 1) : queue'[i] = q[n + 1 + i - 1]
    BY <1>12, <2>1, <2>2, SubSeqProperties
  <2> HIDE DEF n
  <2>4. n \in Nat
    BY <1>2, <1>9
  <2>5. Len(q) - (n + 1) + 1 = Len(q) - n /\ n + 1 \in Nat
    BY <1>2, <2>4
  <2>6. Len(queue') = Len(q) - n
    BY <1>2, <1>9, <2>3, <2>4
  <2>7. ASSUME NEW i \in 1..Len(queue') PROVE queue'[i] = q[n + i]
    <3>1. n + 1 + i - 1 = n + i
      BY <2>4
    <3> QED
      BY <2>3, <2>5, <2>6, <3>1
  <2> QED
    BY <2>3, <2>6, <2>7
<1> HIDE DEF base, n, now, u, room, S
<1>17. Types(trial, queue, status, left)'
  <2>1. status' \in [Packets -> {"new", "queued", "sent"} \cup Outcomes]
    BY <1>2, <1>12
  <2>2. left' \in [Packets -> 0..TrialDuration]
    BY <1>2, <1>5, <1>12
  <2>3. trial' \in TrialSet
    <3>1. u \in Int /\ n \in Nat
      BY <1>2, <1>6, <1>9 DEF u
    <3>2. u > base.peak => u \in Nat
      BY <1>6, <3>1 DEF TrialSet
    <3>3. base.ids \cup now \in SUBSET Packets /\ base.sent + n \in Nat
      BY <1>6, <1>10, <3>1 DEF TrialSet
    <3> QED
      BY <1>6, <1>12, <3>1, <3>2, <3>3 DEF TrialSet
  <2> QED
    BY <1>16, <2>1, <2>2, <2>3 DEF Types
<1>18. QueueOK(queue, status)'
  <2>1. ASSUME NEW i \in 1..Len(queue')
        PROVE  status'[queue'[i]] = "queued"
    <3>1. queue'[i] = q[n + i] /\ n + i \in 1..Len(q) /\ ~(n + i \in 1..n)
      BY <1>2, <1>9, <1>16
    <3>2. q[n + i] \notin now
      <4> SUFFICES ASSUME NEW k \in 1..n, q[k] = q[n + i] PROVE FALSE
        BY DEF now
      <4>1. k \in 1..Len(q)
        BY <1>2, <1>9
      <4>2. k = n + i
        BY <1>1, <3>1, <4>1 DEF QueueOK
      <4> QED
        BY <3>1, <4>2
    <3> QED
      BY <1>1, <1>2, <1>12, <3>1, <3>2 DEF QueueOK
  <2>2. ASSUME NEW i \in 1..Len(queue'), NEW j \in 1..Len(queue'),
               queue'[i] = queue'[j]
        PROVE  i = j
    <3>a. n \in Nat /\ Len(queue') = Len(q) - n /\ i \in Nat /\ j \in Nat
      BY <1>2, <1>9, <1>16
    <3>b. n + i \in 1..Len(q) /\ n + j \in 1..Len(q)
      BY <1>2, <3>a
    <3>c. q[n + i] = q[n + j]
      BY <1>16, <2>2
    <3>1. n + i \in 1..Len(q) /\ n + j \in 1..Len(q) /\ q[n + i] = q[n + j]
      BY <3>b, <3>c
    <3>2. n + i = n + j
      BY <1>1, <3>1 DEF QueueOK
    <3> QED
      BY <1>2, <1>9, <1>16, <3>2
  <2> QED
    BY <2>1, <2>2 DEF QueueOK
<1>19. Unconfirmed(trial') = Unconfirmed(base) + n
  BY <1>6, <1>9, <1>13 DEF Unconfirmed, TrialSet
<1>20. CountOK(trial, status)'
  <2>1. Sent(status') \cap trial'.ids = (S \cap base.ids) \cup now
    BY <1>13, <1>14
  <2>2. (S \cap base.ids) \cap now = {}
    BY <1>15
  <2>3. /\ IsFiniteSet(S \cap base.ids) /\ IsFiniteSet(now)
        /\ Cardinality(S \cap base.ids) \in Nat
    BY <1>7, <1>10, PacketsFinite
  <2>4. Cardinality((S \cap base.ids) \cup now)
          = Cardinality(S \cap base.ids) + n
    <3>1. Cardinality((S \cap base.ids) \cup now)
            = Cardinality(S \cap base.ids) + Cardinality(now)
                - Cardinality((S \cap base.ids) \cap now)
      BY <2>3, FS_Union
    <3>2. Cardinality((S \cap base.ids) \cap now) = 0
      BY <2>2, FS_EmptySet
    <3>3. n \in Int
      BY <1>9
    <3> QED
      BY <1>11, <2>3, <3>1, <3>2, <3>3
  <2>5. Unconfirmed(trial') <= Window(level', latency')
    BY <1>5, <1>6, <1>9, <1>19 DEF room
  <2> QED
    BY <1>8, <1>19, <2>1, <2>4, <2>5 DEF CountOK
<1>21. OldOK(trial, status, left)'
  <2>1. Sent(status') \ trial'.ids = (S \ base.ids) \ now
    BY <1>13, <1>14
  <2>2. (S \ base.ids) \ now = S \ base.ids
    BY <1>15
  <2>3. \A p \in S \ base.ids : left'[p] = lf[p]
    BY <1>7, <1>12, <1>15
  <2> QED
    BY <1>8, <1>13, <2>1, <2>2, <2>3 DEF OldOK
<1>22. Full'
  <2> SUFFICES ASSUME queue' # << >>
               PROVE  Unconfirmed(trial') >= Window(level', latency')
    BY DEF Full
  <2>1. Len(queue') # 0
    BY <1>16, EmptySeq
  <2>2. n # Len(q)
    BY <1>2, <1>9, <1>16, <2>1
  <2>3. n = room
    BY <1>2, <1>9, <2>2 DEF n
  <2> QED
    BY <1>5, <1>6, <1>19, <2>3 DEF room
<1> QED
  BY <1>3, <1>4, <1>17, <1>18, <1>20, <1>21, <1>22 DEF CongestionInv

(* The outcome of a packet is taken out of its trial, if that still runs.  *)
LEMMA ReportKeeps ==
  ASSUME CongestionInv, NEW p \in Packets, status[p] = "sent",
         NEW outcome \in Outcomes
  PROVE  Accounts(Report(trial, p, outcome), queue,
                  [status EXCEPT ![p] = outcome], [left EXCEPT ![p] = 0])
<1> DEFINE t == Report(trial, p, outcome)
           st == [status EXCEPT ![p] = outcome]
           lf == [left EXCEPT ![p] = 0]
           S == Sent(status)
<1>1. /\ Types(trial, queue, status, left) /\ QueueOK(queue, status)
      /\ CountOK(trial, status) /\ OldOK(trial, status, left)
      /\ latency \in LatMin..LatMax /\ level \in 1..TopLevel
  BY DEF CongestionInv, Accounts
<1>2. outcome \notin {"new", "queued", "sent"}
  BY DEF Outcomes
<1>3. /\ status \in [Packets -> {"new", "queued", "sent"} \cup Outcomes]
      /\ left \in [Packets -> 0..TrialDuration]
      /\ queue \in Seq(Packets) /\ trial \in TrialSet
  BY <1>1 DEF Types
<1>4. Sent(st) = S \ {p} /\ p \in S /\ S \in SUBSET Packets
  BY <1>2, <1>3 DEF Sent
<1>5. ASSUME p \in trial.ids
      PROVE  t \in TrialSet /\ CountOK(t, st) /\ OldOK(t, st, lf)
  <2>1. /\ t \in TrialSet /\ t.ids = trial.ids /\ t.age = trial.age
        /\ Unconfirmed(t) = Unconfirmed(trial) - 1
    <3> DEFINE c1 == trial.confirmed + One(outcome, "confirmed")
               c2 == trial.timedOut + One(outcome, "timedOut")
               c3 == trial.error + One(outcome, "error")
    <3>1. t = [trial EXCEPT !.confirmed = c1, !.timedOut = c2, !.error = c3]
      BY <1>5 DEF Report
    <3>2. /\ trial.sent \in Int /\ trial.confirmed \in Nat
          /\ trial.timedOut \in Nat /\ trial.error \in Nat
      BY <1>3 DEF TrialSet
    <3>3. /\ c1 \in Nat /\ c2 \in Nat /\ c3 \in Nat
          /\ c1 + c2 + c3
               = trial.confirmed + trial.timedOut + trial.error + 1
      BY <3>2 DEF One, Outcomes
    <3> HIDE DEF c1, c2, c3, t
    <3>4. t \in TrialSet
      BY <1>3, <3>1, <3>3 DEF TrialSet
    <3>5. /\ t.ids = trial.ids /\ t.age = trial.age /\ t.sent = trial.sent
          /\ t.confirmed = c1 /\ t.timedOut = c2 /\ t.error = c3
      BY <1>3, <3>1 DEF TrialSet
    <3> QED
      BY <3>2, <3>3, <3>4, <3>5 DEF Unconfirmed
  <2>2. Sent(st) \cap t.ids = (S \cap trial.ids) \ {p}
    BY <1>4, <2>1
  <2>3. Sent(st) \ t.ids = S \ trial.ids
    BY <1>4, <1>5, <2>1
  <2>4. Cardinality((S \cap trial.ids) \ {p}) = Cardinality(S \cap trial.ids) - 1
    BY <1>4, <1>5, PacketsFinite, FS_RemoveElement
  <2>5. /\ Unconfirmed(trial) = Cardinality(S \cap trial.ids)
        /\ Unconfirmed(trial) <= Window(level, latency)
        /\ Window(level, latency) \in Nat
        /\ Unconfirmed(trial) \in Int
    BY <1>1, <1>3, WindowType DEF CountOK, TrialSet, Unconfirmed
  <2> HIDE DEF t, st, S
  <2>6. CountOK(t, st)
    <3>1. Unconfirmed(t) = Cardinality(S \cap trial.ids) - 1
      BY <2>1, <2>5
    <3>2. Unconfirmed(t) = Cardinality(Sent(st) \cap t.ids)
      BY <2>2, <2>4, <3>1
    <3>3. Unconfirmed(t) <= Window(level, latency)
      BY <2>1, <2>5
    <3> QED
      BY <3>2, <3>3 DEF CountOK
  <2>7. \A x \in S \ trial.ids : lf[x] = left[x]
    BY <1>3, <1>4, <1>5
  <2>8. OldOK(t, st, lf)
    BY <1>1, <2>1, <2>3, <2>7 DEF OldOK, S
  <2> QED
    BY <2>1, <2>6, <2>8
<1>6. ASSUME p \notin trial.ids
      PROVE  t \in TrialSet /\ CountOK(t, st) /\ OldOK(t, st, lf)
  <2>1. t = trial
    BY <1>6 DEF Report
  <2>2. Sent(st) \cap t.ids = S \cap trial.ids
    BY <1>4, <1>6, <2>1
  <2>3. Sent(st) \ t.ids = (S \ trial.ids) \ {p}
    BY <1>4, <2>1
  <2>4. Cardinality((S \ trial.ids) \ {p}) = Cardinality(S \ trial.ids) - 1
        /\ Cardinality(S \ trial.ids) \in Nat
    BY <1>4, <1>6, PacketsFinite, FS_RemoveElement
  <2>5. \A x \in (S \ trial.ids) \ {p} : lf[x] = left[x]
    BY <1>3, <1>4
  <2>6. Cardinality(S \ trial.ids) <= MaxWindow /\ MaxWindow \in Nat
    BY <1>1, CongestionAssumption DEF OldOK
  <2> HIDE DEF st, S, lf, t
  <2>7. CountOK(t, st)
    BY <1>1, <2>1, <2>2 DEF CountOK, S
  <2>8. Cardinality(Sent(st) \ t.ids) <= MaxWindow
    <3>1. Cardinality(Sent(st) \ t.ids) = Cardinality(S \ trial.ids) - 1
      BY <2>3, <2>4
    <3> QED
      BY <3>1, <2>4, <2>6
  <2>9. OldOK(t, st, lf)
    BY <1>1, <2>1, <2>3, <2>5, <2>8 DEF OldOK, S
  <2> QED
    BY <1>3, <2>1, <2>7, <2>9
<1>7. t \in TrialSet /\ CountOK(t, st) /\ OldOK(t, st, lf)
  BY <1>3, <1>5, <1>6
<1>8. Types(t, queue, st, lf)
  <2>1. st \in [Packets -> {"new", "queued", "sent"} \cup Outcomes]
    BY <1>3
  <2>2. lf \in [Packets -> 0..TrialDuration]
    BY <1>3, CongestionAssumption
  <2> QED
    BY <1>3, <1>7, <2>1, <2>2 DEF Types
<1>9. QueueOK(queue, st)
  <2>1. \A i \in 1..Len(queue) : queue[i] \in Packets
    BY <1>3
  <2> QED
    BY <1>1, <1>3, <2>1 DEF QueueOK
<1> QED
  BY <1>1, <1>7, <1>8, <1>9 DEF Accounts

(* A packet that sendPacket puts in the queue.                             *)
LEMMA EnqueueKeeps ==
  ASSUME CongestionInv, NEW p \in Packets, status[p] = "new"
  PROVE  Accounts(trial, Append(queue, p), [status EXCEPT ![p] = "queued"], left)
<1> DEFINE q == Append(queue, p)
           st == [status EXCEPT ![p] = "queued"]
<1>1. /\ Types(trial, queue, status, left) /\ QueueOK(queue, status)
      /\ CountOK(trial, status) /\ OldOK(trial, status, left)
      /\ latency \in LatMin..LatMax /\ level \in 1..TopLevel
  BY DEF CongestionInv, Accounts
<1>2. /\ status \in [Packets -> {"new", "queued", "sent"} \cup Outcomes]
      /\ queue \in Seq(Packets)
  BY <1>1 DEF Types
<1>3. /\ q \in Seq(Packets) /\ Len(q) = Len(queue) + 1 /\ Len(queue) \in Nat
      /\ \A i \in 1..Len(queue) : q[i] = queue[i] /\ queue[i] \in Packets
      /\ q[Len(queue) + 1] = p
  BY <1>2, AppendProperties
<1>4. Sent(st) = Sent(status)
  BY <1>2 DEF Sent
<1>5. st \in [Packets -> {"new", "queued", "sent"} \cup Outcomes]
      /\ st[p] = "queued" /\ \A x \in Packets \ {p} : st[x] = status[x]
  BY <1>2
<1>6. \A i \in 1..Len(queue) : status[queue[i]] = "queued" /\ queue[i] # p
  BY <1>1 DEF QueueOK
<1> HIDE DEF q, st
<1>7. QueueOK(q, st)
  <2>1. \A i \in 1..Len(q) : i \in 1..Len(queue) \/ i = Len(queue) + 1
    BY <1>3
  <2>2. \A i \in 1..Len(q) : st[q[i]] = "queued"
    BY <1>3, <1>5, <1>6, <2>1
  <2>3. \A i, j \in 1..Len(queue) : queue[i] = queue[j] => i = j
    BY <1>1 DEF QueueOK
  <2>4. \A i, j \in 1..Len(q) : q[i] = q[j] => i = j
    BY <1>3, <1>6, <2>1, <2>3
  <2> QED
    BY <2>2, <2>4 DEF QueueOK
<1>8. Types(trial, q, st, left)
  BY <1>1, <1>3, <1>5 DEF Types
<1>9. CountOK(trial, st) /\ OldOK(trial, st, left)
  BY <1>1, <1>4 DEF CountOK, OldOK
<1> QED
  BY <1>1, <1>7, <1>8, <1>9 DEF Accounts, q, st

-----------------------------------------------------------------------------
LEMMA InitCongestion == CongestionInit => CongestionInv
<1> SUFFICES ASSUME CongestionInit PROVE CongestionInv
  OBVIOUS
<1>1. queue = << >> /\ Len(queue) = 0 /\ queue \in Seq(Packets)
  BY DEF CongestionInit
<1>2. Sent(status) = {}
  BY DEF CongestionInit, Sent
<1>3. trial \in TrialSet /\ Unconfirmed(trial) = 0
  BY NewTrialType DEF CongestionInit
<1>4. latency \in LatMin..LatMax /\ level \in 1..TopLevel
  BY CongestionAssumption DEF CongestionInit
<1>5. Types(trial, queue, status, left)
  BY <1>1, <1>3, CongestionAssumption DEF CongestionInit, Types
<1>6. QueueOK(queue, status)
  BY <1>1 DEF QueueOK
<1>7. Window(level, latency) \in Nat /\ MaxWindow \in Nat
  BY <1>4, WindowType, CongestionAssumption
<1>8. Sent(status) \cap trial.ids = {} /\ Sent(status) \ trial.ids = {}
  BY <1>2
<1>9. CountOK(trial, status) /\ OldOK(trial, status, left)
  BY <1>2, <1>3, <1>7, <1>8, FS_EmptySet DEF CountOK, OldOK
<1> QED
  BY <1>1, <1>4, <1>5, <1>6, <1>9 DEF CongestionInv, Accounts, Full

(* A tick brings the packets of the trial before nearer to their timers as *)
(* the trial gets older.                                                   *)
LEMMA TickKeeps == CongestionInv /\ Tick => CongestionInv'
<1> SUFFICES ASSUME CongestionInv, Tick PROVE CongestionInv'
  OBVIOUS
<1>1. /\ Types(trial, queue, status, left) /\ QueueOK(queue, status)
      /\ CountOK(trial, status) /\ OldOK(trial, status, left)
      /\ latency \in LatMin..LatMax /\ level \in 1..TopLevel /\ Full
  BY DEF CongestionInv, Accounts
<1>2. /\ left \in [Packets -> 0..TrialDuration] /\ trial \in TrialSet
      /\ TrialDuration \in Nat
  BY <1>1, CongestionAssumption DEF Types
<1>3. queue' = queue /\ status' = status /\ latency' = latency /\ level' = level
  BY DEF Tick
<1>4. /\ InFlight = Sent(status)
      /\ \A p \in Sent(status) : p \in Packets /\ left[p] > 0
                                 /\ left'[p] = left[p] - 1
  BY DEF Tick, InFlight, Sent
<1>5. left' \in [Packets -> 0..TrialDuration]
  BY <1>2, <1>4 DEF Tick
<1> DEFINE a == IF trial.age <= TrialDuration THEN trial.age + 1 ELSE trial.age
<1>6. trial' = [trial EXCEPT !.age = a]
  BY DEF Tick
<1>7. trial.age \in 0..(TrialDuration + 1) /\ a \in 0..(TrialDuration + 1)
      /\ a <= trial.age + 1
  BY <1>2 DEF TrialSet
<1> HIDE DEF a
<1>8. /\ trial' \in TrialSet /\ trial'.age = a /\ trial'.ids = trial.ids
      /\ trial'.sent = trial.sent /\ trial'.confirmed = trial.confirmed
      /\ trial'.timedOut = trial.timedOut /\ trial'.error = trial.error
  BY <1>2, <1>6, <1>7 DEF TrialSet
<1>9. Unconfirmed(trial') = Unconfirmed(trial)
  BY <1>8 DEF Unconfirmed
<1>10. Types(trial, queue, status, left)'
  BY <1>1, <1>3, <1>5, <1>8 DEF Types
<1>11. QueueOK(queue, status)'
  BY <1>1, <1>3 DEF QueueOK
<1>12. CountOK(trial, status)'
  BY <1>1, <1>3, <1>8, <1>9 DEF CountOK, Sent
<1>13. OldOK(trial, status, left)'
  <2>1. Sent(status') \ trial'.ids = Sent(status) \ trial.ids
    BY <1>3, <1>8
  <2>2. ASSUME NEW p \in Sent(status) \ trial.ids
        PROVE  left'[p] + trial'.age <= TrialDuration
    <3>1. left[p] + trial.age <= TrialDuration /\ left[p] \in Nat
      BY <1>1, <1>2, <1>4 DEF OldOK
    <3> QED
      BY <1>2, <1>4, <1>7, <1>8, <3>1
  <2> QED
    BY <1>1, <2>1, <2>2 DEF OldOK
<1>14. Full'
  BY <1>1, <1>3, <1>9 DEF Full
<1> QED
  BY <1>1, <1>3, <1>10, <1>11, <1>12, <1>13, <1>14 DEF CongestionInv, Accounts

LEMMA NextKeepsCongestion == CongestionInv /\ [CongestionNext]_congestionVars => CongestionInv'
<1> SUFFICES ASSUME CongestionInv, [CongestionNext]_congestionVars PROVE CongestionInv'
  OBVIOUS
<1>1. ASSUME NEW p \in Packets, SendPacket(p) PROVE CongestionInv'
  BY <1>1, EnqueueKeeps, HandleNextPacketsKeeps DEF SendPacket
<1>2. ASSUME NEW p \in Packets, NEW outcome \in Outcomes, Answered(p, outcome)
      PROVE  CongestionInv'
  BY <1>2, ReportKeeps, HandleNextPacketsKeeps DEF Answered
<1>3. ASSUME NEW p \in Packets, Confirmed(p) \/ TimedOut(p) \/ Failed(p)
      PROVE  CongestionInv'
  BY <1>2, <1>3 DEF Confirmed, TimedOut, Failed, Outcomes
<1>4. CASE Tick
  BY <1>4, TickKeeps
<1>5. CASE UNCHANGED congestionVars
  BY <1>5 DEF congestionVars, CongestionInv, Accounts, Types, QueueOK, CountOK, OldOK, Full,
              Sent, Unconfirmed
<1> QED
  BY <1>1, <1>3, <1>4, <1>5 DEF CongestionNext

(* The inductive invariant holds in every behaviour.                       *)
THEOREM CongestionInvariant == CongestionSpec => []CongestionInv
BY InitCongestion, NextKeepsCongestion, PTL DEF CongestionSpec

(* The types of the queue, the trial and the estimates                     *)
(* (UdpCongestionManager.ts:69-73, 157-167).                               *)
THEOREM CongestionTyped == CongestionSpec => []CongestionTypeOK
<1>1. CongestionInv => CongestionTypeOK
  BY DEF CongestionInv, Accounts, Types, TrialSet, CongestionTypeOK
<1> QED
  BY <1>1, CongestionInvariant, PTL

(* What computeNumUnconfirmedBytes returns is what the trial has on its    *)
(* way, although reports of earlier trials come in during it.              *)
THEOREM CounterIsExact == CongestionSpec => []CounterExact
<1>1. CongestionInv => CounterExact
  BY DEF CongestionInv, Accounts, CountOK, CounterExact, InFlight, Sent
<1> QED
  BY <1>1, CongestionInvariant, PTL

(* The queue is never stuck: packets wait for outcomes that are due.       *)
THEOREM QueueNeverStuck == CongestionSpec => []NeverStuck
<1>1. CongestionInv => NeverStuck
  <2> SUFFICES ASSUME CongestionInv, queue # << >>
               PROVE  /\ Unconfirmed(trial) >= Window(level, latency)
                      /\ InFlight \cap trial.ids # {}
    BY DEF NeverStuck
  <2>1. Unconfirmed(trial) >= Window(level, latency)
    BY DEF CongestionInv, Full
  <2>2. Window(level, latency) \in Nat \ {0}
    BY WindowType DEF CongestionInv, Accounts
  <2>3. Unconfirmed(trial) = Cardinality(InFlight \cap trial.ids)
    BY DEF CongestionInv, Accounts, CountOK, InFlight, Sent
  <2>4. Cardinality(InFlight \cap trial.ids) \in Nat
    BY PacketsFinite DEF InFlight
  <2>5. Cardinality(InFlight \cap trial.ids) # 0
    BY <2>1, <2>2, <2>3, <2>4
  <2> QED
    BY <2>1, <2>5, FS_EmptySet
<1> QED
  BY <1>1, CongestionInvariant, PTL

(* The packets that a trial's end forgets have outcomes before the next    *)
(* end.                                                                    *)
THEOREM ForgottenAtMostOnce == CongestionSpec => []ForgottenOnce
<1>1. CongestionInv => ForgottenOnce
  <2> SUFFICES ASSUME CongestionInv, trial.age > TrialDuration,
                      NEW p \in InFlight, p \notin trial.ids
               PROVE  FALSE
    BY DEF ForgottenOnce
  <2>1. p \in Packets /\ p \in Sent(status) \ trial.ids
    BY DEF InFlight, Sent
  <2>2. /\ left[p] \in Nat /\ trial.age \in Nat /\ TrialDuration \in Nat
        /\ left[p] + trial.age <= TrialDuration
    BY <2>1, CongestionAssumption
       DEF CongestionInv, Accounts, OldOK, Types, TrialSet
  <2> QED
    BY <2>2
<1> QED
  BY <1>1, CongestionInvariant, PTL

(* At most two windows of packets are on their way.                        *)
THEOREM InFlightBounded == CongestionSpec => []InFlightBound
<1>1. CongestionInv => InFlightBound
  <2> SUFFICES ASSUME CongestionInv
               PROVE  InFlightBound
    OBVIOUS
  <2>1. /\ Cardinality(Sent(status) \cap trial.ids) <= Window(level, latency)
        /\ Cardinality(Sent(status) \ trial.ids) <= MaxWindow
        /\ Window(level, latency) \in Nat /\ Window(level, latency) <= MaxWindow
    BY WindowType DEF CongestionInv, Accounts, CountOK, OldOK
  <2>2. Cardinality(Sent(status) \cap trial.ids) \in Nat
    BY PacketsFinite DEF Sent
  <2>3. MaxWindow \in Nat
    BY CongestionAssumption
  <2> QED
    BY <2>1, <2>2, <2>3 DEF InFlightBound, InFlight, Sent
<1> QED
  BY <1>1, CongestionInvariant, PTL

-----------------------------------------------------------------------------
(***************************************************************************)
(* UdpRequest.                                                             *)
(***************************************************************************)

RequestTypes ==
  /\ out \in [Packet -> Stage]
  /\ net \subseteq {Data(p) : p \in Packet} \cup {Confirmation(p) : p \in Packet}
  /\ web \subseteq {FallbackRequest(p) : p \in Packet}
                     \cup {FallbackAnswer(p) : p \in Packet}
  /\ parts \subseteq seen /\ seen \subseteq Packet
  /\ handled \in [Message -> Nat]
  /\ sending \in [Message -> {"no", "sending", "sent", "failed"}]
  /\ known \in BOOLEAN
  /\ client \in {"idle", "waiting", "resolved", "rejected"}

(* A message is collected until its last packet is seen, and handled then. *)
Collected(m) ==
  \/ /\ handled[m] = 0
     /\ ~(PacketsOf(m) \subseteq seen)
     /\ \A p \in PacketsOf(m) : p \in seen => p \in parts
  \/ /\ handled[m] = 1
     /\ PacketsOf(m) \subseteq seen
     /\ \A p \in PacketsOf(m) : p \notin parts

(* A confirmation, on its way or arrived, tells that the packet was seen.  *)
ConfirmedIfSeen(p) ==
  p \notin seen =>
    out[p] # "done" /\ Confirmation(p) \notin net /\ FallbackAnswer(p) \notin web

(* Nothing of a message is under way before it is sent.                    *)
Started(p) ==
  sending[p[1]] = "no" =>
    /\ p \notin seen /\ out[p] = "new"
    /\ Data(p) \notin net /\ FallbackRequest(p) \notin web

SentOK(m) == sending[m] = "sent" => \A p \in PacketsOf(m) : out[p] = "done"

Causes ==
  /\ sending["request"] # "no" => client # "idle"
  /\ sending["response"] # "no" => handled["request"] = 1
  /\ client = "resolved" => handled["request"] = 1

(* The inductive invariant.                                                *)
RequestInv ==
  /\ RequestTypes
  /\ \A m \in Message : Collected(m) /\ SentOK(m)
  /\ \A p \in Packet : ConfirmedIfSeen(p) /\ Started(p)
  /\ Causes

-----------------------------------------------------------------------------
LEMMA PacketFacts ==
  /\ \A p \in Packet : p[1] \in Message /\ p \in PacketsOf(p[1])
  /\ \A m \in Message : \A p \in PacketsOf(m) : p \in Packet /\ p[1] = m
  /\ \A m \in Message : PacketsOf(m) # {}
<1>1. \A m \in Message : Parts[m] \in Nat \ {0}
  BY RequestAssumption DEF Message
<1>2. \A m \in Message : <<m, 1>> \in PacketsOf(m)
  BY <1>1 DEF PacketsOf
<1>3. \A p \in Packet : p[1] \in Message /\ p \in PacketsOf(p[1])
  <2> TAKE p \in Packet
  <2>1. PICK m \in Message : p \in PacketsOf(m)
    BY DEF Packet
  <2>2. PICK i \in 1..Parts[m] : p = <<m, i>>
    BY <2>1 DEF PacketsOf
  <2> QED
    BY <2>1, <2>2
<1>4. \A m \in Message : \A p \in PacketsOf(m) : p \in Packet /\ p[1] = m
  BY DEF Packet, PacketsOf
<1> QED
  BY <1>2, <1>3, <1>4

(* Messages on the network are told apart by type and packet.              *)
LEMMA Distinct ==
  ASSUME NEW p, NEW q
  PROVE  /\ Data(p) # Confirmation(q)
         /\ FallbackRequest(p) # FallbackAnswer(q)
         /\ Data(p) = Data(q) => p = q
         /\ Confirmation(p) = Confirmation(q) => p = q
         /\ FallbackRequest(p) = FallbackRequest(q) => p = q
         /\ FallbackAnswer(p) = FallbackAnswer(q) => p = q
BY DEF Data, Confirmation, FallbackRequest, FallbackAnswer

LEMMA RequestInit == Init => RequestInv
<1> SUFFICES ASSUME Init PROVE RequestInv
  OBVIOUS
<1>1. RequestTypes
  BY DEF Init, RequestTypes, Stage
<1>2. \A m \in Message : Collected(m) /\ SentOK(m)
  BY PacketFacts DEF Init, Collected, SentOK
<1>3. \A p \in Packet : ConfirmedIfSeen(p) /\ Started(p)
  BY DEF Init, ConfirmedIfSeen, Started
<1>4. Causes
  BY DEF Init, Causes, Message
<1> QED
  BY <1>1, <1>2, <1>3, <1>4 DEF RequestInv

(* What a packet does at the receiver.                                     *)
LEMMA AcceptFacts ==
  ASSUME RequestInv, NEW p \in Packet, Accept(p), sending[p[1]] # "no"
  PROVE  /\ seen' = seen \cup {p}
         /\ parts' \subseteq seen'
         /\ handled' \in [Message -> Nat]
         /\ \A m \in Message : Collected(m)'
         /\ handled["request"] = 1 => handled'["request"] = 1
         /\ client' # client =>
              /\ client = "waiting" /\ client' = "resolved"
              /\ handled["request"] = 1
<1> USE DEF RequestInv
<1>1. CASE p \in seen
  BY <1>1 DEF Accept, RequestTypes, Collected
<1>2. CASE p \notin seen
  <2> DEFINE m0 == p[1]
             have == parts \cup {p}
             complete == PacketsOf(m0) \subseteq have
  <2>1. m0 \in Message /\ p \in PacketsOf(m0)
    BY PacketFacts
  <2>2. /\ seen' = seen \cup {p}
        /\ parts' = IF complete THEN have \ PacketsOf(m0) ELSE have
        /\ handled' = IF complete THEN [handled EXCEPT ![m0] = @ + 1]
                                  ELSE handled
        /\ client' = IF complete /\ m0 = "response" /\ client = "waiting"
                     THEN "resolved" ELSE client
    BY <1>2 DEF Accept
  <2>3. handled[m0] = 0 /\ \A q \in PacketsOf(m0) : q \in seen <=> q \in parts
    BY <1>2, <2>1 DEF Collected, RequestTypes
  <2>4. complete <=> PacketsOf(m0) \subseteq seen'
    BY <2>2, <2>3
  <2> HIDE DEF complete
  <2>5. handled' \in [Message -> Nat]
    BY <2>1, <2>2 DEF RequestTypes
  <2>6. Collected(m0)'
    <3>1. CASE complete
      BY <2>1, <2>2, <2>3, <2>4, <3>1 DEF RequestTypes, Collected
    <3>2. CASE ~complete
      BY <2>1, <2>2, <2>3, <2>4, <3>2 DEF RequestTypes, Collected
    <3> QED
      BY <3>1, <3>2
  <2>7. ASSUME NEW m \in Message, m # m0 PROVE Collected(m)'
    <3>1. \A q \in PacketsOf(m) : q # p /\ q \notin PacketsOf(m0)
      BY <2>1, <2>7, PacketFacts
    <3>2. handled'[m] = handled[m]
      BY <2>1, <2>2, <2>7 DEF RequestTypes
    <3>3. \A q \in PacketsOf(m) :
            (q \in seen' <=> q \in seen) /\ (q \in parts' <=> q \in parts)
      BY <2>2, <3>1
    <3> QED
      BY <3>2, <3>3 DEF Collected
  <2>8. handled["request"] = 1 => handled'["request"] = 1
    BY <2>1, <2>2, <2>3 DEF RequestTypes, Message
  <2>9. client' # client =>
              /\ client = "waiting" /\ client' = "resolved"
              /\ handled["request"] = 1
    <3> SUFFICES ASSUME client' # client PROVE
              /\ client = "waiting" /\ client' = "resolved"
              /\ handled["request"] = 1
      OBVIOUS
    <3>1. complete /\ m0 = "response" /\ client = "waiting"
            /\ client' = "resolved"
      BY <2>2
    <3>2. handled["request"] = 1
      BY <3>1 DEF Causes
    <3> QED
      BY <3>1, <3>2
  <2>10. parts' \subseteq seen'
    BY <2>2 DEF RequestTypes
  <2> QED
    BY <2>2, <2>5, <2>6, <2>7, <2>8, <2>9, <2>10
<1> QED
  BY <1>1, <1>2

(* Nothing at the receiver changes.                                        *)
LEMMA SenderKeeps ==
  ASSUME RequestInv, RequestTypes', UNCHANGED <<seen, parts, handled>>,
         \A m \in Message : SentOK(m)',
         \A p \in Packet : ConfirmedIfSeen(p)' /\ Started(p)',
         Causes'
  PROVE  RequestInv'
<1>1. \A m \in Message : Collected(m)'
  BY DEF RequestInv, Collected
<1> QED
  BY <1>1 DEF RequestInv

(* Packet p of a message that is sent goes from one stage to another.      *)
LEMMA StageKeeps ==
  ASSUME RequestInv, NEW p \in Packet, NEW stage \in Stage,
         out' = [out EXCEPT ![p] = stage],
         out[p] \notin {"new", "done"}, stage # "new",
         stage = "done" => p \in seen,
         \A q \in Packet : Data(q) \in net' => q = p \/ Data(q) \in net,
         \A q \in Packet : Confirmation(q) \in net' => Confirmation(q) \in net,
         \A q \in Packet :
           FallbackRequest(q) \in web' => q = p \/ FallbackRequest(q) \in web,
         \A q \in Packet :
           FallbackAnswer(q) \in web' => FallbackAnswer(q) \in web,
         net' \subseteq {Data(q) : q \in Packet} \cup {Confirmation(q) : q \in Packet},
         web' \subseteq {FallbackRequest(q) : q \in Packet}
                         \cup {FallbackAnswer(q) : q \in Packet},
         UNCHANGED <<receiverVars, sending, client>>
  PROVE  RequestInv'
<1> USE DEF RequestInv, receiverVars
<1>1. RequestTypes'
  BY DEF RequestTypes
<1>2. \A m \in Message : SentOK(m)'
  BY PacketFacts DEF SentOK, RequestTypes
<1>3. ASSUME NEW q \in Packet PROVE ConfirmedIfSeen(q)' /\ Started(q)'
  <2>1. out'[q] = IF q = p THEN stage ELSE out[q]
    BY DEF RequestTypes
  <2>2. ConfirmedIfSeen(q)'
    BY <2>1 DEF ConfirmedIfSeen
  <2>3. sending[p[1]] # "no"
    BY DEF Started
  <2>4. Started(q)'
    BY <2>1, <2>3 DEF Started
  <2> QED
    BY <2>2, <2>4
<1>4. Causes'
  BY DEF Causes
<1> QED
  BY <1>1, <1>2, <1>3, <1>4, SenderKeeps

(* The call of sendPackets for a message that nobody has sent before.      *)
LEMMA SendPacketsKeeps ==
  ASSUME RequestInv, NEW m \in Message, NEW b \in BOOLEAN, SendPackets(m, b),
         UNCHANGED <<net, receiverVars>>,
         client' \in {"idle", "waiting", "resolved", "rejected"},
         Causes'
  PROVE  RequestInv'
<1> USE DEF RequestInv, receiverVars
<1>1. \A q \in Packet :
        out'[q] = IF q \notin PacketsOf(m) THEN out[q]
                  ELSE IF b THEN "queued" ELSE "fallback"
  BY DEF SendPackets
<1>2. web' \subseteq web \cup {FallbackRequest(p) : p \in PacketsOf(m)}
  BY DEF SendPackets
<1>3. sending' = [sending EXCEPT ![m] = "sending"]
  BY DEF SendPackets
<1>4. RequestTypes'
  <2>1. out' \in [Packet -> Stage]
    BY DEF SendPackets, RequestTypes, Stage
  <2>2. PacketsOf(m) \subseteq Packet
    BY PacketFacts
  <2>3. web' \subseteq {FallbackRequest(p) : p \in Packet}
                        \cup {FallbackAnswer(p) : p \in Packet}
    BY <1>2, <2>2 DEF RequestTypes
  <2> QED
    BY <1>3, <2>1, <2>3 DEF RequestTypes
<1>5. ASSUME NEW n \in Message PROVE SentOK(n)'
  BY <1>1, <1>3, PacketFacts DEF SentOK, RequestTypes
<1>6. ASSUME NEW q \in Packet PROVE ConfirmedIfSeen(q)' /\ Started(q)'
  <2>1. FallbackAnswer(q) \in web' => FallbackAnswer(q) \in web
    BY <1>2, Distinct
  <2>2. ConfirmedIfSeen(q)'
    BY <1>1, <2>1 DEF ConfirmedIfSeen
  <2>3. q \in PacketsOf(m) => sending'[q[1]] # "no"
    BY <1>3, PacketFacts DEF RequestTypes
  <2>4. FallbackRequest(q) \in web' =>
          FallbackRequest(q) \in web \/ q \in PacketsOf(m)
    BY <1>2, Distinct
  <2>5. sending[q[1]] # "no" => sending'[q[1]] # "no"
    BY <1>3, PacketFacts DEF RequestTypes
  <2>6. Started(q)'
    BY <1>1, <2>3, <2>4, <2>5 DEF Started
  <2> QED
    BY <2>2, <2>6
<1> QED
  BY <1>4, <1>5, <1>6, SenderKeeps

(* The receipt of a packet, by whichever way it comes.                     *)
LEMMA ReceiveKeeps ==
  ASSUME RequestInv, NEW p \in Packet, Accept(p), sending[p[1]] # "no",
         net' \subseteq net \cup {Confirmation(p)},
         web' \subseteq web \cup {FallbackAnswer(p)},
         known' \in BOOLEAN,
         UNCHANGED <<out, sending>>
  PROVE  RequestInv'
<1> USE DEF RequestInv
<1>1. RequestTypes'
  <2>1. client' \in {"idle", "waiting", "resolved", "rejected"}
    BY AcceptFacts DEF RequestTypes
  <2> QED
    BY <2>1, AcceptFacts DEF RequestTypes
<1>2. \A m \in Message : Collected(m)' /\ SentOK(m)'
  BY AcceptFacts DEF SentOK
<1>3. ASSUME NEW q \in Packet PROVE ConfirmedIfSeen(q)' /\ Started(q)'
  <2>1. seen' = seen \cup {p}
    BY AcceptFacts
  <2>2. Confirmation(q) \in net' => Confirmation(q) \in net \/ q = p
    BY Distinct
  <2>3. FallbackAnswer(q) \in web' => FallbackAnswer(q) \in web \/ q = p
    BY Distinct
  <2>4. Data(q) \in net' => Data(q) \in net
    BY Distinct
  <2>5. FallbackRequest(q) \in web' => FallbackRequest(q) \in web
    BY Distinct
  <2> QED
    BY <2>1, <2>2, <2>3, <2>4, <2>5 DEF ConfirmedIfSeen, Started
<1>4. Causes'
  BY AcceptFacts DEF Causes
<1> QED
  BY <1>1, <1>2, <1>3, <1>4

-----------------------------------------------------------------------------
LEMMA RequestStep == RequestInv /\ [Next]_vars => RequestInv'
<1> SUFFICES ASSUME RequestInv, [Next]_vars PROVE RequestInv'
  OBVIOUS
<1> USE DEF RequestInv
<1>1. ASSUME NEW p \in Packet, TrySend(p) PROVE RequestInv'
  <2>1. /\ \A q \in Packet : Data(q) \in net' => q = p \/ Data(q) \in net
        /\ \A q \in Packet : Confirmation(q) \in net' => Confirmation(q) \in net
    BY <1>1, Distinct DEF TrySend
  <2>2. net' \subseteq {Data(q) : q \in Packet} \cup {Confirmation(q) : q \in Packet}
    BY <1>1 DEF TrySend, RequestTypes
  <2> QED
    BY <1>1, <2>1, <2>2, StageKeeps DEF TrySend, RequestTypes, Stage
<1>2. ASSUME NEW p \in Packet, FallbackSendPacket(p) PROVE RequestInv'
  <2>1. /\ \A q \in Packet :
             FallbackRequest(q) \in web' => q = p \/ FallbackRequest(q) \in web
        /\ \A q \in Packet : FallbackAnswer(q) \in web' => FallbackAnswer(q) \in web
    BY <1>2, Distinct DEF FallbackSendPacket
  <2>2. web' \subseteq {FallbackRequest(q) : q \in Packet}
                         \cup {FallbackAnswer(q) : q \in Packet}
    BY <1>2 DEF FallbackSendPacket, RequestTypes
  <2> QED
    BY <1>2, <2>1, <2>2, StageKeeps DEF FallbackSendPacket, RequestTypes, Stage
<1>3. ASSUME NEW p \in Packet, ReceiveConfirmation(p) PROVE RequestInv'
  <2>1. p \in seen
    BY <1>3 DEF ReceiveConfirmation, ConfirmedIfSeen
  <2> QED
    BY <1>3, <2>1, StageKeeps DEF ReceiveConfirmation, RequestTypes, Stage
<1>4. ASSUME NEW p \in Packet, ReceiveFallbackAnswer(p) PROVE RequestInv'
  <2>1. p \in seen
    BY <1>4 DEF ReceiveFallbackAnswer, ConfirmedIfSeen
  <2>2. CASE out[p] = "fallback"
    BY <1>4, <2>1, <2>2, StageKeeps DEF ReceiveFallbackAnswer, RequestTypes, Stage
  <2>3. CASE out[p] # "fallback"
    <3>1. out' = out
      BY <1>4, <2>3 DEF ReceiveFallbackAnswer, RequestTypes
    <3>2. RequestTypes'
      BY <1>4, <3>1 DEF ReceiveFallbackAnswer, receiverVars, RequestTypes
    <3> QED
      BY <1>4, <3>1, <3>2, SenderKeeps
      DEF ReceiveFallbackAnswer, receiverVars, SentOK, ConfirmedIfSeen, Started, Causes
  <2> QED
    BY <2>2, <2>3
<1>5. ASSUME NEW p \in Packet, FallbackFails(p) PROVE RequestInv'
  <2>1. web' \subseteq web
    BY <1>5 DEF FallbackFails
  <2> QED
    BY <1>5, <2>1, StageKeeps DEF FallbackFails, RequestTypes, Stage
<1>6. ASSUME NEW p \in Packet, ReceiveDatagram(p) PROVE RequestInv'
  <2>1. sending[p[1]] # "no"
    BY <1>6 DEF ReceiveDatagram, Started
  <2> QED
    BY <1>6, <2>1, ReceiveKeeps DEF ReceiveDatagram, RequestTypes
<1>7. ASSUME NEW p \in Packet, ReceiveFallback(p) PROVE RequestInv'
  <2>1. sending[p[1]] # "no"
    BY <1>7 DEF ReceiveFallback, Started
  <2> QED
    BY <1>7, <2>1, ReceiveKeeps DEF ReceiveFallback, RequestTypes
<1>8. ASSUME NEW m \in Message, SendPacketsResolves(m) PROVE RequestInv'
  <2>1. RequestTypes'
    BY <1>8 DEF SendPacketsResolves, receiverVars, RequestTypes
  <2>2. \A n \in Message : SentOK(n)'
    BY <1>8 DEF SendPacketsResolves, SentOK, RequestTypes
  <2>3. \A n \in Message : sending'[n] # "no" <=> sending[n] # "no"
    BY <1>8 DEF SendPacketsResolves, RequestTypes
  <2>4. \A p \in Packet : ConfirmedIfSeen(p)' /\ Started(p)'
    BY <1>8, <2>3, PacketFacts
    DEF SendPacketsResolves, receiverVars, ConfirmedIfSeen, Started
  <2>5. Causes'
    BY <1>8, <2>3 DEF SendPacketsResolves, receiverVars, Causes, Message
  <2> QED
    BY <1>8, <2>1, <2>2, <2>4, <2>5, SenderKeeps
    DEF SendPacketsResolves, receiverVars
<1>9. ASSUME NEW m \in Message, SendPacketsRejects(m) PROVE RequestInv'
  <2> DEFINE cancelled == {p \in PacketsOf(m) : out[p] = "udp"}
  <2>1. /\ sending' = [sending EXCEPT ![m] = "failed"]
        /\ sending[m] = "sending"
        /\ out' = [p \in Packet |-> IF p \in cancelled THEN "fallback" ELSE out[p]]
        /\ web' = web \cup {FallbackRequest(p) : p \in cancelled}
        /\ client' = IF m = "request" /\ client = "waiting"
                     THEN "rejected" ELSE client
        /\ UNCHANGED <<net, receiverVars>>
    BY <1>9 DEF SendPacketsRejects
  <2>2. cancelled \subseteq Packet /\ \A p \in cancelled : p[1] = m /\ out[p] = "udp"
    BY PacketFacts
  <2> HIDE DEF cancelled
  <2>3. RequestTypes'
    BY <2>1, <2>2 DEF receiverVars, RequestTypes, Stage
  <2>4. \A n \in Message : SentOK(n)'
    BY <2>1, <2>2, PacketFacts DEF SentOK, RequestTypes
  <2>5. \A n \in Message : sending'[n] # "no" <=> sending[n] # "no"
    BY <2>1 DEF RequestTypes
  <2>6. ASSUME NEW q \in Packet PROVE ConfirmedIfSeen(q)' /\ Started(q)'
    <3>1. FallbackAnswer(q) \in web' => FallbackAnswer(q) \in web
      BY <2>1, Distinct
    <3>2. FallbackRequest(q) \in web' => FallbackRequest(q) \in web \/ q \in cancelled
      BY <2>1, Distinct
    <3>3. out'[q] = "done" => out[q] = "done"
      BY <2>1
    <3>4. out'[q] # "new" => out[q] # "new" \/ q \in cancelled
      BY <2>1
    <3>5. q \in cancelled => sending[q[1]] # "no"
      BY <2>1, <2>2
    <3> QED
      BY <2>1, <2>5, <3>1, <3>2, <3>3, <3>4, <3>5, PacketFacts
      DEF receiverVars, ConfirmedIfSeen, Started
  <2>7. Causes'
    BY <2>1, <2>5 DEF receiverVars, Causes, Message
  <2> QED
    BY <2>1, <2>3, <2>4, <2>6, <2>7, SenderKeeps DEF receiverVars
<1>10. ASSUME SendRequest PROVE RequestInv'
  <2>1. Causes'
    BY <1>10 DEF SendRequest, SendPackets, receiverVars, Causes, RequestTypes, Message
  <2> QED
    BY <1>10, <2>1, SendPacketsKeeps DEF SendRequest, Message
<1>11. ASSUME RequestTimesOut PROVE RequestInv'
  BY <1>11, SenderKeeps
  DEF RequestTimesOut, receiverVars, RequestTypes, SentOK, ConfirmedIfSeen, Started, Causes
<1>12. ASSUME SendResponse PROVE RequestInv'
  <2>1. handled["request"] = 1
    BY <1>12 DEF SendResponse, Collected, Message
  <2>2. Causes'
    BY <1>12, <2>1
    DEF SendResponse, SendPackets, receiverVars, Causes, RequestTypes, Message
  <2> QED
    BY <1>12, <2>2, SendPacketsKeeps DEF SendResponse, RequestTypes, Message
<1>13. ASSUME UNCHANGED vars PROVE RequestInv'
  BY <1>13 DEF vars, RequestTypes, Collected, SentOK, ConfirmedIfSeen, Started, Causes
<1> QED
  BY <1>1, <1>2, <1>3, <1>4, <1>5, <1>6, <1>7, <1>8, <1>9, <1>10, <1>11,
     <1>12, <1>13 DEF Next, PacketStep

(* Each step of the request is a step of RemoteCall, or changes nothing    *)
(* that the caller or the executed request show.                           *)
LEMMA RequestSimulates ==
  RequestInv /\ RequestInv' /\ [Next]_vars => [Call!Next]_Call!callVars
<1> SUFFICES ASSUME RequestInv, RequestInv', [Next]_vars
             PROVE  [Call!Next]_Call!callVars
  OBVIOUS
<1> USE DEF RequestInv, receiverVars, Call!callVars
<1>1. ASSUME NEW p \in Packet, Accept(p), sending[p[1]] # "no"
      PROVE  [Call!Next]_Call!callVars
  <2>1. CASE client' # client
    <3>1. /\ client = "waiting" /\ client' = "resolved"
          /\ handled["request"] = 1 /\ handled'["request"] = 1
      BY <1>1, <2>1, AcceptFacts
    <3> QED
      BY <3>1 DEF Call!Next, Call!Resolve
  <2>2. CASE client' = client /\ handled'["request"] # handled["request"]
    <3>1. handled["request"] \in {0, 1} /\ handled'["request"] \in {0, 1}
      BY DEF Collected, Message
    <3>2. handled["request"] = 0 /\ handled'["request"] = 1
      BY <1>1, <2>2, <3>1, AcceptFacts
    <3>3. p[1] = "request"
      <4>1. handled' = handled \/ handled' = [handled EXCEPT ![p[1]] = @ + 1]
        BY <1>1 DEF Accept
      <4>2. p[1] \in Message
        BY PacketFacts
      <4> QED
        BY <2>2, <4>1, <4>2 DEF RequestTypes, Message
    <3>4. client # "idle"
      BY <1>1, <3>3 DEF Causes
    <3> QED
      BY <2>2, <3>2, <3>4 DEF Call!Next, Call!Execute
  <2> QED
    BY <2>1, <2>2
<1>2. ASSUME NEW p \in Packet, PacketStep(p)
      PROVE  [Call!Next]_Call!callVars
  <2>1. CASE ReceiveDatagram(p)
    BY <1>1, <2>1 DEF ReceiveDatagram, Started
  <2>2. CASE ReceiveFallback(p)
    BY <1>1, <2>2 DEF ReceiveFallback, Started
  <2> QED
    BY <1>2, <2>1, <2>2
    DEF PacketStep, TrySend, FallbackSendPacket, ReceiveConfirmation,
        ReceiveFallbackAnswer, FallbackFails
<1>3. ASSUME NEW m \in Message, SendPacketsResolves(m) \/ SendPacketsRejects(m)
      PROVE  [Call!Next]_Call!callVars
  <2>1. handled' = handled
    BY <1>3 DEF SendPacketsResolves, SendPacketsRejects
  <2>2. client' = client \/ (client = "waiting" /\ client' = "rejected")
    BY <1>3 DEF SendPacketsResolves, SendPacketsRejects
  <2> QED
    BY <2>1, <2>2 DEF Call!Next, Call!Reject
<1>4. ASSUME SendRequest PROVE [Call!Next]_Call!callVars
  BY <1>4 DEF SendRequest, Call!Next, Call!Call
<1>5. ASSUME RequestTimesOut PROVE [Call!Next]_Call!callVars
  BY <1>5 DEF RequestTimesOut, Call!Next, Call!Reject
<1>6. ASSUME SendResponse PROVE [Call!Next]_Call!callVars
  BY <1>6 DEF SendResponse
<1>7. ASSUME UNCHANGED vars PROVE [Call!Next]_Call!callVars
  BY <1>7 DEF vars
<1> QED
  BY <1>2, <1>3, <1>4, <1>5, <1>6, <1>7 DEF Next

-----------------------------------------------------------------------------
(* The inductive invariant of the request holds in every reachable state.  *)
THEOREM RequestInvariant == Spec => []RequestInv
<1> QED
  BY RequestInit, RequestStep, PTL DEF Spec

(* Every variable has its type, and no message stays complete among the    *)
(* parts (addMessagePart removes it).                                      *)
THEOREM RequestTyped == Spec => []RequestTypeOK
<1>1. RequestInv => RequestTypeOK
  BY PacketFacts DEF RequestInv, RequestTypeOK, RequestTypes, Collected
<1> QED
  BY <1>1, RequestInvariant, PTL

(* Duplicated datagrams and the fallback notwithstanding, no message is    *)
(* handled twice (_receiveUdpPacket drops packets it has seen).            *)
THEOREM MessageHandledOnce == Spec => []HandledOnce
<1>1. RequestInv => HandledOnce
  BY DEF RequestInv, HandledOnce, Collected
<1> QED
  BY <1>1, RequestInvariant, PTL

(* When sendPackets resolves, the receiver has handled the message.        *)
THEOREM SentIsHandled == Spec => []SentMeansHandled
<1>1. RequestInv => SentMeansHandled
  BY PacketFacts
  DEF RequestInv, SentMeansHandled, SentOK, ConfirmedIfSeen, Collected
<1> QED
  BY <1>1, RequestInvariant, PTL

(* A request over udp is executed at most once, and a caller that gets a   *)
(* response knows that it was: it implements RemoteCall.                   *)
THEOREM RequestImplementsCall == Spec => ImplementsRemoteCall
<1>1. Init => Call!Init
  BY DEF Init, Call!Init, Message
<1>2. RequestInv /\ [Next]_vars => RequestInv'
  BY RequestStep
<1>3. RequestInv /\ RequestInv' /\ [Next]_vars => [Call!Next]_Call!callVars
  BY RequestSimulates
<1> QED
  BY <1>1, <1>3, RequestInvariant, PTL DEF Spec, ImplementsRemoteCall, Call!Spec

=============================================================================
