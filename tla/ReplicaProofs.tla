--------------------------- MODULE ReplicaProofs ---------------------------
(***************************************************************************)
(* Theorems about Replica, for any set of PIDs and any number of           *)
(* processes.                                                              *)
(***************************************************************************)
EXTENDS Replica, TLAPS

\* The types that the argument needs.
Shape ==
  /\ owner \in [Pids -> Nat]
  /\ spawned \in Nat
  /\ record \in [pid : Pids \cup {0}, identity : Nat]
  /\ command \in [at : {"idle", "launched", "verified", "waiting"},
                  pid : Pids \cup {0}, proc : Nat]
  /\ replicas \subseteq Nat \ {0}

\* A replica that runs holds the PID of the record.
Recorded ==
  \A p \in replicas \ dead :
    record.identity = p /\ record.pid \in Pids /\ owner[record.pid] = p

\* What the command that runs relies on: a start has found no replica, and
\* its child keeps its PID; a stop is about the PID of the record.
Underway ==
  /\ command.at = "launched" =>
       /\ replicas \subseteq dead
       /\ command.pid \in Pids
       /\ command.proc # 0
       /\ owner[command.pid] = command.proc
  /\ command.at \in {"verified", "waiting"} =>
       command.pid \in Pids /\ command.pid = record.pid

IInv == Shape /\ Recorded /\ Underway

-----------------------------------------------------------------------------
\* Initially no process is a replica.
LEMMA InitIInv == Init => IInv
BY ReplicaAssumption DEF Init, IInv, Shape, Recorded, Underway, NoRecord, Idle

\* A process that starts on a free PID takes none from a replica or from the
\* child of a start.
LEMMA SpawnIInv ==
  ASSUME IInv, NEW pid \in Pids, NEW leads \in BOOLEAN, Spawn(pid, leads),
         UNCHANGED <<dead, record, replicas>>
  PROVE  /\ owner' \in [Pids -> Nat] /\ spawned' \in Nat \ {0}
         /\ owner'[pid] = spawned'
         /\ \A q \in Pids : owner[q] # 0 => owner'[q] = owner[q]
         /\ Recorded'
<1> USE DEF IInv, Shape
<1>1. spawned' \in Nat \ {0} /\ owner' = [owner EXCEPT ![pid] = spawned'] /\ owner[pid] = 0
  BY DEF Spawn
<1>2. owner' \in [Pids -> Nat] /\ owner'[pid] = spawned'
  BY <1>1
<1>3. \A q \in Pids : owner[q] # 0 => owner'[q] = owner[q]
  BY <1>1
<1>4. Recorded'
  BY <1>3 DEF Recorded
<1> QED BY <1>1, <1>2, <1>3, <1>4

LEMMA ForkIInv ==
  ASSUME IInv, NEW pid \in Pids, Fork(pid) PROVE IInv'
<1>1. PICK leads \in BOOLEAN : Spawn(pid, leads)
  BY DEF Fork
<1>2. UNCHANGED <<dead, record, command, replicas>>
  BY DEF Fork
<1>3. /\ owner' \in [Pids -> Nat] /\ spawned' \in Nat \ {0}
      /\ \A q \in Pids : owner[q] # 0 => owner'[q] = owner[q]
      /\ Recorded'
  BY <1>1, <1>2, SpawnIInv
<1>4. Shape'
  BY <1>2, <1>3 DEF IInv, Shape
<1>5. Underway'
  BY <1>2, <1>3 DEF IInv, Underway
<1> QED BY <1>3, <1>4, <1>5 DEF IInv

LEMMA ExitIInv ==
  ASSUME IInv, NEW pid \in Pids, Exit(pid) PROVE IInv'
BY DEF Exit, IInv, Shape, Recorded, Underway

\* A PID is freed only when its process is dead, and not under a start.
LEMMA ReapIInv ==
  ASSUME IInv, NEW pid \in Pids, Reap(pid) PROVE IInv'
<1> USE DEF IInv
<1>1. /\ owner' = [owner EXCEPT ![pid] = 0]
      /\ owner[pid] \in dead
      /\ UNCHANGED <<spawned, dead, record, command, replicas>>
  BY DEF Reap
<1>2. Shape'
  BY <1>1 DEF Shape
<1>3. Recorded'
  BY <1>1 DEF Shape, Recorded
<1>4. Underway'
  BY <1>1 DEF Shape, Underway, Reap
<1> QED BY <1>2, <1>3, <1>4

\* A start that passes its check finds no replica that runs.
LEMMA NoneRuns ==
  ASSUME IInv, NotRunning PROVE replicas \subseteq dead
BY DEF IInv, Shape, Recorded, NotRunning, NoRecord, Alive

LEMMA StartLaunchesIInv ==
  ASSUME IInv, NEW pid \in Pids, StartLaunches(pid) PROVE IInv'
<1>1. /\ Spawn(pid, TRUE) /\ NotRunning
      /\ command' = [at |-> "launched", pid |-> pid, proc |-> spawned']
      /\ UNCHANGED <<dead, record, replicas>>
  BY DEF StartLaunches
<1>2. /\ owner' \in [Pids -> Nat] /\ spawned' \in Nat \ {0}
      /\ owner'[pid] = spawned'
      /\ Recorded'
  BY <1>1, SpawnIInv
<1>3. Shape'
  BY <1>1, <1>2 DEF IInv, Shape
<1>4. Underway'
  BY <1>1, <1>2, NoneRuns DEF Underway
<1> QED BY <1>2, <1>3, <1>4 DEF IInv

LEMMA StartRecordsIInv ==
  ASSUME IInv, StartRecords PROVE IInv'
<1> USE DEF IInv
<1>1. /\ replicas \subseteq dead /\ command.pid \in Pids
      /\ command.proc \in Nat \ {0} /\ owner[command.pid] = command.proc
  BY DEF StartRecords, Shape, Underway
<1>2. command' = Idle /\ UNCHANGED <<owner, spawned, dead>>
  BY DEF StartRecords
<1>3. Underway'
  BY <1>2 DEF Underway, Idle
<1>4. CASE command.proc \in dead
  <2>1. UNCHANGED <<record, replicas>>
    BY <1>4 DEF StartRecords
  <2> QED BY <1>2, <1>3, <2>1 DEF Shape, Recorded, Idle
<1>5. CASE command.proc \notin dead
  <2>1. /\ record' = [pid |-> command.pid, identity |-> command.proc]
        /\ replicas' = replicas \cup {command.proc}
    BY <1>5 DEF StartRecords
  <2>2. Shape'
    BY <1>1, <1>2, <2>1 DEF Shape, Idle
  <2>3. Recorded'
    BY <1>1, <1>2, <2>1 DEF Recorded
  <2> QED BY <1>3, <2>2, <2>3
<1> QED BY <1>4, <1>5

LEMMA StopVerifiesIInv ==
  ASSUME IInv, StopVerifies PROVE IInv'
BY DEF StopVerifies, Verified, Alive, IInv, Shape, Recorded, Underway

LEMMA StopSignalsIInv ==
  ASSUME IInv, StopSignals PROVE IInv'
<1>1. /\ command' = Idle \/ command' = [command EXCEPT !.at = "waiting"]
      /\ command.at = "verified"
      /\ UNCHANGED <<owner, spawned, dead, record, replicas>>
  BY DEF StopSignals
<1> QED BY <1>1 DEF Idle, IInv, Shape, Recorded, Underway

\* A stop unlinks the record only when nobody holds the PID of the replica.
LEMMA StopEndsIInv ==
  ASSUME IInv, StopEnds PROVE IInv'
<1> USE DEF IInv
<1>1. /\ command.pid \in Pids /\ command.pid = record.pid
      /\ record' = IF Gone(command.pid) THEN NoRecord ELSE record
      /\ command' = Idle
      /\ UNCHANGED <<owner, spawned, dead, replicas>>
  BY DEF StopEnds, Underway
<1>2. Shape' /\ Underway'
  BY <1>1 DEF Shape, Underway, NoRecord, Idle
<1>3. Recorded'
  <2>1. CASE Gone(command.pid)
    BY <1>1, <2>1 DEF Gone, Alive, Recorded, Shape
  <2>2. CASE ~Gone(command.pid)
    BY <1>1, <2>2 DEF Recorded
  <2> QED BY <2>1, <2>2
<1> QED BY <1>2, <1>3

LEMMA CrashIInv ==
  ASSUME IInv, Crash PROVE IInv'
BY DEF Crash, Idle, IInv, Shape, Recorded, Underway

LEMMA NextIInv == IInv /\ [Next]_vars => IInv'
<1> SUFFICES ASSUME IInv, [Next]_vars PROVE IInv'
  OBVIOUS
<1>1. ASSUME NEW pid \in Pids, Fork(pid) PROVE IInv'
  BY <1>1, ForkIInv
<1>2. ASSUME NEW pid \in Pids, Exit(pid) PROVE IInv'
  BY <1>2, ExitIInv
<1>3. ASSUME NEW pid \in Pids, Reap(pid) PROVE IInv'
  BY <1>3, ReapIInv
<1>4. ASSUME NEW pid \in Pids, StartLaunches(pid) PROVE IInv'
  BY <1>4, StartLaunchesIInv
<1>5. CASE StartRecords
  BY <1>5, StartRecordsIInv
<1>6. CASE StopVerifies
  BY <1>6, StopVerifiesIInv
<1>7. CASE StopSignals
  BY <1>7, StopSignalsIInv
<1>8. CASE StopEnds
  BY <1>8, StopEndsIInv
<1>9. CASE Crash
  BY <1>9, CrashIInv
<1>10. CASE UNCHANGED vars
  BY <1>10 DEF vars, IInv, Shape, Recorded, Underway
<1> QED
  BY <1>1, <1>2, <1>3, <1>4, <1>5, <1>6, <1>7, <1>8, <1>9, <1>10 DEF Next

\* A running replica that a start reported is named by the record and shown
\* by status, on any host and after any history (start, stop, status).
THEOREM ReplicaNeverLost == Spec => []ReplicaIsKnown
<1>1. IInv => ReplicaIsKnown
  BY DEF IInv, Shape, Recorded, ReplicaIsKnown, Status, Alive
<1> QED
  BY InitIInv, NextIInv, <1>1, PTL DEF Spec
=============================================================================
