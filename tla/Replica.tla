------------------------------ MODULE Replica ------------------------------
(***************************************************************************)
(* deploy/vllm_replica.py: start, stop and status of one replica by its    *)
(* lifecycle record, on a host where processes exit on their own, PIDs are *)
(* reused by unrelated processes and the tool itself can be interrupted.   *)
(*                                                                         *)
(* A process is a number that is never used twice: it stands for the hash  *)
(* of start time and command that process_identity takes.  Commands for    *)
(* one replica run one at a time.                                          *)
(***************************************************************************)
EXTENDS Integers

CONSTANTS
  Pids,     \* the PIDs of the host
  MaxProcs  \* bound: the processes there ever are

ASSUME ReplicaAssumption == MaxProcs \in Nat /\ 0 \notin Pids

VARIABLES
  owner,     \* the process that holds a PID, or 0; a zombie holds it too
  spawned,   \* the number of processes so far
  leaders,   \* the processes that lead the group of their PID
  dead,      \* the processes that have exited
  record,    \* the lifecycle record: a PID and an identity, or NoRecord
  command,   \* the command that runs, where it is, its PID and its process
  replicas,  \* the processes of the starts that succeeded
  signalled  \* the leaders of the groups that stop has sent its signal to

vars == <<owner, spawned, leaders, dead, record, command, replicas, signalled>>

Procs == 1..MaxProcs
NoRecord == [pid |-> 0, identity |-> 0]
Idle == [at |-> "idle", pid |-> 0, proc |-> 0]

Init ==
  /\ owner = [p \in Pids |-> 0]
  /\ spawned = 0
  /\ leaders = {}
  /\ dead = {}
  /\ record = NoRecord
  /\ command = Idle
  /\ replicas = {}
  /\ signalled = {}

-----------------------------------------------------------------------------
(***************************************************************************)
(* The host.                                                               *)
(***************************************************************************)
Spawn(pid, leads) ==
  /\ owner[pid] = 0 /\ spawned < MaxProcs
  /\ spawned' = spawned + 1
  /\ owner' = [owner EXCEPT ![pid] = spawned']
  /\ leaders' = IF leads THEN leaders \cup {spawned'} ELSE leaders

\* an unrelated process
Fork(pid) ==
  /\ \E leads \in BOOLEAN : Spawn(pid, leads)
  /\ UNCHANGED <<dead, record, command, replicas, signalled>>

\* a process ends, because of a signal or for another reason
Exit(pid) ==
  /\ owner[pid] \notin dead \cup {0}
  /\ dead' = dead \cup {owner[pid]}
  /\ UNCHANGED <<owner, spawned, leaders, record, command, replicas, signalled>>

\* Its PID is free again.  The start that launched it is its parent and, until
\* start returns, the only one to reap it.
Reap(pid) ==
  /\ owner[pid] \in dead
  /\ ~(command.at = "launched" /\ command.pid = pid)
  /\ owner' = [owner EXCEPT ![pid] = 0]
  /\ UNCHANGED <<spawned, leaders, dead, record, command, replicas, signalled>>

-----------------------------------------------------------------------------
(***************************************************************************)
(* The tool.                                                               *)
(***************************************************************************)
\* alive: a signal can be sent to the PID, whosever it is
Alive(pid) == pid \in Pids /\ owner[pid] # 0

\* verify_identity, and the check of the process group
Verified(r) == Alive(r.pid) /\ owner[r.pid] = r.identity /\ owner[r.pid] \in leaders

\* status
Status == [alive |-> Alive(record.pid) /\ owner[record.pid] = record.identity,
           staleOrReused |-> Alive(record.pid) /\ owner[record.pid] # record.identity]

\* the check of start for a replica that runs
NotRunning == record = NoRecord \/ ~Alive(record.pid)

\* start up to Popen
StartLaunches(pid) ==
  /\ command = Idle
  /\ NotRunning
  /\ Spawn(pid, TRUE)
  /\ command' = [at |-> "launched", pid |-> pid, proc |-> spawned']
  /\ UNCHANGED <<dead, record, replicas, signalled>>

\* the rest of start: a process that has exited during startup is an error
StartRecords ==
  /\ command.at = "launched"
  /\ IF command.proc \in dead THEN UNCHANGED <<record, replicas>>
     ELSE /\ record' = [pid |-> command.pid, identity |-> command.proc]
          /\ replicas' = replicas \cup {command.proc}
  /\ command' = Idle
  /\ UNCHANGED <<owner, spawned, leaders, dead, signalled>>

\* stop, up to the signal
StopVerifies ==
  /\ command = Idle /\ record # NoRecord
  /\ Verified(record)
  /\ command' = [at |-> "verified", pid |-> record.pid, proc |-> record.identity]
  /\ UNCHANGED <<owner, spawned, leaders, dead, record, replicas, signalled>>

\* killpg, which goes to whoever leads the group by now, or finds no group
StopSignals ==
  /\ command.at = "verified"
  /\ IF owner[command.pid] \in leaders
     THEN /\ command' = [command EXCEPT !.at = "waiting"]
          /\ signalled' = signalled \cup {owner[command.pid]}
     ELSE command' = Idle /\ UNCHANGED signalled
  /\ UNCHANGED <<owner, spawned, leaders, dead, record, replicas>>

\* Mutation: stop takes the replica for gone at its deadline.
GoneUnchecked(pid) == TRUE

\* the last check of stop
Gone(pid) == ~Alive(pid)

\* the end of stop: the record is unlinked, or the deadline has passed
StopEnds ==
  /\ command.at = "waiting"
  /\ record' = IF Gone(command.pid) THEN NoRecord ELSE record
  /\ command' = Idle
  /\ UNCHANGED <<owner, spawned, leaders, dead, replicas, signalled>>

\* the tool is interrupted
Crash ==
  /\ command # Idle
  /\ command' = Idle
  /\ UNCHANGED <<owner, spawned, leaders, dead, record, replicas, signalled>>

Next ==
  \/ \E pid \in Pids : Fork(pid) \/ Exit(pid) \/ Reap(pid) \/ StartLaunches(pid)
  \/ StartRecords
  \/ StopVerifies
  \/ StopSignals
  \/ StopEnds
  \/ Crash

Spec == Init /\ [][Next]_vars

-----------------------------------------------------------------------------
(***************************************************************************)
(* Properties.                                                             *)
(***************************************************************************)
\* A replica that a start reported as started and that runs is never lost to
\* the tool, whatever PIDs are reused and wherever the tool is interrupted:
\* there is one at most, the record is its record, and status reports it
\* alive (vllm_replica.py start, stop, status).
ReplicaIsKnown ==
  \A p \in replicas \ dead :
    /\ record.identity = p
    /\ Status.alive /\ ~Status.staleOrReused

=============================================================================
