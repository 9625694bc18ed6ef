------------------------------ MODULE JobQueue ------------------------------
(***************************************************************************)
(* internal/queue/queue.go over one Redis Stream with one consumer group.  *)
(*                                                                         *)
(* An entry id is its position in the stream.  The group has a cursor (the *)
(* last id it delivered) and a Pending Entries List (PEL): the entries     *)
(* delivered and not yet acknowledged.  XACK and XAUTOCLAIM work on an     *)
(* entry whoever its consumer is, so the consumer of a pending entry is    *)
(* left out.  Idle time is left as one bit: an entry in "idle" has been    *)
(* pending for at least ReclaimMinIdle since it was last delivered or      *)
(* claimed.                                                                *)
(***************************************************************************)
EXTENDS JobStore, Sequences, FiniteSets

CONSTANTS
  ReclaimCount,   \* how many entries one Reclaim call may take (16)
  DeadMaxLen,     \* deadStreamMaxLen, the dead-letter stream's cap (1000)
  ListLimit       \* the limit given to ListDead (100 by default)

ASSUME QueueAssumption ==
  /\ ReclaimCount \in Nat \ {0}
  /\ DeadMaxLen \in Nat \ {0}
  /\ ListLimit \in Nat \ {0}

VARIABLES
  stream,   \* the stream infraforge:jobs, a sequence of messages
  group,    \* whether the consumer group exists
  cursor,   \* the group's last delivered id
  pel,      \* ids delivered and not acknowledged
  idle,     \* the ids of pel that Reclaim may take over
  dead      \* the dead-letter stream infraforge:jobs:dead, oldest first

queueVars == <<stream, group, cursor, pel, idle, dead>>

Message   == [job : Jobs, action : {"provision", "deprovision"}]
DeadEntry == [job : Jobs, attempts : Nat]

QueueTypeOK ==
  /\ stream \in Seq(Message)
  /\ group \in BOOLEAN
  /\ cursor \in 0 .. Len(stream)
  /\ pel \subseteq 1 .. cursor
  /\ idle \subseteq pel
  /\ dead \in Seq(DeadEntry)

QueueInit ==
  /\ stream = << >>
  /\ group = FALSE
  /\ cursor = 0
  /\ pel = {}
  /\ idle = {}
  /\ dead = << >>

Provision(j)   == [job |-> j, action |-> "provision"]
Deprovision(j) == [job |-> j, action |-> "deprovision"]

\* The ids of message m that some worker still has to finish: not delivered
\* yet, or delivered and not acknowledged.
Outstanding(m) ==
  {i \in 1 .. Len(stream) : stream[i] = m /\ (i > cursor \/ i \in pel)}

-----------------------------------------------------------------------------
\* XGROUP CREATE ... $: a new group starts after the entries already in the
\* stream.  An existing group (BUSYGROUP) is left as it is.
EnsureGroup ==
  /\ group' = TRUE
  /\ cursor' = IF group THEN cursor ELSE Len(stream)
  /\ UNCHANGED <<stream, pel, idle, dead>>

Enqueue(m) ==
  /\ stream' = Append(stream, m)
  /\ UNCHANGED <<group, cursor, pel, idle, dead>>

\* Mutant of Deliver: XREADGROUP with NOACK, the entry never becomes pending.
DeliverNoAck ==
  /\ group
  /\ cursor < Len(stream)
  /\ cursor' = cursor + 1
  /\ UNCHANGED <<stream, group, pel, idle, dead>>

\* XREADGROUP ">" with Count 1: the next entry the group never delivered
\* becomes pending.
Deliver ==
  /\ group
  /\ cursor < Len(stream)
  /\ cursor' = cursor + 1
  /\ pel' = pel \cup {cursor + 1}
  /\ UNCHANGED <<stream, group, idle, dead>>

\* Mutant of Claimable: the minimum idle time is forgotten.
ClaimableAnyPending ==
  {B \in SUBSET pel : B # {} /\ Cardinality(B) <= ReclaimCount}

\* What one XAUTOCLAIM from "0-0" takes: the first ReclaimCount idle entries.
Claimable ==
  {B \in SUBSET idle :
     /\ B # {}
     /\ Cardinality(B) <= ReclaimCount
     /\ B = idle \/ Cardinality(B) = ReclaimCount
     /\ \A b \in B, i \in idle \ B : b < i}

\* Claiming an entry restarts its idle time.
Claim(B) ==
  /\ idle' = idle \ B
  /\ UNCHANGED <<stream, group, cursor, pel, dead>>

Ack(i) ==
  /\ pel' = pel \ {i}
  /\ idle' = idle \ {i}
  /\ UNCHANGED <<stream, group, cursor, dead>>

\* ReclaimMinIdle passes for a pending entry.
BecomeIdle(i) ==
  /\ i \in pel \ idle
  /\ idle' = idle \cup {i}
  /\ UNCHANGED <<stream, group, cursor, pel, dead>>

\* XADD with MAXLEN ~ DeadMaxLen: the oldest entries beyond the cap may go,
\* never one within it.
DeadLetter(e) ==
  LET grown == Append(dead, e) IN
  /\ \E cut \in 0 .. Len(grown) :
       /\ cut = 0 \/ Len(grown) - cut >= DeadMaxLen
       /\ dead' = SubSeq(grown, cut + 1, Len(grown))
  /\ UNCHANGED <<stream, group, cursor, pel, idle>>

\* XRANGE - + COUNT limit.
ListDead(limit) == SubSeq(dead, 1, IF limit < Len(dead) THEN limit ELSE Len(dead))

=============================================================================
