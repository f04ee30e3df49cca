--------------------------- MODULE PacketRecords ---------------------------
(***************************************************************************)
(* One observer of the VPN fixture: the loop body of observe() and the     *)
(* PacketLogBudget it asks before every PACKET record.  A new              *)
(* establishment makes a new observer and a new budget.                    *)
(***************************************************************************)
EXTENDS PacketHeaders

CONSTANTS
  CONTROLLED_LIMIT, BACKGROUND_LIMIT,   \* 8 and 64 in PacketLogBudget
  Packets,                              \* the packets that arrive
  MaxSeen                               \* bound: packets counted per tuple

ASSUME LimitsAssumption ==
  CONTROLLED_LIMIT \in Nat /\ BACKGROUND_LIMIT \in Nat /\ MaxSeen \in Nat
ASSUME PacketsAssumption == Packets \subseteq Headers(Nat, Nat)

\* The controlled tuples, in the order of their slots.
Controlled == <<
  Record(4, "tcp", "host-control", 46151),
  Record(4, "tcp", "host-control", 46153),
  Record(4, "udp", "documentation-v4", 46152),
  Record(4, "udp", "documentation-v4", 46154),
  Record(4, "udp", "synthetic-dns", 53),
  Record(6, "udp", "documentation-v6", 46152),
  Record(6, "udp", "documentation-v6", 46154) >>

Slots == 1..7      \* controlled[0..6]
Background == 0    \* signature -1

\* What a record counts as: its tuple if that is controlled, NoRecord for the rest.
ControlledTuples == {Controlled[k] : k \in Slots}
Classes == ControlledTuples \cup {NoRecord}
Class(r) == IF r \in ControlledTuples THEN r ELSE NoRecord

\* The tuples require_tun_operation demands, in the analyzer's own table.
TunSignatures == {
  Record(4, "tcp", "host-control", 46151),       \* JAVA_TCP4
  Record(4, "udp", "documentation-v4", 46152),   \* JAVA_UDP4
  Record(4, "tcp", "host-control", 46153),       \* NATIVE_TCP4
  Record(4, "udp", "documentation-v4", 46154),   \* NATIVE_UDP4
  Record(4, "udp", "synthetic-dns", 53) }        \* DNS_LOOKUP_TEST

Signature(r) ==
  IF r \in ControlledTuples
  THEN CHOOSE k \in Slots : Controlled[k] = r
  ELSE Background

VARIABLES
  controlled, background,   \* PacketLogBudget
  count,                    \* observe(): ordinal of the last record
  seen, logged              \* history: per class, packets read and records logged

budgetVars == <<controlled, background, count, seen, logged>>

BudgetInit ==
  /\ controlled = [k \in Slots |-> 0] /\ background = 0
  /\ count = 0
  /\ seen = [c \in Classes |-> 0] /\ logged = [c \in Classes |-> 0]

\* Mutant: one shared budget, as before the seven were reserved.
FullShared(slot) == count >= BACKGROUND_LIMIT

Full(slot) ==
  IF slot = Background THEN background >= BACKGROUND_LIMIT
                       ELSE controlled[slot] >= CONTROLLED_LIMIT

\* Mutant: the background is not counted.
TakeUncounted(slot) ==
  /\ slot = Background => UNCHANGED controlled
  /\ slot # Background => controlled' = [controlled EXCEPT ![slot] = @ + 1]
  /\ UNCHANGED background

\* shouldEmit(): takes a place of the slot's budget.
Take(slot) ==
  IF slot = Background
  THEN background' = background + 1 /\ UNCHANGED controlled
  ELSE controlled' = [controlled EXCEPT ![slot] = @ + 1] /\ UNCHANGED background

\* One turn of the loop with a packet in hand; a malformed one reaches no budget.
Read(h) ==
  LET r == Sanitised(h)
      c == Class(r)
  IN
  /\ r # NoRecord /\ seen[c] < MaxSeen
  /\ seen' = [seen EXCEPT ![c] = @ + 1]
  /\ IF Full(Signature(r))
     THEN UNCHANGED <<controlled, background, count, logged>>
     ELSE /\ Take(Signature(r))
          /\ count' = count + 1
          /\ logged' = [logged EXCEPT ![c] = @ + 1]

BudgetNext == \E h \in Packets : Read(h)

BudgetSpec == BudgetInit /\ [][BudgetNext]_budgetVars

-----------------------------------------------------------------------------
(* Properties.                                                             *)

\* Every variable has its type, the budget's counters within their limits.
TypeOK ==
  /\ controlled \in [Slots -> 0..CONTROLLED_LIMIT]
  /\ background \in 0..BACKGROUND_LIMIT
  /\ count \in Nat
  /\ seen \in [Classes -> 0..MaxSeen] /\ logged \in [Classes -> 0..MaxSeen]

\* "At most 120 records" (PacketLogBudget.java:3) per establishment.
RecordsBounded == count <= 7 * CONTROLLED_LIMIT + BACKGROUND_LIMIT

\* Each tuple the analyzer demands (network-evidence.py:127-133) is logged for each of its
\* first CONTROLLED_LIMIT packets, in whatever order and however much other traffic came:
\* evidence is missing from the log only if it was missing from the TUN.
EvidenceNotStarved ==
  \A r \in TunSignatures :
    logged[Class(r)] = IF seen[Class(r)] < CONTROLLED_LIMIT THEN seen[Class(r)] ELSE CONTROLLED_LIMIT
=============================================================================
