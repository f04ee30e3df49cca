-------------------------- MODULE ObserverSessions --------------------------
(***************************************************************************)
(* What the VPN fixture promises about its PACKET records, without         *)
(* threads, monitors or descriptors: a session (one establishment and its  *)
(* observer) belongs to one service instance, an instance has at most one  *)
(* current session, a superseded session logs at most one more record and  *)
(* then ends, and no session is resumed.                                   *)
(***************************************************************************)
EXTENDS Naturals

CONSTANTS Sessions, Owners

VARIABLES
  phase,   \* per session: unused, current, superseded or ended
  owner,   \* per session: the instance it belongs to
  extra    \* per session: records logged after it was superseded

vars == <<phase, owner, extra>>

Init ==
  /\ phase = [s \in Sessions |-> "unused"]
  /\ owner \in [Sessions -> Owners]
  /\ extra = [s \in Sessions |-> 0]

Current(o) == {s \in Sessions : phase[s] = "current" /\ owner[s] = o}

Open(s, o) ==
  /\ phase[s] = "unused" /\ Current(o) = {}
  /\ phase' = [phase EXCEPT ![s] = "current"]
  /\ owner' = [owner EXCEPT ![s] = o]
  /\ UNCHANGED extra

Supersede(o) ==
  /\ phase' = [s \in Sessions |-> IF s \in Current(o) THEN "superseded" ELSE phase[s]]
  /\ UNCHANGED <<owner, extra>>

LateRecord(s) ==
  /\ phase[s] = "superseded" /\ extra[s] = 0
  /\ extra' = [extra EXCEPT ![s] = 1]
  /\ UNCHANGED <<phase, owner>>

\* A session may end at any time; when the process dies, all of them do.
End(S) ==
  /\ \A s \in S : phase[s] \in {"current", "superseded"}
  /\ phase' = [s \in Sessions |-> IF s \in S THEN "ended" ELSE phase[s]]
  /\ UNCHANGED <<owner, extra>>

Next ==
  \/ \E s \in Sessions, o \in Owners : Open(s, o)
  \/ \E o \in Owners : Supersede(o)
  \/ \E s \in Sessions : LateRecord(s)
  \/ \E S \in SUBSET Sessions : End(S)

\* A superseded session does end.
EndSuperseded(s) == phase[s] = "superseded" /\ End({s})

SafeSpec == Init /\ [][Next]_vars

Spec == SafeSpec /\ \A s \in Sessions : WF_vars(EndSuperseded(s))
=============================================================================
