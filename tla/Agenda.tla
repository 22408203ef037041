------------------------------- MODULE Agenda -------------------------------
(***************************************************************************)
(* The agenda of an event (EventService.add_session).                      *)
(*                                                                         *)
(* A session is checked against the sessions that are committed and then   *)
(* inserted; nothing is locked between the two, and the table has no       *)
(* constraint on overlaps.                                                 *)
(***************************************************************************)
EXTENDS Integers

CONSTANTS
    Tracks,
    NoTrack,       (* a session may have no track                          *)
    MaxTime,       (* bound: times of the agenda                           *)
    Adds           (* requests that add a session; each is served once     *)

ConstantsAssumption == NoTrack \notin Tracks /\ MaxTime \in Nat

VARIABLES
    sessions,      (* table event_sessions, by the request that adds it    *)
    add,           (* the requests                                         *)
    overlap        (* history: pairs of requests served at the same time   *)

vars == <<sessions, add, overlap>>

Slot == [track : Tracks \cup {NoTrack}, starts_at : 0 .. MaxTime, ends_at : 0 .. MaxTime]

NoSlot == [track |-> NoTrack, starts_at |-> 0, ends_at |-> 0]

Add == [pc : {"idle", "check", "commit", "done", "refused"}, slot : Slot]

Init ==
    /\ sessions = [r \in Adds |-> NoSlot]
    /\ add = [r \in Adds |-> [pc |-> "idle", slot |-> NoSlot]]
    /\ overlap = {}

Open == {r \in Adds : add[r].pc \in {"check", "commit"}}

-----------------------------------------------------------------------------

(* The validator of SessionCreate.                                         *)
SessionCreate(slot) == slot.starts_at < slot.ends_at

Meet(s, t) == s.starts_at < t.ends_at /\ s.ends_at > t.starts_at

(* Seeded fault: a session that lies within the new one is not seen.       *)
ConflictAtEnds(slot) ==
    /\ slot.track # NoTrack
    /\ \E r \in Adds :
        /\ sessions[r].track = slot.track
        /\ \/ sessions[r].starts_at <= slot.starts_at /\ slot.starts_at < sessions[r].ends_at
           \/ sessions[r].starts_at < slot.ends_at /\ slot.ends_at <= sessions[r].ends_at

(* overlaps_in_track: sessions without a track never conflict.             *)
Conflict(slot) ==
    /\ slot.track # NoTrack
    /\ \E r \in Adds : sessions[r].track = slot.track /\ Meet(sessions[r], slot)

(* The owner of the event is looked up first.                              *)
AddSession(r) ==
    /\ add[r].pc = "idle"
    /\ \E slot \in Slot :
        add' = [add EXCEPT ![r] =
                  [pc |-> IF SessionCreate(slot) THEN "check" ELSE "refused", slot |-> slot]]
    /\ overlap' = overlap \cup {{r, q} : q \in Open}
    /\ UNCHANGED sessions

Check(r) ==
    /\ add[r].pc = "check"
    /\ add' = [add EXCEPT ![r].pc = IF Conflict(add[r].slot) THEN "refused" ELSE "commit"]
    /\ UNCHANGED <<sessions, overlap>>

CommitSession(r) ==
    /\ add[r].pc = "commit"
    /\ add' = [add EXCEPT ![r].pc = "done"]
    /\ sessions' = [sessions EXCEPT ![r] = add[r].slot]
    /\ UNCHANGED overlap

(* The connection or the process is lost.                                  *)
Abort(r) ==
    /\ r \in Open
    /\ add' = [add EXCEPT ![r].pc = "refused"]
    /\ UNCHANGED <<sessions, overlap>>

Next == \E r \in Adds : AddSession(r) \/ Check(r) \/ CommitSession(r) \/ Abort(r)

Spec == Init /\ [][Next]_vars

-----------------------------------------------------------------------------
(* Properties *)

TypeOK ==
    /\ sessions \in [Adds -> Slot]
    /\ \A r \in Adds : sessions[r] # NoSlot => sessions[r].starts_at < sessions[r].ends_at
    /\ add \in [Adds -> Add]
    /\ overlap \subseteq SUBSET Adds

Clash(r, s) ==
    /\ sessions[r].track # NoTrack
    /\ sessions[r].track = sessions[s].track
    /\ Meet(sessions[r], sessions[s])

(* RF-09 as far as the check carries it: sessions of a track that overlap  *)
(* were added by requests served at the same time.                         *)
OnlyConcurrentSessionsClash ==
    \A r, s \in Adds : r # s /\ Clash(r, s) => {r, s} \in overlap
=============================================================================
