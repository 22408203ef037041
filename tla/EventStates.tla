---------------------------- MODULE EventStates ----------------------------
(***************************************************************************)
(* The life of an event as domain/entities.py tells it, one operation at a *)
(* time: the status follows _EVENT_TRANSITIONS and published_at is set     *)
(* exactly when the event is published.                                    *)
(***************************************************************************)

EventStatus == {"borrador", "pendiente", "publicado", "cancelado"}

(* _EVENT_TRANSITIONS; an event that does not exist yet starts as a draft. *)
Transitions ==
    [absent    |-> {"borrador"},
     borrador  |-> {"pendiente", "publicado", "cancelado"},
     pendiente |-> {"publicado", "borrador", "cancelado"},
     publicado |-> {"cancelado"},
     cancelado |-> {}]

VARIABLES
    status,   (* the status of the event, or "absent"                      *)
    dated     (* whether published_at is set                               *)

life == <<status, dated>>

Init == status = "absent" /\ ~ dated

Move ==
    /\ status' \in Transitions[status]
    /\ dated' = (dated \/ status' = "publicado")

Spec == Init /\ [][Move]_life

(* What a reader may rely on: a published event says since when.           *)
PublishedIsDated == status = "publicado" => dated
=============================================================================
