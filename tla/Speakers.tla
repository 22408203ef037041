------------------------------ MODULE Speakers ------------------------------
(***************************************************************************)
(* The invited speakers of an event and their answers (SpeakerService).    *)
(*                                                                         *)
(* An answer finds its row by the token of the invitation, and clears the  *)
(* token with an UPDATE that only looks at the id of the row.              *)
(***************************************************************************)
CONSTANTS
    Invitations,
    Answers,       (* requests that answer an invitation, each served once *)
    Nobody         (* neither a request nor an invitation                  *)

ConstantsAssumption == Nobody \notin Answers \cup Invitations

VARIABLES
    invitation,    (* table event_speakers                                 *)
    lock,          (* who holds the row of each invitation                 *)
    answer,        (* the requests                                         *)
    answered,      (* history: answers that were committed                 *)
    overlap        (* history: pairs of requests served at the same time   *)

vars == <<invitation, lock, answer, answered, overlap>>

Row == [status : {"none", "invitado", "confirmado", "declinado"}, token : BOOLEAN]

Answer == [pc : {"idle", "find", "update", "commit", "done", "refused"},
           to : Invitations \cup {Nobody}, accept : BOOLEAN]

Init ==
    /\ invitation = [i \in Invitations |-> [status |-> "none", token |-> FALSE]]
    /\ lock = [i \in Invitations |-> Nobody]
    /\ answer = [r \in Answers |-> [pc |-> "idle", to |-> Nobody, accept |-> FALSE]]
    /\ answered = {}
    /\ overlap = {}

Open == {r \in Answers : answer[r].pc \in {"find", "update", "commit"}}

-----------------------------------------------------------------------------

Invite(i) ==
    /\ invitation[i].status = "none"
    /\ invitation' = [invitation EXCEPT ![i] = [status |-> "invitado", token |-> TRUE]]
    /\ UNCHANGED <<lock, answer, answered, overlap>>

Respond(r) ==
    /\ answer[r].pc = "idle"
    /\ \E i \in Invitations, accept \in BOOLEAN :
        /\ invitation[i].status # "none"
        /\ answer' = [answer EXCEPT ![r] = [pc |-> "find", to |-> i, accept |-> accept]]
    /\ overlap' = overlap \cup {{r, q} : q \in Open}
    /\ UNCHANGED <<invitation, lock, answered>>

Goes(r, from, to) ==
    /\ answer[r].pc = from
    /\ answer' = [answer EXCEPT ![r].pc = to]
    /\ UNCHANGED <<answered, overlap>>

(* get_by_token: a token used, and cleared, is not found.                  *)
GetByToken(r) ==
    /\ Goes(r, "find", IF invitation[answer[r].to].token THEN "update" ELSE "refused")
    /\ UNCHANGED <<invitation, lock>>

(* The UPDATE waits for whoever holds the row, and finds it by its id.     *)
Flush(r) ==
    /\ Goes(r, "update", "commit")
    /\ lock[answer[r].to] = Nobody
    /\ lock' = [lock EXCEPT ![answer[r].to] = r]
    /\ UNCHANGED invitation

(* Seeded fault: the token is not cleared.                                 *)
RespondedReusable(r) ==
    [status |-> IF answer[r].accept THEN "confirmado" ELSE "declinado", token |-> TRUE]

Responded(r) ==
    [status |-> IF answer[r].accept THEN "confirmado" ELSE "declinado", token |-> FALSE]

Commit(r) ==
    /\ answer[r].pc = "commit"
    /\ answer' = [answer EXCEPT ![r].pc = "done"]
    /\ invitation' = [invitation EXCEPT ![answer[r].to] = Responded(r)]
    /\ lock' = [lock EXCEPT ![answer[r].to] = Nobody]
    /\ answered' = answered \cup {r}
    /\ UNCHANGED overlap

(* The connection or the process is lost.                                  *)
Abort(r) ==
    /\ r \in Open
    /\ Goes(r, answer[r].pc, "refused")
    /\ lock' = [i \in Invitations |-> IF lock[i] = r THEN Nobody ELSE lock[i]]
    /\ UNCHANGED invitation

Next ==
    \/ \E i \in Invitations : Invite(i)
    \/ \E r \in Answers :
        Respond(r) \/ GetByToken(r) \/ Flush(r) \/ Commit(r) \/ Abort(r)

Spec == Init /\ [][Next]_vars

-----------------------------------------------------------------------------
(* Properties *)

TypeOK ==
    /\ invitation \in [Invitations -> Row]
    /\ lock \in [Invitations -> Answers \cup {Nobody}]
    /\ answer \in [Answers -> Answer]
    /\ answered \subseteq Answers
    /\ overlap \subseteq SUBSET Answers

(* RF-10 as far as the token carries it: an invitation answered twice was  *)
(* answered by requests served at the same time.                           *)
OnlyConcurrentAnswersRepeat ==
    \A r, s \in answered : r # s /\ answer[r].to = answer[s].to => {r, s} \in overlap
=============================================================================
