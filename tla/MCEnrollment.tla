---------------------------- MODULE MCEnrollment ----------------------------
(* Small instances of Enrollment: the rows organizers give to an event.    *)
EXTENDS Enrollment, TLC

CONSTANTS u1, u2, k1, k2, r1, r2

Fixed(capacity, paid) ==
    [status |-> "publicado", capacity |-> capacity, paid |-> paid, starts |-> MaxNow]

OnePaidSeat == {Fixed(1, TRUE)}

(* Under way: it still takes registrations, but nobody can cancel.         *)
TwoPaidSeats == {[Fixed(2, TRUE) EXCEPT !.starts = 1]}

(* The organizer raises and lowers the capacity, changes between free and  *)
(* paid, and takes the event down.                                         *)
EditedRows == {Fixed(1, FALSE), Fixed(2, TRUE),
               [Fixed(1, TRUE) EXCEPT !.status = "no_publicado"]}

Symmetry == Permutations(Users) \cup Permutations(Keys) \cup Permutations(Requests)
=============================================================================
