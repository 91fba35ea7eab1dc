---------------------------- MODULE ExclusiveLease ----------------------------
(* What the lease in a staging record promises: one writer per area at a time,
   and a reservation only the GUI workspace can take up or give up.           *)
CONSTANTS
    Areas,
    Owners,       \* who can hold a lease
    Reservers,    \* the owners that can leave a reservation behind
    Free,         \* nobody holds the area
    Reservation   \* the area is kept for the GUI workspace

VARIABLE holder

Init == holder = [a \in Areas |-> Free]

Take(a, o) ==
    /\ holder[a] = Free
    /\ holder' = [holder EXCEPT ![a] = o]

Resume(a, o) ==
    /\ holder[a] = Reservation
    /\ o \in Reservers
    /\ holder' = [holder EXCEPT ![a] = o]

\* The owner lets go, or dies.
Drop(a) ==
    /\ holder[a] \in Owners
    /\ holder' = [holder EXCEPT ![a] = Free]

Reserve(a) ==
    /\ holder[a] \in Reservers
    /\ holder' = [holder EXCEPT ![a] = Reservation]

\* The GUI workspace is reset or replaced.
Discard(a) ==
    /\ holder[a] = Reservation
    /\ holder' = [holder EXCEPT ![a] = Free]

Next ==
    \E a \in Areas :
        \/ \E o \in Owners : Take(a, o) \/ Resume(a, o)
        \/ Drop(a)
        \/ Reserve(a)
        \/ Discard(a)

Spec == Init /\ [][Next]_holder
=============================================================================
