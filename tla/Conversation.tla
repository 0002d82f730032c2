---------------------------- MODULE Conversation -----------------------------
(***************************************************************************)
(* What a login is to one machine: it asks, is refused at most until its   *)
(* key is known, is allowed, and is logged in. No step of Next goes back   *)
(* before it is cut off. Only the environment starts a machine afresh, and *)
(* Restart, which is no part of Next, says what that does. Nothing is      *)
(* promised to a machine that inherited the unread bytes of another.       *)
(***************************************************************************)

VARIABLES
    phase,      \* asking, refused, allowed, in, cut
    known,      \* the server has registered the machine's key
    trusted     \* the machine was given a connection of its own

vars == <<phase, known, trusted>>

Init == phase = "asking" /\ trusted /\ ~known

\* Whoever asks with a key makes it known.
Register == known' /\ UNCHANGED <<phase, trusted>>

\* One refusal is enough to be allowed the next time.
Refuse ==
    /\ phase = "asking" /\ phase' = "refused"
    /\ known
    /\ UNCHANGED <<known, trusted>>

Allow ==
    /\ phase \in {"asking", "refused"} /\ phase' = "allowed"
    /\ known
    /\ UNCHANGED <<known, trusted>>

Enter ==
    /\ phase = "allowed" /\ phase' = "in"
    /\ UNCHANGED <<known, trusted>>

\* A machine that is in stays in: it has what it came for.
Cut ==
    /\ phase # "in" /\ phase' = "cut"
    /\ UNCHANGED <<known, trusted>>

\* The machine forgets how far it was.
Restart ==
    /\ phase' = "asking" /\ trusted'
    /\ UNCHANGED known

\* It is given a connection that holds bytes of another.
Distrust ==
    /\ phase = "asking" /\ ~trusted'
    /\ UNCHANGED known

\* Whatever an untrusted machine takes its replies for.
Stray ==
    /\ ~trusted /\ ~trusted'
    /\ known => known'

Next == Register \/ Refuse \/ Allow \/ Enter \/ Cut \/ Distrust \/ Stray

Spec == Init /\ [][Next]_vars
=============================================================================
