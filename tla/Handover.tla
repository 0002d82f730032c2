------------------------------ MODULE Handover -------------------------------
(***************************************************************************)
(* What the server promises to a client that connects: it is refused, or   *)
(* it is served, once, in the order of acceptance. Between the two it is   *)
(* in a pipe. Nothing enters the pipe unless its receiver lives and is not *)
(* being stopped; what is in it when the receiver has closed is dropped.   *)
(***************************************************************************)
EXTENDS Naturals, Sequences

CONSTANT Connections

VARIABLES
    receiver,   \* the thread that serves: new, live, closing, closed
    offered,    \* connections made and not looked at
    refused,    \* connections turned away
    pipe,       \* connections accepted and not served yet, the oldest first
    served      \* connections served

vars == <<receiver, offered, refused, pipe, served>>

Init ==
    /\ receiver = "new"
    /\ offered = {} /\ refused = {} /\ pipe = <<>> /\ served = {}

InPipe == {pipe[i] : i \in DOMAIN pipe}

Offer(c) ==
    /\ c \notin offered \cup refused \cup InPipe \cup served
    /\ offered' = offered \cup {c}
    /\ UNCHANGED <<receiver, refused, pipe, served>>

Refuse(c) ==
    /\ c \in offered
    /\ offered' = offered \ {c} /\ refused' = refused \cup {c}
    /\ UNCHANGED <<receiver, pipe, served>>

Accept(c) ==
    /\ receiver = "live" /\ c \in offered
    /\ offered' = offered \ {c} /\ pipe' = Append(pipe, c)
    /\ UNCHANGED <<receiver, refused, served>>

\* A receiver that is being stopped finishes what it is at.
Serve ==
    /\ receiver \in {"live", "closing"} /\ pipe # <<>>
    /\ pipe' = Tail(pipe) /\ served' = served \cup {Head(pipe)}
    /\ UNCHANGED <<receiver, offered, refused>>

\* It lives once.
Age ==
    /\ <<receiver, receiver'>> \in
          {<<"new", "live">>, <<"live", "closing">>, <<"closing", "closed">>}
    /\ UNCHANGED <<offered, refused, pipe, served>>

Next ==
    \/ \E c \in Connections : Offer(c) \/ Refuse(c) \/ Accept(c)
    \/ Serve \/ Age

Spec == Init /\ [][Next]_vars
=============================================================================
