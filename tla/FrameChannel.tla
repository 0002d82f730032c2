---------------------------- MODULE FrameChannel ----------------------------
(***************************************************************************)
(* What the framing layer promises to Protocol::handle_packet: over one    *)
(* connection the frames of the peer are handed over once each, whole, and *)
(* in the order they were sent, for as long as the receiving object is     *)
(* trusted, that is, started the connection empty and lost no byte since.  *)
(* An object that is not trusted may hand over anything.                   *)
(***************************************************************************)
EXTENDS Naturals, Sequences

VARIABLES
    sent,       \* the frames the peer wrote on this connection
    received,   \* the frames handed to handle_packet on this connection
    trusted     \* the receiver is in step with the peer

vars == <<sent, received, trusted>>

Init ==
    /\ sent = <<>>
    /\ received = <<>>
    /\ trusted = TRUE

\* The peer writes one more frame, any frame.
Send ==
    /\ Len(sent') = Len(sent) + 1
    /\ \A i \in DOMAIN sent : sent'[i] = sent[i]
    /\ UNCHANGED <<received, trusted>>

\* The next frame in order is handed over.
Deliver ==
    /\ trusted
    /\ Len(received) < Len(sent)
    /\ received' = Append(received, sent[Len(received) + 1])
    /\ UNCHANGED <<sent, trusted>>

\* A byte is lost or the buffer is overrun; from now on anything goes.
Corrupt ==
    /\ trusted' = FALSE
    /\ UNCHANGED sent

\* The object serves another connection. Only a new connection can restore
\* the trust.
Reopen ==
    /\ sent' = <<>>
    /\ received' = <<>>
    /\ trusted' \in BOOLEAN

Next == Send \/ Deliver \/ Corrupt \/ Reopen

Spec == Init /\ [][Next]_vars
=============================================================================
