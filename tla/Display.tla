------------------------------ MODULE Display --------------------------------
(***************************************************************************)
(* What the provider promises to a host that shows its tile: the host asks *)
(* about the tile in several calls, and the tile may change between any    *)
(* two of them; from then on a notice is due, until the host has forgotten *)
(* its answers. Nothing is promised of the answers of a provider that has  *)
(* no client to ask.                                                       *)
(***************************************************************************)

VARIABLES
    working,    \* the provider has a client
    tile,       \* the tile it is at: message, or sample after the login
    answers,    \* the tiles the host's calls were answered with
    due         \* the host was told to ask again, or is about to be

vars == <<working, tile, answers, due>>

Init == ~working /\ tile = "message" /\ answers = {} /\ ~due

Open ==
    /\ ~working /\ working' /\ answers = {}
    /\ UNCHANGED <<tile, answers, due>>

Answer(a) ==
    /\ working => a = tile
    /\ answers' = answers \cup {a}
    /\ UNCHANGED <<working, tile, due>>

\* There is no way back.
Login ==
    /\ working
    /\ tile = "message" /\ tile' = "sample" /\ due'
    /\ UNCHANGED <<working, answers>>

\* The host may be told for no reason.
Tell == due' /\ UNCHANGED <<working, tile, answers>>

\* The host asks again, leaves, or ends.
Forget == answers' = {} /\ UNCHANGED <<working, tile>>

\* The notices of the client go with it.
Close ==
    /\ ~working' /\ answers = {}
    /\ UNCHANGED <<tile, answers>>

\* Another host begins.
Restart == ~working' /\ tile' = "message" /\ answers' = {} /\ ~due'

Next ==
    \/ Open \/ Login \/ Tell \/ Forget \/ Close \/ Restart
    \/ \E a \in {"message", "sample"} : Answer(a)

Spec == Init /\ [][Next]_vars
=============================================================================
