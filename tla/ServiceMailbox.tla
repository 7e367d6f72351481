--------------------------- MODULE ServiceMailbox ---------------------------
(***************************************************************************)
(* What the scheduler of oimo promises to the author of a service,         *)
(* without queues of queues, flags or locks (README.md:32 and :21):        *)
(* every service owns a FIFO mailbox; a worker thread has to be admitted   *)
(* to a service before it may take a packle out of its mailbox; and no     *)
(* worker is admitted while another one is inside.                         *)
(***************************************************************************)
EXTENDS Sequences

CONSTANTS Services,  \* the services (one ServiceContext each)
          Workers,   \* the worker threads
          Packles    \* the messages

VARIABLES box,       \* box[s]: packles sent to s and not yet taken
          inside     \* inside[s]: the workers executing code of s

vars == <<box, inside>>

TypeOK ==
    /\ box \in [Services -> Seq(Packles)]
    /\ inside \in [Services -> SUBSET Workers]

Init ==
    /\ box = [s \in Services |-> <<>>]
    /\ inside = [s \in Services |-> {}]

\* Anybody may send at any time; a packle goes to the tail of one mailbox.
Send(s, p) ==
    /\ box' = [box EXCEPT ![s] = Append(@, p)]
    /\ UNCHANGED inside

\* A worker is admitted only to a service nobody is inside of.
Enter(w, s) ==
    /\ inside[s] = {}
    /\ inside' = [inside EXCEPT ![s] = {w}]
    /\ UNCHANGED box

\* Only the worker inside takes packles, always the oldest one.
Take(w, s) ==
    /\ w \in inside[s]
    /\ box[s] # <<>>
    /\ box' = [box EXCEPT ![s] = Tail(@)]
    /\ UNCHANGED inside

Leave(w, s) ==
    /\ w \in inside[s]
    /\ inside' = [inside EXCEPT ![s] = @ \ {w}]
    /\ UNCHANGED box

Next ==
    \E s \in Services :
        \/ \E p \in Packles : Send(s, p)
        \/ \E w \in Workers : Enter(w, s) \/ Take(w, s) \/ Leave(w, s)

Spec == Init /\ [][Next]_vars
=============================================================================
