------------------------------ MODULE TickLog ------------------------------
(***************************************************************************)
(* What the lockstep protocol of the game promises, without its messages.  *)
(*                                                                         *)
(* The game is one log of order batches, one batch per tick.  Every        *)
(* client runs a deterministic simulation (Sim::runTick), so its game      *)
(* state is a function of the batches it has run: here the client's view   *)
(* is simply that sequence.  Clients may be at different ticks, but all    *)
(* views are prefixes of the one log, and the log never gets more than     *)
(* Window ticks ahead of a client that is still in the game.               *)
(*                                                                         *)
(* Lockstep.tla is shown to implement this specification.                  *)
(***************************************************************************)
EXTENDS Naturals, Sequences

CONSTANTS
  Clients,    \* the client processes that may ever connect
  Batch,      \* the possible contents of one tick: sequences of orders
  Window      \* how many ticks the log may be ahead of a member's view

VARIABLES
  started,    \* has the game started?
  members,    \* the clients the log waits for
  batches,    \* the log: batches[t] is what tick t runs
  view        \* view[c]: the batches client c has run, in order

vars == <<started, members, batches, view>>

TypeOK ==
  /\ started \in BOOLEAN
  /\ members \subseteq Clients
  /\ batches \in Seq(Batch)
  /\ view \in [Clients -> Seq(Batch)]

\* t is s followed by n more batches.
ExtendedBy(s, t, n) ==
  /\ t \in Seq(Batch)
  /\ Len(t) = Len(s) + n
  /\ SubSeq(t, 1, Len(s)) = s

Init ==
  /\ started = FALSE
  /\ members = {}
  /\ batches = <<>>
  /\ view = [c \in Clients |-> <<>>]

\* The game starts with a full window of ticks.
Start ==
  /\ ~started
  /\ started' = TRUE
  /\ members' \in SUBSET Clients
  /\ ExtendedBy(batches, batches', Window)
  /\ UNCHANGED view

\* A tick is added to the log.  No member may be a full window behind.
Publish ==
  /\ started
  /\ \A c \in members : Len(batches) < Len(view[c]) + Window
  /\ ExtendedBy(batches, batches', 1)
  /\ UNCHANGED <<started, members, view>>

\* A client runs the next tick of the log.
Run(c) ==
  /\ Len(view[c]) < Len(batches)
  /\ view' = [view EXCEPT ![c] = Append(@, batches[Len(@) + 1])]
  /\ UNCHANGED <<started, members, batches>>

\* A member leaves, and is not waited for any more.
Leave(c) ==
  /\ c \in members
  /\ members' = members \ {c}
  /\ UNCHANGED <<started, batches, view>>

Next ==
  \/ Start
  \/ Publish
  \/ \E c \in Clients : Run(c) \/ Leave(c)

Spec == Init /\ [][Next]_vars
=============================================================================
