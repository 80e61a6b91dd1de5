-------------------------------- MODULE Input --------------------------------
(***************************************************************************)
(* What a player selects and orders (game/Input.cc), while the simulation  *)
(* builds and destroys the buildings.                                      *)
(*                                                                         *)
(* The program runs one tick at most between two rounds of input events    *)
(* (game/Main.cc).  Input learns of each building that the tick destroys   *)
(* while it does so (entityx::EntityDestroyedEvent).  What is ordered is   *)
(* sent to the server, and comes back to be run some time later.           *)
(*                                                                         *)
(* Orders that concern the map alone, and those to fire rockets, change    *)
(* nothing here (Terrain has them); the camera is left out.                *)
(***************************************************************************)
EXTENDS Construction

CONSTANTS
  Me,        \* Client::getPlayerId
  MaxSent    \* bound: orders of this player under way at once

ASSUME MeAssumption == Me \in 1 .. Players
ASSUME MaxSentAssumption == MaxSent \in Nat

VARIABLES
  mode,       \* "default", "selected" or "map"
  entities,   \* BuildingSelectedMode::entities
  recent,     \* is it not longer than DOUBLE_CLICK_S since lastSelectionTime?
  timed,      \* history: the last of entities when that time was taken
  owner,      \* GameObject::owner of the buildings
  sent        \* orders of this player under way

selection == <<mode, entities, recent, timed>>
inputVars == <<vars, selection, owner, sent>>

InputInit ==
  /\ Init
  /\ mode = "default" /\ entities = << >> /\ recent = FALSE /\ timed = 0
  /\ owner = [o \in Objects |-> IF o <= Players THEN o ELSE 0]
  /\ sent = << >>
-----------------------------------------------------------------------------
(* Selecting *)

\* What a loop over s collects that passes over all that is not in S.
Keep(kept, x, S) == IF x \in S THEN Append(kept, x) ELSE kept

Kept(s, S) ==
  LET after[i \in 0 .. Len(s)] ==
        IF i = 0 THEN << >> ELSE Keep(after[i - 1], s[i], S)
  IN  after[Len(s)]

Select(s) ==
  /\ mode' = "selected" /\ entities' = s
  /\ recent' = TRUE /\ timed' = Last(s)

Deselect(m) ==
  mode' = m /\ entities' = << >> /\ recent' = FALSE /\ UNCHANGED timed

\* Mutant of Added: what is selected already is added again.
AddedAgain(es) == entities \o es

\* BuildingSelectedMode::add.  es holds no building twice.
Added(es) == entities \o Kept(es, Objects \ Range(entities))

\* The first click on a building or the map.
ClickFirst(pick) ==
  /\ mode = "default"
  /\ IF pick \in standing THEN Select(<<pick>>) ELSE Deselect("map")

\* A click on the last building of the selection, so soon after it was made,
\* selects all others of its kind, too, if it is the player's.
DoubleClicked(pick) == pick = Last(entities) /\ recent

Alike(pick) ==
  {o \in standing \ {pick} :
     type[o] = type[pick] /\ owner[o] = owner[pick] /\ owner[o] = Me}

Clicked(pick) ==
  {<<pick>> \o others :
     others \in SetToSeqs(IF DoubleClicked(pick) THEN Alike(pick) ELSE {})}

\* A later click, with or without the control key.
Click(pick) ==
  /\ mode = "selected"
  /\ IF pick \in standing
       THEN \E es \in Clicked(pick) : Select(es) \/ Select(Added(es))
       ELSE Deselect("default")

\* The rectangle is drawn, or given up.
LeaveMap == mode = "map" /\ Deselect("default")

TimePasses ==
  /\ recent /\ recent' = FALSE
  /\ UNCHANGED <<mode, entities, timed>>
-----------------------------------------------------------------------------
(* Ordering.  Client::order sends what is valid when it is ordered.         *)

BuildOrder(m, t)     == [kind |-> "BUILD", from |-> m, what |-> t]
ConstructOrder(m, o) == [kind |-> "CONSTRUCT", from |-> m, to |-> o]

Orders ==
  {BuildOrder(m, t) : m \in Objects, t \in Types}
    \cup {ConstructOrder(m, o) : m, o \in Objects}

SendOrders(orders) ==
  /\ Len(sent \o orders) <= MaxSent
  /\ sent' = sent \o orders

\* onKey: the first of a selection of main buildings is to build.
PressKey(t) ==
  /\ mode = "selected"
  /\ \A o \in Range(entities) : type[o] = Main
  /\ Usable(Head(entities))
  /\ SendOrders(<<BuildOrder(Head(entities), t)>>)

\* The right button: every main building that is selected is to build what is
\* picked.
RightClick(pick) ==
  LET ordered == Kept(entities, {m \in MainBuildings : ConstructValid(m, pick)})
  IN  /\ mode = "selected" /\ pick \in standing /\ ordered # << >>
      /\ SendOrders([i \in DOMAIN ordered |-> ConstructOrder(ordered[i], pick)])

\* The order is run, if it still is valid.
CarryOut(order) ==
  \/ \E m \in standing, t \in Types :
       /\ order = BuildOrder(m, t) /\ Build(m, t)
       /\ owner' = [owner EXCEPT ![created'] = Me]
  \/ \E m \in standing, o \in standing :
       /\ order = ConstructOrder(m, o) /\ ConstructNow(m, o)
       /\ UNCHANGED owner

\* Otherwise nothing happens.  (A place that was free to build on may have
\* been taken.)
Refused(order) ==
  \A m \in standing, o \in standing :
    order = ConstructOrder(m, o) => ~ ConstructValid(m, o)

RunSent ==
  /\ sent # << >>
  /\ sent' = Tail(sent)
  /\ \/ CarryOut(Head(sent))
     \/ Refused(Head(sent)) /\ UNCHANGED <<vars, owner>>
  /\ UNCHANGED selection

\* Orders of the other players.
OthersBuild(p, m, t) ==
  Build(m, t) /\ owner' = [owner EXCEPT ![created'] = p]

OthersConstruct(m, o) ==
  (ConstructLater(m, o) \/ ConstructNow(m, o)) /\ UNCHANGED owner
-----------------------------------------------------------------------------
(* Buildings are destroyed.  Here s is the selection in the course of that. *)

\* Mutants of Received: the last one is removed like any other; the rest is
\* not kept; the time is.
EmptiedReceived(s, e) ==
  IF e \in Range(s.entities)
    THEN [mode |-> s.mode, entities |-> Kept(s.entities, Objects \ {e}),
          recent |-> s.recent /\ e # Last(s.entities)]
    ELSE s
HastyReceived(s, e) ==
  IF e \in Range(s.entities)
    THEN [mode |-> "default", entities |-> << >>, recent |-> FALSE]
    ELSE s
TimelessReceived(s, e) ==
  IF s.entities = <<e>>
    THEN [mode |-> "default", entities |-> << >>, recent |-> FALSE]
    ELSE [s EXCEPT !.entities = Kept(@, Objects \ {e})]

\* Input::receive and BuildingSelectedMode::remove.
Received(s, e) ==
  CASE e \notin Range(s.entities) -> s
    [] s.entities = <<e>>         ->
         [mode |-> "default", entities |-> << >>, recent |-> FALSE]
    [] OTHER                      ->
         [mode     |-> s.mode,
          entities |-> Kept(s.entities, Objects \ {e}),
          recent   |-> s.recent /\ e # Last(s.entities)]

\* The events of what is destroyed, one after the other.
ReceivedAll(order) ==
  LET after[i \in 0 .. Len(order)] ==
        IF i = 0
          THEN [mode |-> mode, entities |-> entities, recent |-> recent]
          ELSE Received(after[i - 1], order[i])
  IN  after[Len(order)]

\* Sim::runTick, with the events of what it destroys, in some order.
InputTick ==
  /\ Tick(SUBSET Flights)
  /\ \E order \in SetToSeqs(standing \ standing') :
       LET s == ReceivedAll(order)
       IN  mode' = s.mode /\ entities' = s.entities /\ recent' = s.recent
  /\ UNCHANGED <<timed, owner, sent>>

InputNext ==
  \/ /\ \/ \E pick \in standing \cup {0} : ClickFirst(pick) \/ Click(pick)
        \/ LeaveMap
        \/ TimePasses
     /\ UNCHANGED <<vars, owner, sent>>
  \/ /\ \/ \E t \in Types : PressKey(t)
        \/ \E pick \in standing : RightClick(pick)
     /\ UNCHANGED <<vars, owner, selection>>
  \/ RunSent
  \/ /\ \/ \E p \in (1 .. Players) \ {Me}, m \in standing, t \in Types :
             OthersBuild(p, m, t)
        \/ \E m \in standing, o \in standing : OthersConstruct(m, o)
     /\ UNCHANGED <<selection, sent>>
  \/ InputTick

InputSpec == InputInit /\ [][InputNext]_inputVars
-----------------------------------------------------------------------------
\* Something is selected exactly in the mode of that name (the assert of
\* Input.cc:55).
InputTypeOK ==
  /\ mode \in {"default", "selected", "map"}
  /\ mode = "selected" <=> entities # << >>
  /\ entities \in Seq(Objects) /\ timed \in Objects \cup {0}
  /\ recent \in BOOLEAN
  /\ owner \in [Objects -> 0 .. Players]
  /\ sent \in Seq(Orders) /\ Len(sent) <= MaxSent

\* What is selected stands (else the next click reads a component that is
\* gone) and is selected once (the assert of Input.cc:93): also when one tick
\* destroys several, and when clicks add to what was selected before.
SelectedStand ==
  /\ Range(entities) \subseteq standing
  /\ IsInjective(entities)

\* A tick takes nothing from a selection but what it destroys.
SelectionKept ==
  [][standing \ standing' # {} =>
       entities' = Kept(entities, standing')]_inputVars

\* While the time of the last selection counts, the building that is last is
\* the one that was last when it was taken: by the destruction of that one no
\* other inherits the time, to be double clicked by a single click
\* (Input.cc:85).
TimeNotInherited == recent => entities # << >> /\ Last(entities) = timed
=============================================================================
