------------------------------ MODULE Tickets ------------------------------
(***************************************************************************)
(* The workflow of maintenance tickets (MaintenanceService, the agent's    *)
(* routes, the tenant's confirmation): creation with its automatic          *)
(* assignment, the moves of the staff and of the agent, photos, the notice  *)
(* that asks the tenant to confirm, closing.  Each request reads the ticket, *)
(* checks its status and writes it by id without looking at it again.       *)
(* The apartment of the ticket is followed in Occupancy.  CANCELLED is       *)
(* never written.                                                          *)
(* Bounds: MaxTickets, MaxPhotos, MaxStops.                                 *)
(***************************************************************************)
EXTENDS Naturals, FiniteSets

CONSTANTS
  Handlers,     \* requests being served
  Agents,       \* active maintenance agents of the organisation
  MaxTickets,   \* tickets created
  MaxPhotos,    \* photos of one ticket
  MaxStops      \* tickets of which a request fails half-way

ASSUME TicketsAssumption ==
  /\ IsFiniteSet(Agents) /\ Agents \cap {"nobody", "outside", "staff"} = {}
  /\ MaxTickets \in Nat /\ MaxPhotos \in Nat /\ MaxStops \in Nat

Tickets == 1..MaxTickets

VARIABLES
  status,    \* status of each ticket, or "NONE"
  agent,     \* who it is assigned to: an agent, "outside" or "nobody"
  asked,     \* a notice "confirmez la resolution" is active
  photos,    \* photos in its list
  call,      \* requests in progress
  starter,   \* history: who started the intervention
  handed,    \* history: tickets that were assigned
  stale,     \* history: tickets written by a request that had read them before
             \* another wrote their status, assignee or notice
  stops      \* history: tickets of which a request failed half-way

vars == <<status, agent, asked, photos, call, starter, handed, stale, stops>>
work == <<status, agent, starter, handed>>

Unfinished == {"OPEN", "ASSIGNED", "IN_PROGRESS"}
Statuses   == Unfinished \cup {"COMPLETED", "CLOSED"}

Places == {"idle", "choose", "hand", "assign", "move", "write", "tell", "close",
           "resolve", "take", "refuse", "photo"}

\* A request: its step, its ticket, who makes it, the status or the assignee it
\* is to write, whether it goes on to close, the photos it read, and whether
\* what it writes is as it read it.
Idle == [at |-> "idle", t |-> 0, by |-> "staff", goal |-> "OPEN", to |-> "nobody",
         closes |-> FALSE, seen |-> 0, fresh |-> TRUE]

Init ==
  /\ status = [t \in Tickets |-> "NONE"]
  /\ agent = [t \in Tickets |-> "nobody"]
  /\ asked = [t \in Tickets |-> FALSE]
  /\ photos = [t \in Tickets |-> 0]
  /\ call = [h \in Handlers |-> Idle]
  /\ starter = [t \in Tickets |-> "nobody"]
  /\ handed = {} /\ stale = {} /\ stops = {}

At(h, place) == call[h].at = place
Go(h, next)  == call' = [call EXCEPT ![h] = next]
Return(h)    == Go(h, Idle)

\* The request h begins: it has read the ticket t of that status.
Begin(h, t, from, next) ==
  /\ At(h, "idle") /\ status[t] \in from
  /\ Go(h, [next EXCEPT !.t = t])
  /\ UNCHANGED <<work, asked, photos, stale, stops>>

\* The same for a request of the agent the ticket is assigned to: getForAgent.
AgentBegin(h, t, from, next) ==
  agent[t] \in Agents /\ Begin(h, t, from, [next EXCEPT !.by = agent[t]])

\* The request h writes the status, the assignee or the notices of its ticket,
\* and goes on as next.
Write(h, next) ==
  LET t == call[h].t IN
  /\ call' = [g \in Handlers |->
       IF g = h THEN next ELSE [call[g] EXCEPT !.fresh = @ /\ call[g].t # t]]
  /\ stale' = IF call[h].fresh THEN stale ELSE stale \cup {t}

-----------------------------------------------------------------------------
(* Creation and assignment. *)

\* Mutant: the assignment is left to the staff.
CreateOnly(h) ==
  /\ At(h, "idle")
  /\ \E t \in Tickets :
       /\ status[t] = "NONE" /\ \A u \in 1..(t - 1) : status[u] # "NONE"
       /\ status' = [status EXCEPT ![t] = "OPEN"]
  /\ UNCHANGED <<agent, asked, photos, call, starter, handed, stale, stops>>

\* create; an agent is chosen when there is one.
Create(h) ==
  /\ At(h, "idle")
  /\ \E t \in Tickets :
       /\ status[t] = "NONE" /\ \A u \in 1..(t - 1) : status[u] # "NONE"
       /\ status' = [status EXCEPT ![t] = "OPEN"]
       /\ IF Agents = {} THEN UNCHANGED call
                         ELSE Go(h, [Idle EXCEPT !.at = "choose", !.t = t])
  /\ UNCHANGED <<agent, asked, photos, starter, handed, stale, stops>>

Load(a) == Cardinality({t \in Tickets : agent[t] = a /\ status[t] \in Unfinished})

\* tryAutoAssign: one of those with the fewest unfinished tickets (the first
\* by name).
Choose(h) ==
  /\ At(h, "choose")
  /\ \E a \in Agents :
       /\ \A b \in Agents : Load(a) <= Load(b)
       /\ Go(h, [call[h] EXCEPT !.at = "hand", !.to = a])
  /\ UNCHANGED <<work, asked, photos, stale, stops>>

\* assign, called by tryAutoAssign; its refusal is only logged.
Hand(h) ==
  /\ At(h, "hand")
  /\ IF status[call[h].t] = "CLOSED" THEN Return(h)
     ELSE Go(h, [call[h] EXCEPT !.at = "assign", !.fresh = TRUE])
  /\ UNCHANGED <<work, asked, photos, stale, stops>>

\* The staff assigns the ticket, to an agent or to somebody without account.
Assign(h, t, to) ==
  Begin(h, t, Statuses \ {"CLOSED"}, [Idle EXCEPT !.at = "assign", !.to = to])

\* Mutant: an intervention that is going on stays so.
AssignWriteKeeps(h) ==
  LET t == call[h].t IN
  /\ At(h, "assign")
  /\ agent' = [agent EXCEPT ![t] = call[h].to]
  /\ status' = [status EXCEPT ![t] = IF @ = "IN_PROGRESS" THEN @ ELSE "ASSIGNED"]
  /\ handed' = handed \cup {t}
  /\ Write(h, Idle)
  /\ UNCHANGED <<asked, photos, starter, stops>>

AssignWrite(h) ==
  LET t == call[h].t IN
  /\ At(h, "assign")
  /\ agent' = [agent EXCEPT ![t] = call[h].to]
  /\ status' = [status EXCEPT ![t] = "ASSIGNED"]
  /\ handed' = handed \cup {t}
  /\ Write(h, Idle)
  /\ UNCHANGED <<asked, photos, starter, stops>>

\* The agent accepts or refuses the mission (transitions.ts).
Accept(h, t) == AgentBegin(h, t, {"OPEN", "ASSIGNED"}, [Idle EXCEPT !.at = "take"])
Refuse(h, t) == AgentBegin(h, t, {"OPEN", "ASSIGNED"}, [Idle EXCEPT !.at = "refuse"])

Take(h) ==
  LET t == call[h].t IN
  /\ At(h, "take")
  /\ status' = [status EXCEPT ![t] = "ASSIGNED"]
  /\ agent' = [agent EXCEPT ![t] = call[h].by]
  /\ Write(h, Idle)
  /\ UNCHANGED <<asked, photos, starter, handed, stops>>

GiveBack(h) ==
  LET t == call[h].t IN
  /\ At(h, "refuse")
  /\ status' = [status EXCEPT ![t] = "OPEN"]
  /\ agent' = [agent EXCEPT ![t] = "nobody"]
  /\ Write(h, Idle)
  /\ UNCHANGED <<asked, photos, starter, handed, stops>>

-----------------------------------------------------------------------------
(* Intervention. *)

\* Mutant: a closed ticket may be moved.
MoveAny(h, t, goal) ==
  Begin(h, t, Statuses, [Idle EXCEPT !.at = "write", !.goal = goal])

\* start and complete of the staff: only a closed ticket is refused.
Move(h, t, goal) ==
  Begin(h, t, Statuses \ {"CLOSED"}, [Idle EXCEPT !.at = "write", !.goal = goal])

AgentStart(h, t) ==
  AgentBegin(h, t, {"ASSIGNED"}, [Idle EXCEPT !.at = "move", !.goal = "IN_PROGRESS"])

AgentComplete(h, t) ==
  AgentBegin(h, t, {"IN_PROGRESS"}, [Idle EXCEPT !.at = "move", !.goal = "COMPLETED"])

\* closeForAgent completes an intervention that is going on first.
AgentClose(h, t) ==
  \/ AgentBegin(h, t, {"COMPLETED"}, [Idle EXCEPT !.at = "close"])
  \/ AgentBegin(h, t, {"IN_PROGRESS"},
                [Idle EXCEPT !.at = "move", !.goal = "COMPLETED", !.closes = TRUE])

\* The agent's requests then go through transition, which reads again.
MoveRead(h) ==
  /\ At(h, "move")
  /\ IF status[call[h].t] = "CLOSED" THEN Return(h)
                                     ELSE Go(h, [call[h] EXCEPT !.at = "write"])
  /\ UNCHANGED <<work, asked, photos, stale, stops>>

MoveWrite(h) ==
  LET t == call[h].t IN
  /\ At(h, "write")
  /\ status' = [status EXCEPT ![t] = call[h].goal]
  /\ starter' = IF call[h].goal = "IN_PROGRESS" THEN [starter EXCEPT ![t] = call[h].by]
                                                ELSE starter
  /\ Write(h, IF call[h].goal = "COMPLETED" THEN [call[h] EXCEPT !.at = "tell"] ELSE Idle)
  /\ UNCHANGED <<agent, asked, photos, handed, stops>>

\* complete asks the tenant to confirm.
Tell(h) ==
  /\ At(h, "tell")
  /\ asked' = [asked EXCEPT ![call[h].t] = TRUE]
  /\ Write(h, IF call[h].closes THEN [call[h] EXCEPT !.at = "close"] ELSE Idle)
  /\ UNCHANGED <<work, photos, stops>>

-----------------------------------------------------------------------------
(* Closing. *)

\* The staff may close a ticket of any status, closed ones included.
Close(h, t) == Begin(h, t, Statuses, [Idle EXCEPT !.at = "close"])

\* confirmMaintenanceResolved.
Confirm(h, t) == Begin(h, t, {"COMPLETED"}, [Idle EXCEPT !.at = "close"])

CloseWrite(h) ==
  /\ At(h, "close")
  /\ status' = [status EXCEPT ![call[h].t] = "CLOSED"]
  /\ Write(h, [call[h] EXCEPT !.at = "resolve"])
  /\ UNCHANGED <<agent, asked, photos, starter, handed, stops>>

\* resolveCompletedMaintenanceNotifs, then the notices of the closing.
Resolve(h) ==
  /\ At(h, "resolve")
  /\ asked' = [asked EXCEPT ![call[h].t] = FALSE]
  /\ Write(h, Idle)
  /\ UNCHANGED <<work, photos, stops>>

-----------------------------------------------------------------------------
(* Photos. *)

\* attachPhoto: the list that was read is written back with one more.
Photo(h, t) ==
  /\ photos[t] < MaxPhotos
  /\ AgentBegin(h, t, Statuses \ {"CLOSED"}, [Idle EXCEPT !.at = "photo", !.seen = photos[t]])

Attach(h) ==
  LET t == call[h].t IN
  /\ At(h, "photo")
  /\ photos' = [photos EXCEPT ![t] = call[h].seen + 1]
  /\ Return(h)
  /\ UNCHANGED <<work, asked, stale, stops>>

-----------------------------------------------------------------------------

\* The server dies, or a notice fails: the request ends where it is.
Stop(h) ==
  /\ Cardinality(stops) < MaxStops /\ call[h].t \in Tickets \ stops
  /\ stops' = stops \cup {call[h].t}
  /\ Return(h)
  /\ UNCHANGED <<work, asked, photos, stale>>

Request(h, t) ==
  \/ \E to \in Agents \cup {"outside"} : Assign(h, t, to)
  \/ \E goal \in {"IN_PROGRESS", "COMPLETED"} : Move(h, t, goal)
  \/ Accept(h, t) \/ Refuse(h, t) \/ AgentStart(h, t) \/ AgentComplete(h, t)
  \/ AgentClose(h, t) \/ Close(h, t) \/ Confirm(h, t) \/ Photo(h, t)

Serve(h) ==
  \/ Choose(h) \/ Hand(h) \/ AssignWrite(h) \/ Take(h) \/ GiveBack(h)
  \/ MoveRead(h) \/ MoveWrite(h) \/ Tell(h) \/ CloseWrite(h) \/ Resolve(h) \/ Attach(h)

Next ==
  \E h \in Handlers :
    Create(h) \/ (\E t \in Tickets : Request(h, t)) \/ Serve(h) \/ Stop(h)

Spec == Init /\ [][Next]_vars

\* A request that has begun goes on.
FairSpec == Spec /\ \A h \in Handlers : WF_vars(Serve(h))

-----------------------------------------------------------------------------
(* What must hold. *)

\* Type invariant.
TypeOK ==
  /\ status \in [Tickets -> Statuses \cup {"NONE"}]
  /\ agent \in [Tickets -> Agents \cup {"nobody", "outside"}]
  /\ asked \in [Tickets -> BOOLEAN]
  /\ photos \in [Tickets -> Nat]
  /\ call \in [Handlers ->
       [at : Places, t : 0..MaxTickets, by : Agents \cup {"staff"}, goal : Statuses,
        to : Agents \cup {"nobody", "outside"}, closes : BOOLEAN, seen : Nat,
        fresh : BOOLEAN]]
  /\ starter \in [Tickets -> Agents \cup {"nobody", "staff"}]
  /\ handed \subseteq Tickets /\ stale \subseteq Tickets /\ stops \subseteq Tickets

\* Under every interleaving of assignments, refusals and moves, an open ticket
\* is nobody's ("Ouvert : signale, personne n'est encore designe", the users'
\* guide) and an assigned one is somebody's.  The agent who works on an
\* intervention is the one it is assigned to (getForAgent), unless a request
\* wrote to the ticket what it had read before another wrote: nothing checks
\* again, and such a write can start what was reassigned meanwhile.
AgentFitsStatus ==
  \A t \in Tickets :
    /\ status[t] = "OPEN" => agent[t] = "nobody"
    /\ status[t] = "ASSIGNED" => agent[t] # "nobody"
    /\ status[t] = "IN_PROGRESS" /\ t \notin stale => starter[t] \in {agent[t], "staff"}

\* A closed ticket stays so (transition, assign), but for a ticket to which a
\* request wrote what it had prepared before the closing: the check is not
\* repeated by the write.
ClosedStays ==
  [][\A t \in Tickets :
       status[t] = "CLOSED" /\ status'[t] # "CLOSED" => t \in stale']_vars

\* With agents, a created ticket is handed to one (create, tryAutoAssign), unless
\* it is closed before or its creation fails half-way.
CreatedIsHanded ==
  \A t \in Tickets :
    status[t] = "OPEN" ~> (t \in handed \/ status[t] = "CLOSED" \/ t \in stops)

=============================================================================
