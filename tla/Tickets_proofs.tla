--------------------------- MODULE Tickets_proofs ---------------------------
(***************************************************************************)
(* What TLAPS proves of Tickets, for any number of requests, tickets,      *)
(* agents and photos: its types, that a ticket's agent fits its status,    *)
(* and that a ticket once closed stays so, both but for tickets to which a *)
(* request wrote what it had read before another wrote.                    *)
(***************************************************************************)
EXTENDS Tickets, TLAPS

---------------------------------------------------------------------------
\* Types.

LEMMA TypeInit == Init => TypeOK
BY TicketsAssumption DEF Init, TypeOK, Idle, Places, Statuses, Unfinished, Tickets

\* The requests there may be.
Calls == [at : Places, t : 0..MaxTickets, by : Agents \cup {"staff"}, goal : Statuses,
          to : Agents \cup {"nobody", "outside"}, closes : BOOLEAN, seen : Nat,
          fresh : BOOLEAN]

LEMMA IdleType == Idle \in Calls
BY TicketsAssumption DEF Idle, Calls, Places, Statuses, Unfinished

\* A write leaves the other requests as they are, or makes what they read stale.
LEMMA OtherCalls ==
  ASSUME TypeOK, NEW h \in Handlers, NEW next, Write(h, next), NEW g \in Handlers, g # h
  PROVE  /\ call'[g] = call[g] \/ call'[g] = [call[g] EXCEPT !.fresh = FALSE]
         /\ call[g].t = call[h].t => ~call'[g].fresh
<1>1. call'[g] = [call[g] EXCEPT !.fresh = call[g].fresh /\ call[g].t # call[h].t]
  BY DEF Write
<1>2. call[g] \in Calls
  BY DEF TypeOK, Calls
<1>3. CASE call[g].t = call[h].t
  <2>1. call'[g] = [call[g] EXCEPT !.fresh = FALSE]
    BY <1>1, <1>3
  <2> QED  BY <1>2, <2>1 DEF Calls
<1>4. CASE call[g].t # call[h].t
  <2>1. (call[g].fresh /\ call[g].t # call[h].t) = call[g].fresh
    BY <1>2, <1>4 DEF Calls
  <2>2. call'[g] = [call[g] EXCEPT !.fresh = call[g].fresh]
    BY <1>1, <2>1
  <2>3. call'[g] = call[g]
    BY <1>2, <2>2 DEF Calls
  <2> QED  BY <1>4, <2>3
<1> QED  BY <1>3, <1>4

\* A write keeps the requests and the history of stale writes well typed.
LEMMA WriteType ==
  ASSUME TypeOK, NEW h \in Handlers, call[h].t \in Tickets, NEW next \in Calls, Write(h, next)
  PROVE  call' \in [Handlers -> Calls] /\ stale' \subseteq Tickets
<1>1. ASSUME NEW g \in Handlers PROVE call'[g] \in Calls
  <2>1. CASE g = h
    BY <2>1 DEF Write
  <2>2. CASE g # h
    <3>1. call[g] \in Calls /\ [call[g] EXCEPT !.fresh = FALSE] \in Calls
      BY DEF TypeOK, Calls
    <3> QED  BY <2>2, <3>1, OtherCalls
  <2> QED  BY <2>1, <2>2
<1>2. call' = [g \in Handlers |-> call'[g]]
  BY DEF Write
<1>3. stale' = stale \/ stale' = stale \cup {call[h].t}
  BY DEF Write
<1> QED  BY <1>1, <1>2, <1>3 DEF TypeOK

---------------------------------------------------------------------------
\* The inductive invariant.

\* A request knows its ticket, and what it is about to write.
Prepared(c) ==
  /\ c.at # "idle" => c.t \in Tickets
  /\ c.at \in {"hand", "assign"} => c.to # "nobody"
  /\ c.at = "take" => c.by \in Agents
  /\ c.at \in {"move", "write"} => c.goal \in {"IN_PROGRESS", "COMPLETED"}

\* What it read still holds when nobody has written since.
Valid(c) ==
  /\ c.at \in {"assign", "take", "refuse", "move", "write"} => status[c.t] # "CLOSED"
  /\ c.at \in {"move", "write"} /\ c.by # "staff" => agent[c.t] = c.by

CallInv == \A h \in Handlers : Prepared(call[h]) /\ (call[h].fresh => Valid(call[h]))

\* A ticket that does not exist yet is nobody's.
Unborn == \A t \in Tickets : status[t] = "NONE" => agent[t] = "nobody"

IInv == TypeOK /\ CallInv /\ Unborn /\ AgentFitsStatus

---------------------------------------------------------------------------
\* Steps that read the ticket, or write its photos.

\* The request h goes on as c, which is prepared and valid, and writes at most photos.
GoesOn(h, c) ==
  /\ c \in Calls /\ Prepared(c) /\ (c.fresh => Valid(c))
  /\ call' = [call EXCEPT ![h] = c] /\ photos' \in [Tickets -> Nat]
  /\ UNCHANGED <<status, agent, asked, starter, handed, stale, stops>>

LEMMA IdleIsPrepared == Prepared(Idle) /\ Valid(Idle)
BY DEF Idle, Prepared, Valid

\* Every request begins by reading what it needs.
LEMMA RequestReads ==
  ASSUME TypeOK, NEW h \in Handlers, NEW t \in Tickets, Request(h, t)
  PROVE  \E c : GoesOn(h, c)
<1> USE TicketsAssumption
    DEF Begin, AgentBegin, Go, At, GoesOn, Idle, Calls, Places, Statuses, Unfinished,
        Prepared, Valid, work, Tickets
<1> DEFINE c == call'[h]
<1>0. t \in 0..MaxTickets
  OBVIOUS
<1>1. ASSUME NEW to \in Agents \cup {"outside"}, Assign(h, t, to) PROVE GoesOn(h, c)
  BY <1>0, <1>1 DEF Assign, TypeOK
<1>2. ASSUME NEW goal \in {"IN_PROGRESS", "COMPLETED"}, Move(h, t, goal) PROVE GoesOn(h, c)
  BY <1>0, <1>2 DEF Move, TypeOK
<1>3. CASE Accept(h, t) \/ Refuse(h, t)
  BY <1>0, <1>3 DEF Accept, Refuse, TypeOK
<1>4. CASE AgentStart(h, t) \/ AgentComplete(h, t)
  BY <1>0, <1>4 DEF AgentStart, AgentComplete, TypeOK
<1>5. CASE AgentClose(h, t)
  BY <1>0, <1>5 DEF AgentClose, TypeOK
<1>6. CASE Close(h, t) \/ Confirm(h, t)
  BY <1>0, <1>6 DEF Close, Confirm, TypeOK
<1>7. CASE Photo(h, t)
  BY <1>0, <1>7 DEF Photo, TypeOK
<1> QED  BY <1>1, <1>2, <1>3, <1>4, <1>5, <1>6, <1>7 DEF Request

\* So do some of its steps.
LEMMA ServeReads ==
  ASSUME TypeOK, CallInv, NEW h \in Handlers, Choose(h) \/ Hand(h) \/ MoveRead(h) \/ Attach(h)
  PROVE  \E c : GoesOn(h, c)
<1> USE TicketsAssumption
    DEF Go, Return, At, GoesOn, Idle, Calls, Places, Statuses, Unfinished,
        Prepared, Valid, work
<1> DEFINE c == call'[h]
<1>0. /\ call[h] \in Calls /\ Prepared(call[h]) /\ (call[h].fresh => Valid(call[h]))
      /\ photos \in [Tickets -> Nat]
  BY DEF TypeOK, CallInv
<1>1. CASE Choose(h)
  <2>1. PICK a \in Agents : call' = [call EXCEPT ![h] = [call[h] EXCEPT !.at = "hand", !.to = a]]
    BY <1>1 DEF Choose
  <2>2. c = [call[h] EXCEPT !.at = "hand", !.to = a]
    BY <2>1 DEF TypeOK
  <2> QED  BY <1>0, <1>1, <2>1, <2>2 DEF Choose
<1>2. CASE Hand(h)
  <2>1. CASE status[call[h].t] = "CLOSED"
    <3>1. c = Idle
      BY <1>2, <2>1 DEF Hand, TypeOK
    <3> QED  BY <1>0, <1>2, <2>1, <3>1, IdleType DEF Hand
  <2>2. CASE status[call[h].t] # "CLOSED"
    <3>1. c = [call[h] EXCEPT !.at = "assign", !.fresh = TRUE]
      BY <1>2, <2>2 DEF Hand, TypeOK
    <3> QED  BY <1>0, <1>2, <2>2, <3>1 DEF Hand
  <2> QED  BY <2>1, <2>2
<1>3. CASE MoveRead(h)
  <2>1. CASE status[call[h].t] = "CLOSED"
    <3>1. c = Idle
      BY <1>3, <2>1 DEF MoveRead, TypeOK
    <3> QED  BY <1>0, <1>3, <2>1, <3>1, IdleType DEF MoveRead
  <2>2. CASE status[call[h].t] # "CLOSED"
    <3>1. c = [call[h] EXCEPT !.at = "write"]
      BY <1>3, <2>2 DEF MoveRead, TypeOK
    <3> QED  BY <1>0, <1>3, <2>2, <3>1 DEF MoveRead
  <2> QED  BY <2>1, <2>2
<1>4. CASE Attach(h)
  <2>1. /\ call' = [call EXCEPT ![h] = Idle] /\ photos' \in [Tickets -> Nat]
        /\ UNCHANGED <<status, agent, asked, starter, handed, stale, stops>>
    BY <1>0, <1>4 DEF Attach, TypeOK
  <2>2. c = Idle
    BY <2>1 DEF TypeOK
  <2> QED  BY <2>1, <2>2, IdleType
<1> QED  BY <1>1, <1>2, <1>3, <1>4

\* The others' requests do not notice.
LEMMA ReadKeeps ==
  ASSUME IInv, NEW h \in Handlers, NEW c, GoesOn(h, c)
  PROVE  IInv'
<1> USE DEF IInv, GoesOn
<1>1. /\ call'[h] = c
      /\ \A g \in Handlers : g # h => call'[g] = call[g]
      /\ call' \in [Handlers -> Calls]
  BY DEF TypeOK, Calls
<1>2. TypeOK'
  BY <1>1 DEF TypeOK, Calls
<1>3. CallInv'
  BY <1>1 DEF CallInv, Prepared, Valid
<1>4. Unborn' /\ AgentFitsStatus'
  BY DEF Unborn, AgentFitsStatus
<1> QED  BY <1>2, <1>3, <1>4

---------------------------------------------------------------------------
\* Steps that write the status, the assignee or the notices.

\* The status and the assignee of the other tickets stay as they are.
OnlyTicketOf(h) ==
  \A u \in Tickets : u # call[h].t => status'[u] = status[u] /\ agent'[u] = agent[u]

\* Another request about the ticket finds its reading stale; the rest is not concerned.
LEMMA OthersStayValid ==
  ASSUME TypeOK, CallInv, NEW h \in Handlers, NEW next, Write(h, next), OnlyTicketOf(h),
         NEW g \in Handlers, g # h
  PROVE  Prepared(call'[g]) /\ (call'[g].fresh => Valid(call[g])')
<1>0. call[g] \in Calls /\ Prepared(call[g]) /\ (call[g].fresh => Valid(call[g]))
  BY DEF TypeOK, CallInv, Calls
<1>1. CASE call'[g] = [call[g] EXCEPT !.fresh = FALSE]
  BY <1>0, <1>1 DEF Calls, Prepared
<1>2. CASE call'[g] = call[g] /\ (call[g].fresh => call[g].t # call[h].t)
  BY <1>0, <1>2 DEF Prepared, Valid, OnlyTicketOf
<1> QED  BY <1>1, <1>2, OtherCalls

\* What such a write must do to the ticket, and to the request that goes on as next.
Coherent(h, next) ==
  LET t == call[h].t IN
  /\ next \in Calls /\ Prepared(next) /\ (next.fresh => Valid(next)')
  /\ status'[t] \in {"NONE", "OPEN"} => agent'[t] = "nobody"
  /\ status'[t] = "ASSIGNED" => agent'[t] # "nobody"
  /\ call[h].fresh /\ t \notin stale /\ status'[t] = "IN_PROGRESS" =>
       starter'[t] \in {agent'[t], "staff"}

\* The whole step.
ChangesTicket(h, next) ==
  /\ Write(h, next) /\ OnlyTicketOf(h) /\ Coherent(h, next)
  /\ UNCHANGED <<photos, stops>>
  /\ \A u \in Tickets : u # call[h].t => starter'[u] = starter[u]
  /\ status' \in [Tickets -> Statuses \cup {"NONE"}]
  /\ agent' \in [Tickets -> Agents \cup {"nobody", "outside"}]
  /\ asked' \in [Tickets -> BOOLEAN]
  /\ starter' \in [Tickets -> Agents \cup {"nobody", "staff"}]
  /\ handed' \subseteq Tickets

LEMMA WriteKeeps ==
  ASSUME IInv, NEW h \in Handlers, NEW next, call[h].t \in Tickets, ChangesTicket(h, next)
  PROVE  IInv'
<1> USE DEF IInv, ChangesTicket
<1>0. TypeOK'
  BY WriteType DEF Coherent, TypeOK, Calls
<1>1. call'[h] = next
  BY DEF Write
<1>2. CallInv'
  <2> SUFFICES ASSUME NEW g \in Handlers
               PROVE  Prepared(call'[g]) /\ (call'[g].fresh => Valid(call[g])')
    BY DEF CallInv, Prepared
  <2>1. CASE g = h
    BY <1>1, <2>1 DEF Coherent, Valid
  <2>2. CASE g # h
    BY <2>2, OthersStayValid
  <2> QED  BY <2>1, <2>2
<1>3. Unborn'
  BY DEF Unborn, OnlyTicketOf, Coherent
<1>4. AgentFitsStatus'
  <2> SUFFICES ASSUME NEW u \in Tickets
               PROVE  /\ status'[u] = "OPEN" => agent'[u] = "nobody"
                      /\ status'[u] = "ASSIGNED" => agent'[u] # "nobody"
                      /\ status'[u] = "IN_PROGRESS" /\ u \notin stale'
                           => starter'[u] \in {agent'[u], "staff"}
    BY DEF AgentFitsStatus
  <2>1. u \notin stale' => u \notin stale /\ (u = call[h].t => call[h].fresh)
    BY DEF Write
  <2>2. CASE u = call[h].t
    BY <2>1, <2>2 DEF Coherent
  <2>3. CASE u # call[h].t
    BY <2>1, <2>3 DEF AgentFitsStatus, OnlyTicketOf
  <2> QED  BY <2>2, <2>3
<1> QED  BY <1>0, <1>2, <1>3, <1>4

\* Each of the writes of the ticket is such a step.
LEMMA WritersChangeTicket ==
  ASSUME IInv, NEW h \in Handlers,
         \/ AssignWrite(h) \/ Take(h) \/ GiveBack(h) \/ MoveWrite(h) \/ Tell(h)
         \/ CloseWrite(h) \/ Resolve(h)
  PROVE  call[h].t \in Tickets /\ \E next : ChangesTicket(h, next)
<1> DEFINE t == call[h].t
<1> USE TicketsAssumption DEF At, Statuses, Unfinished, work
<1>0. /\ call[h] \in Calls /\ t \in Tickets
      /\ Prepared(call[h]) /\ (call[h].fresh => Valid(call[h]))
  BY DEF IInv, TypeOK, CallInv, Calls, Prepared,
         AssignWrite, Take, GiveBack, MoveWrite, Tell, CloseWrite, Resolve
<1>i. Idle \in Calls /\ Prepared(Idle) /\ Valid(Idle)'
  BY IdleType DEF Idle, Prepared, Valid
<1>1. CASE AssignWrite(h)
  <2>1. OnlyTicketOf(h) /\ status'[t] = "ASSIGNED" /\ agent'[t] = call[h].to
    BY <1>0, <1>1 DEF AssignWrite, OnlyTicketOf, IInv, TypeOK
  <2>2. Coherent(h, Idle)
    BY <1>0, <1>1, <1>i, <2>1 DEF AssignWrite, Coherent, Prepared
  <2>3. ChangesTicket(h, Idle)
    BY <1>0, <1>1, <2>1, <2>2 DEF AssignWrite, ChangesTicket, IInv, TypeOK, Calls
  <2> QED  BY <1>0, <2>3
<1>2. CASE Take(h)
  <2>1. OnlyTicketOf(h) /\ status'[t] = "ASSIGNED" /\ agent'[t] = call[h].by
    BY <1>0, <1>2 DEF Take, OnlyTicketOf, IInv, TypeOK
  <2>2. Coherent(h, Idle)
    BY <1>0, <1>2, <1>i, <2>1 DEF Take, Coherent, Prepared
  <2>3. ChangesTicket(h, Idle)
    BY <1>0, <1>2, <2>1, <2>2 DEF Take, ChangesTicket, IInv, TypeOK, Calls, Prepared
  <2> QED  BY <1>0, <2>3
<1>3. CASE GiveBack(h)
  <2>1. OnlyTicketOf(h) /\ status'[t] = "OPEN" /\ agent'[t] = "nobody"
    BY <1>0, <1>3 DEF GiveBack, OnlyTicketOf, IInv, TypeOK
  <2>2. Coherent(h, Idle)
    BY <1>0, <1>3, <1>i, <2>1 DEF GiveBack, Coherent
  <2>3. ChangesTicket(h, Idle)
    BY <1>0, <1>3, <2>1, <2>2 DEF GiveBack, ChangesTicket, IInv, TypeOK
  <2> QED  BY <1>0, <2>3
<1>4. CASE MoveWrite(h)
  <2>0. PICK tells : tells = [call[h] EXCEPT !.at = "tell"]
    OBVIOUS
  <2>1. /\ OnlyTicketOf(h) /\ status'[t] = call[h].goal /\ agent' = agent
        /\ call[h].goal \in {"IN_PROGRESS", "COMPLETED"}
        /\ call[h].at = "write"
    BY <1>0, <1>4 DEF MoveWrite, OnlyTicketOf, IInv, TypeOK, Prepared
  <2>2. CASE call[h].goal = "IN_PROGRESS"
    <3>1. starter' = [starter EXCEPT ![t] = call[h].by] /\ Write(h, Idle)
      BY <1>4, <2>2 DEF MoveWrite
    <3>2. Coherent(h, Idle)
      BY <1>0, <1>i, <2>1, <2>2, <3>1 DEF Coherent, Valid, IInv, TypeOK
    <3>3. ChangesTicket(h, Idle)
      BY <1>0, <1>4, <2>1, <3>1, <3>2 DEF MoveWrite, ChangesTicket, IInv, TypeOK, Calls
    <3> QED  BY <1>0, <3>3
  <2>3. CASE call[h].goal = "COMPLETED"
    <3>1. starter' = starter /\ Write(h, tells)
      BY <1>4, <2>0, <2>3 DEF MoveWrite
    <3>2. tells \in Calls /\ tells.t = t /\ tells.at = "tell"
      BY <1>0, <2>0 DEF Calls, Places
    <3>3. Prepared(tells) /\ Valid(tells)'
      BY <1>0, <2>1, <2>3, <3>2 DEF Prepared, Valid
    <3>4. Coherent(h, tells)
      BY <2>1, <2>3, <3>2, <3>3 DEF Coherent
    <3>5. ChangesTicket(h, tells)
      BY <1>0, <1>4, <2>1, <3>1, <3>4 DEF MoveWrite, ChangesTicket, IInv, TypeOK, Calls
    <3> QED  BY <1>0, <3>5
  <2> QED  BY <2>1, <2>2, <2>3
<1>5. CASE Tell(h)
  <2>0. PICK next : next = IF call[h].closes THEN [call[h] EXCEPT !.at = "close"] ELSE Idle
    OBVIOUS
  <2>1. OnlyTicketOf(h) /\ asked'[t] = TRUE /\ UNCHANGED <<status, agent, starter>>
    BY <1>0, <1>5 DEF Tell, OnlyTicketOf, IInv, TypeOK
  <2>2. next \in Calls /\ Prepared(next) /\ Valid(next)'
    <3>1. CASE next = Idle
      BY <1>i, <3>1
    <3>2. CASE next = [call[h] EXCEPT !.at = "close"]
      BY <1>0, <3>2 DEF Calls, Places, Prepared, Valid
    <3> QED  BY <2>0, <3>1, <3>2
  <2>4. Coherent(h, next)
    BY <1>0, <1>5, <2>1, <2>2 DEF Tell, Coherent, Valid, IInv, Unborn, AgentFitsStatus
  <2>5. ChangesTicket(h, next)
    BY <1>0, <1>5, <2>0, <2>1, <2>4 DEF Tell, ChangesTicket, IInv, TypeOK
  <2> QED  BY <1>0, <2>5
<1>6. CASE CloseWrite(h)
  <2>0. PICK next : next = [call[h] EXCEPT !.at = "resolve"]
    OBVIOUS
  <2>1. OnlyTicketOf(h) /\ status'[t] = "CLOSED" /\ UNCHANGED <<agent, starter, asked>>
    BY <1>0, <1>6 DEF CloseWrite, OnlyTicketOf, IInv, TypeOK
  <2>2. next \in Calls /\ Prepared(next) /\ Valid(next)' /\ next.at = "resolve" /\ next.t = t
    BY <1>0, <2>0 DEF Calls, Places, Prepared, Valid
  <2>3. Coherent(h, next)
    BY <1>6, <2>1, <2>2 DEF CloseWrite, Coherent
  <2>4. ChangesTicket(h, next)
    BY <1>0, <1>6, <2>0, <2>1, <2>3 DEF CloseWrite, ChangesTicket, IInv, TypeOK
  <2> QED  BY <1>0, <2>4
<1>7. CASE Resolve(h)
  <2>1. OnlyTicketOf(h) /\ asked'[t] = FALSE /\ UNCHANGED <<status, agent, starter>>
    BY <1>0, <1>7 DEF Resolve, OnlyTicketOf, IInv, TypeOK
  <2>3. Coherent(h, Idle)
    BY <1>0, <1>i, <2>1 DEF Coherent, IInv, Unborn, AgentFitsStatus
  <2>4. ChangesTicket(h, Idle)
    BY <1>0, <1>7, <2>1, <2>3 DEF Resolve, ChangesTicket, IInv, TypeOK
  <2> QED  BY <1>0, <2>4
<1> QED  BY <1>1, <1>2, <1>3, <1>4, <1>5, <1>6, <1>7

---------------------------------------------------------------------------
\* The other steps.

LEMMA CreateKeeps == ASSUME IInv, NEW h \in Handlers, Create(h) PROVE IInv'
<1> USE DEF IInv, At
<1>1. PICK t \in Tickets :
        /\ status[t] = "NONE" /\ status' = [status EXCEPT ![t] = "OPEN"]
        /\ IF Agents = {} THEN UNCHANGED call
                          ELSE call' = [call EXCEPT ![h] = [Idle EXCEPT !.at = "choose", !.t = t]]
  BY DEF Create, Go
<1>2. UNCHANGED <<agent, asked, photos, starter, handed, stale, stops>>
  BY DEF Create
<1>3. PICK c : c = [Idle EXCEPT !.at = "choose", !.t = t]
  OBVIOUS
<1>4. c \in Calls /\ Prepared(c) /\ c.at = "choose"
  <2>1. t \in 0..MaxTickets
    BY DEF Tickets
  <2>2. [Idle EXCEPT !.at = "choose", !.t = t] \in Calls
    BY <2>1, IdleType DEF Calls, Places
  <2> QED  BY <1>3, <2>2 DEF Idle, Prepared
<1>5. \A g \in Handlers : call'[g] = call[g] \/ (g = h /\ call'[g] = c)
  BY <1>1, <1>3 DEF TypeOK
<1>6. TypeOK'
  <2>1. call' \in [Handlers -> Calls]
    BY <1>1, <1>3, <1>4 DEF TypeOK, Calls
  <2>2. status' \in [Tickets -> Statuses \cup {"NONE"}]
    BY <1>1 DEF TypeOK, Statuses, Unfinished
  <2> QED  BY <1>2, <2>1, <2>2 DEF TypeOK, Calls
<1>7. /\ status'[t] = "OPEN" /\ agent[t] = "nobody"
      /\ \A u \in Tickets : u # t => status'[u] = status[u]
  BY <1>1 DEF TypeOK, Unborn
<1>8. CallInv'
  <2> SUFFICES ASSUME NEW g \in Handlers
               PROVE  Prepared(call'[g]) /\ (call'[g].fresh => Valid(call[g])')
    BY DEF CallInv, Prepared
  <2>1. CASE call'[g] = c
    BY <1>4, <2>1 DEF Valid
  <2>2. CASE call'[g] = call[g]
    <3>1. Prepared(call[g]) /\ (call[g].fresh => Valid(call[g])) /\ call[g] \in Calls
      BY DEF CallInv, TypeOK, Calls
    <3>2. call[g].at # "idle" => call[g].t \in Tickets
      BY <3>1 DEF Prepared
    <3>3. call[g].fresh => Valid(call[g])'
      BY <1>2, <1>7, <2>2, <3>1, <3>2 DEF Valid
    <3> QED  BY <2>2, <3>1, <3>3
  <2> QED  BY <1>5, <2>1, <2>2
<1>9. Unborn' /\ AgentFitsStatus'
  BY <1>2, <1>7 DEF Unborn, AgentFitsStatus
<1> QED  BY <1>6, <1>8, <1>9

LEMMA StopKeeps == ASSUME IInv, NEW h \in Handlers, Stop(h) PROVE IInv'
<1> USE DEF IInv
<1>1. /\ call' = [call EXCEPT ![h] = Idle] /\ stops' = stops \cup {call[h].t}
      /\ call[h].t \in Tickets
      /\ UNCHANGED <<status, agent, starter, handed, asked, photos, stale>>
  BY DEF Stop, Return, Go, work
<1>2. \A g \in Handlers : call'[g] = call[g] \/ (g = h /\ call'[g] = Idle)
  BY <1>1 DEF TypeOK
<1>3. TypeOK'
  BY <1>1, IdleType DEF TypeOK, Calls
<1>4. CallInv'
  BY <1>1, <1>2, IdleIsPrepared DEF CallInv, Prepared, Valid, Idle
<1>5. Unborn' /\ AgentFitsStatus'
  BY <1>1 DEF Unborn, AgentFitsStatus
<1> QED  BY <1>3, <1>4, <1>5

---------------------------------------------------------------------------
\* The invariant, and what follows from it.

LEMMA InvInit == Init => IInv
BY TypeInit DEF Init, IInv, CallInv, Prepared, Valid, Idle, Unborn, AgentFitsStatus

LEMMA InvStep == IInv /\ [Next]_vars => IInv'
<1> SUFFICES ASSUME IInv, [Next]_vars PROVE IInv'
  OBVIOUS
<1>1. CASE UNCHANGED vars
  BY <1>1 DEF vars, IInv, TypeOK, CallInv, Prepared, Valid, Unborn, AgentFitsStatus
<1>2. ASSUME NEW h \in Handlers, NEW t \in Tickets, Request(h, t) PROVE IInv'
  BY <1>2, RequestReads, ReadKeeps DEF IInv
<1>3. ASSUME NEW h \in Handlers, Serve(h) PROVE IInv'
  <2>1. CASE Choose(h) \/ Hand(h) \/ MoveRead(h) \/ Attach(h)
    BY <2>1, ServeReads, ReadKeeps DEF IInv
  <2>2. CASE \/ AssignWrite(h) \/ Take(h) \/ GiveBack(h) \/ MoveWrite(h) \/ Tell(h)
             \/ CloseWrite(h) \/ Resolve(h)
    BY <2>2, WritersChangeTicket, WriteKeeps
  <2> QED  BY <1>3, <2>1, <2>2 DEF Serve
<1> QED  BY <1>1, <1>2, <1>3, CreateKeeps, StopKeeps DEF Next

LEMMA InvAlways == Spec => []IInv
BY InvInit, InvStep, PTL DEF Spec

\* Tickets, requests and histories are well typed.
THEOREM TypeCorrect == Spec => []TypeOK
BY InvAlways, PTL DEF IInv

\* However assignments, refusals and moves interleave, an open ticket is nobody's and an
\* assigned one somebody's; an intervention is carried out by the agent it is assigned to
\* (or was started by the staff), unless a stale reading was written to the ticket.
THEOREM AgentAlwaysFits == Spec => []AgentFitsStatus
BY InvAlways, PTL DEF IInv

\* A closed ticket stays closed, but for a ticket to which a request wrote the status it
\* had prepared before the closing: the code does not look again when it writes.
THEOREM ClosedForGood == Spec => ClosedStays
<1>1. IInv /\ [Next]_vars =>
        [\A t \in Tickets : status[t] = "CLOSED" /\ status'[t] # "CLOSED" => t \in stale']_vars
  <2> SUFFICES ASSUME IInv, Next, NEW t \in Tickets, status[t] = "CLOSED", status'[t] # "CLOSED"
               PROVE  t \in stale'
    OBVIOUS
  <2> USE DEF IInv, At
  <2>1. PICK h \in Handlers :
          Create(h) \/ (\E u \in Tickets : Request(h, u)) \/ Serve(h) \/ Stop(h)
    BY DEF Next
  <2>2. ~(\E u \in Tickets : Request(h, u)) /\ ~(Choose(h) \/ Hand(h) \/ MoveRead(h) \/ Attach(h))
    BY RequestReads, ServeReads DEF GoesOn
  <2>3. ~Create(h) /\ ~Stop(h)
    BY DEF Create, Stop, TypeOK, work
  <2>4. ~Tell(h) /\ ~Resolve(h)
    BY DEF Tell, Resolve, work
  <2>5. ~CloseWrite(h)
    BY DEF CloseWrite, TypeOK
  <2>6. CASE AssignWrite(h) \/ Take(h) \/ GiveBack(h) \/ MoveWrite(h)
    <3>1. call[h].t = t /\ call[h].at \in {"assign", "take", "refuse", "write"}
      BY <2>6 DEF AssignWrite, Take, GiveBack, MoveWrite, TypeOK
    <3>2. ~call[h].fresh
      BY <3>1 DEF CallInv, Valid
    <3>3. PICK next : Write(h, next)
      BY <2>6 DEF AssignWrite, Take, GiveBack, MoveWrite
    <3> QED  BY <3>1, <3>2, <3>3 DEF Write
  <2> QED  BY <2>1, <2>2, <2>3, <2>4, <2>5, <2>6 DEF Serve
<1> QED  BY <1>1, InvAlways, PTL DEF Spec, ClosedStays

=============================================================================
