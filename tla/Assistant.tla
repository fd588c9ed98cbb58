----------------------------- MODULE Assistant -----------------------------
(***************************************************************************)
(* The conversation of one user with the assistant (AiService.chat and what *)
(* it calls): the history of the exchanges, sent by the client or kept in   *)
(* the session row; contracts drafted over several messages; proposals that *)
(* wait for "oui", "annule" or the card's button; the rounds with OpenAI.   *)
(* The session is written by jobs nobody waits for (`void`).                *)
(*                                                                         *)
(* What a text means is external: a message has a kind, and possibly the    *)
(* tenant (with his flat and lease) and the term of the contract it names.  *)
(* Bounds: Messages, MaxLate, MaxMishaps, Rounds, HistoryLimit,           *)
(* ServerTurns.                                                            *)
(***************************************************************************)
EXTENDS Naturals, Sequences, FiniteSetsExt, SequencesExt

CONSTANTS
  Devices,       \* clients on which the user speaks
  SendsHistory,  \* those of them that send their history
  Tenants, Terms, None,
  Messages,      \* what the user may say: for the first message, the second and so on,
                 \* on each device, a set of [kind, who, term]
  HistoryLimit,  \* exchanges of the history the server looks at
  ServerTurns,   \* exchanges kept in the session
  Rounds,        \* rounds of one turn with OpenAI
  MaxLate,       \* background writes that a message overtakes
  MaxMishaps     \* lost answers, crashes, things that expire

VARIABLES
  session,    \* the row: the last lease and flat dealt with, the exchanges
  made,       \* proposals, in the order they were created
  open,       \* those that wait for a decision
  jobs,       \* background writes of the session
  turn,       \* the request each device has in progress
  log,        \* exchanges each client has on its screen
  card,       \* the proposal whose buttons the last answer shows, or 0
  said,       \* history: the messages, in the order they were sent
  answer,     \* history: "draft" when the answer continues a contract
  told,       \* history: the proposal the last answer spoke of, or 0
  mishaps     \* history: lost answers, crashes, things that expired

vars   == <<session, made, open, jobs, turn, log, card, said, answer, told,
            mishaps>>
screen == <<log, card, told>>

Kinds == {"info", "yes", "no", "button", "contract", "detail", "ask", "ticket", "assign",
          "photo", "upload", "pdf", "payment", "remind", "data", "free"}
Message == [kind: Kinds, who: Tenants \cup {None}, term: Terms \cup {None}]

ASSUME AssistantAssumption ==
  /\ HistoryLimit \in Nat /\ ServerTurns \in Nat /\ Rounds \in Nat
  /\ Messages \in Seq([Devices -> SUBSET Message])

EmptySession == [lease |-> None, flat |-> None, turns |-> <<>>]

\* A request at that place, for that message and proposal.
Turn(place, n, id) ==
  [at |-> place, n |-> n, id |-> id, ses |-> EmptySession, hist |-> <<>>, round |-> 0]
Idle == Turn("idle", 0, 0)

Places == {"idle", "route", "confirm", "cancel", "again", "run", "think",
           "router"}

Init ==
  /\ session = EmptySession
  /\ made = <<>> /\ open = {} /\ jobs = {}
  /\ turn = [d \in Devices |-> Idle]
  /\ log = [d \in Devices |-> <<>>]
  /\ card = [d \in Devices |-> 0] /\ told = [d \in Devices |-> 0]
  /\ said = <<>> /\ answer = <<>>
  /\ mishaps = 0

At(d, place) == turn[d].at = place
Msg(d)  == said[turn[d].n]
Newest(h, size) == SubSeq(h, Max({1, Len(h) - size + 1}), Len(h))

\* The most recent proposal still open, or 0.
getLatestPendingForUser == IF open = {} THEN 0 ELSE Max(open)

---------------------------------------------------------------------------
(* The history and the drafts *)

\* The client's history when it sends one, otherwise the session's.
mergeChatHistory(d, ses) ==
  Newest(IF d \in SendsHistory /\ log[d] # <<>> THEN log[d] ELSE ses.turns, HistoryLimit)

\* The messages that make the draft: back from the last one, as long as the
\* answer continued a draft, to the message that asked for the contract.
collectLeaseDraftMessages(h, n) ==
  LET Part(i) == /\ \A j \in i..Len(h) : answer[h[j]] = "draft"
                 /\ \A j \in (i + 1)..Len(h) : said[h[j]].kind # "contract"
  IN SubSeq(h, Min({i \in 1..(Len(h) + 1) : Part(i)}), Len(h)) \o <<n>>

\* Mutant: the first message that names a field decides.
FirstNamed(draft, field) ==
  LET naming == {i \in DOMAIN draft : said[draft[i]][field] # None}
  IN IF naming = {} THEN None ELSE said[draft[Min(naming)]][field]

\* What the draft says of a field: the last message that names it decides.
LastNamed(draft, field) ==
  LET naming == {i \in DOMAIN draft : said[draft[i]][field] # None}
  IN IF naming = {} THEN None ELSE said[draft[Max(naming)]][field]

\* A request that starts a contract is a draft of its own.
DraftOf(d) ==
  IF Msg(d).kind \in {"contract", "pdf"} THEN <<turn[d].n>>
  ELSE collectLeaseDraftMessages(turn[d].hist, turn[d].n)

\* The message goes to the contract: it asks for one, or it adds to a draft.
IsContract(d) ==
  \/ Msg(d).kind = "contract"
  \/ /\ Msg(d).kind \in {"detail", "ask", "ticket", "assign", "payment", "remind", "data", "free"}
     /\ Len(DraftOf(d)) > 1
     /\ Msg(d).who # None \/ Msg(d).term # None

---------------------------------------------------------------------------
(* The session's jobs *)

NoEnts == [lease |-> None, flat |-> None]

\* A job: the exchange it adds, if any, and the lease and flat it keeps.
Job(d, kind, ents) ==
  [kind |-> kind, n |-> turn[d].n, round |-> turn[d].round, ents |-> ents, at |-> "read",
   turns |-> <<>>, base |-> EmptySession]

\* A tool that found the one tenant the message names.
Found(d) == [lease |-> Msg(d).who, flat |-> Msg(d).who]

Persist(d)    == {Job(d, "persist", NoEnts)}
Keep(d, ents) == {Job(d, "keep", ents)}

\* The job goes on, with what it has read.
Replace(j, at, turns, base) ==
  jobs' = (jobs \ {j}) \cup
          {[kind |-> j.kind, n |-> j.n, round |-> j.round, ents |-> j.ents, at |-> at,
            turns |-> turns, base |-> base]}

\* persistConversationSession reads the exchanges and adds its own.
ReadTurns(j) ==
  /\ j.at = "read" /\ j.kind = "persist"
  /\ Replace(j, "merge", Newest(Append(session.turns, j.n), ServerTurns), j.base)
  /\ UNCHANGED <<session, made, open, turn, screen, said, answer, mishaps>>

\* mergeEntities reads the row ...
ReadBase(j) ==
  /\ j.at = (IF j.kind = "persist" THEN "merge" ELSE "read")
  /\ Replace(j, "write", j.turns, session)
  /\ UNCHANGED <<session, made, open, turn, screen, said, answer, mishaps>>

\* ... and writes it whole, with what the job brings.
WriteSession(j) ==
  /\ j.at = "write"
  /\ session' = [lease |-> IF j.ents.lease # None THEN j.ents.lease ELSE j.base.lease,
                 flat  |-> IF j.ents.flat # None THEN j.ents.flat ELSE j.base.flat,
                 turns |-> IF j.kind = "persist" THEN j.turns ELSE j.base.turns]
  /\ jobs' = jobs \ {j}
  /\ UNCHANGED <<made, open, turn, screen, said, answer, mishaps>>

JobStep == \E j \in jobs : ReadTurns(j) \/ ReadBase(j) \/ WriteSession(j)

---------------------------------------------------------------------------
(* The turn of a message *)

Go(d, r)   == turn' = [turn EXCEPT ![d] = r]

Quiet  == jobs = {} /\ \A d \in Devices : At(d, "idle")
Mishap == mishaps < MaxMishaps /\ mishaps' = mishaps + 1

\* The turn ends with an answer of that kind, about that proposal, with its card or
\* not; the jobs it spawned run on their own.  The client shows it, or it is lost on
\* the way.
Reply(d, kind, id, shown, background) ==
  /\ Go(d, Idle)
  /\ answer' = [answer EXCEPT ![turn[d].n] = kind]
  /\ jobs' = jobs \cup background
  /\ \/ /\ log' = [log EXCEPT ![d] = Append(@, turn[d].n)]
        /\ card' = [card EXCEPT ![d] = IF shown THEN id ELSE 0]
        /\ told' = [told EXCEPT ![d] = id]
        /\ UNCHANGED mishaps
     \/ Mishap /\ UNCHANGED screen

Answer(d, kind, id, background) == Reply(d, kind, id, TRUE, background)
Plain(d, background) == Answer(d, "other", 0, background)

\* A step inside the turn: it goes on about that proposal.
Inside(d, place, id) ==
  /\ Go(d, Turn(place, turn[d].n, id))
  /\ UNCHANGED <<session, made, jobs, screen, said, answer, mishaps>>

NewId == Len(made) + 1

\* createPendingAction: earlier proposals stay open.
createPendingAction(d, type, who, term) ==
  /\ made' = Append(made, [type |-> type, who |-> who, term |-> term, n |-> turn[d].n])
  /\ open' = open \cup {NewId}

Sayable(d) == IF Len(said) < Len(Messages) THEN Messages[Len(said) + 1][d] ELSE {}

\* A message arrives from an idle device ("button" needs a card), and the session
\* is read first.
Send(d, m) ==
  /\ At(d, "idle")
  /\ Cardinality(jobs) <= MaxLate
  /\ m.kind = "button" => card[d] # 0
  /\ said' = Append(said, [kind |-> m.kind, who |-> m.who, term |-> m.term, dev |-> d])
  /\ answer' = Append(answer, "none")
  /\ Go(d, IF m.kind = "button"
             THEN Turn("confirm", Len(said) + 1, card[d])
             ELSE [at |-> "route", n |-> Len(said) + 1, id |-> 0, ses |-> session,
                   hist |-> mergeChatHistory(d, session), round |-> 0])
  /\ UNCHANGED <<session, made, open, jobs, screen, mishaps>>

Routed(d, kind) == At(d, "route") /\ Msg(d).kind = kind

\* Greetings, limits of the product, the guide: an answer of its own.
Inform(d) ==
  /\ Routed(d, "info")
  /\ Plain(d, Persist(d))
  /\ UNCHANGED <<session, made, open, said>>

\* Mutant: the oldest proposal is taken.
LookToConfirmOldest(d) ==
  /\ Routed(d, "yes")
  /\ \/ open = {} /\ Plain(d, {}) /\ UNCHANGED <<session, made, said>>
     \/ open # {} /\ Inside(d, "confirm", Min(open))
  /\ UNCHANGED open

\* "oui": the latest proposal, or nothing to confirm.
LookToConfirm(d) ==
  /\ Routed(d, "yes")
  /\ \/ open = {} /\ Plain(d, {}) /\ UNCHANGED <<session, made, said>>
     \/ open # {} /\ Inside(d, "confirm", getLatestPendingForUser)
  /\ UNCHANGED open

\* confirmAction: refused when it is gone or the role may not, else consumed.
Consume(d) ==
  /\ At(d, "confirm")
  /\ \/ /\ turn[d].id \in open /\ open' = open \ {turn[d].id}
        /\ Inside(d, "run", turn[d].id)
     \/ Plain(d, {}) /\ UNCHANGED <<session, made, open, said>>

\* What was confirmed is done.  A contract that is created proposes its PDF, ...
RunLease(d) ==
  /\ At(d, "run") /\ made[turn[d].id].type = "lease"
  /\ createPendingAction(d, "pdf", None, None)
  /\ Answer(d, "other", NewId, {})
  /\ UNCHANGED <<session, said>>

\* ... a ticket keeps its flat in the session, ...
RunTicket(d) ==
  /\ At(d, "run") /\ made[turn[d].id].type = "ticket"
  /\ Plain(d, Keep(d, [NoEnts EXCEPT !.flat = made[turn[d].id].who]))
  /\ UNCHANGED <<session, made, open, said>>

\* ... an assignment keeps its ticket, ...
RunAssign(d) ==
  /\ At(d, "run") /\ made[turn[d].id].type = "assign"
  /\ Plain(d, Keep(d, NoEnts))
  /\ UNCHANGED <<session, made, open, said>>

\* ... the rest, and what fails, only answers.
RunOther(d) ==
  /\ At(d, "run")
  /\ Plain(d, {})
  /\ UNCHANGED <<session, made, open, said>>

\* "annule": the latest proposal; none, and the message goes on to the local
\* tools, which look again.
LookToCancel(d) ==
  /\ Routed(d, "no") \/ At(d, "again")
  /\ \/ /\ open # {}
        /\ Inside(d, "cancel", getLatestPendingForUser)
     \/ /\ open = {} /\ At(d, "route")
        /\ Inside(d, "again", 0)
     \/ open = {} /\ At(d, "again") /\ Plain(d, {}) /\ UNCHANGED <<session, made, said>>
  /\ UNCHANGED open

Cancel(d) ==
  /\ At(d, "cancel")
  /\ open' = open \ {turn[d].id}
  /\ Plain(d, {})
  /\ UNCHANGED <<session, made, said>>

\* handleContractRequest: with a tenant and a free flat the contract is proposed,
\* otherwise the missing part, or the part that will not do, is asked for.
Draft(d) ==
  LET named(field) == LastNamed(DraftOf(d), field) IN
  /\ \/ /\ named("who") # None
        /\ createPendingAction(d, "lease", named("who"), named("term"))
        /\ Answer(d, "draft", NewId, Persist(d))
     \/ Answer(d, "draft", 0, Persist(d)) /\ UNCHANGED <<made, open>>
  /\ UNCHANGED <<session, said>>

Contract(d) == At(d, "route") /\ IsContract(d) /\ Draft(d)

\* "contrat PDF de ...": the PDF of the tenant's lease is proposed, or which lease
\* is asked; a tenant who has none gets a draft of his own.
Pdf(d) ==
  /\ Routed(d, "pdf")
  /\ \/ /\ Msg(d).who # None
        /\ createPendingAction(d, "pdf", None, None)
        /\ Answer(d, "other", NewId, {}) /\ UNCHANGED <<session, said>>
     \/ Plain(d, {}) /\ UNCHANGED <<session, made, open, said>>
     \/ Msg(d).who # None /\ Draft(d)

\* A question about a document: the session's lease, else the lease of the tenant
\* named; nobody, or several leases, and it asks which.
AskDocument(d) ==
  LET lease == IF turn[d].ses.lease # None THEN turn[d].ses.lease ELSE Msg(d).who IN
  /\ Routed(d, "ask") /\ ~IsContract(d)
  /\ \/ lease # None /\ Plain(d, Persist(d) \cup Keep(d, [NoEnts EXCEPT !.lease = lease]))
     \/ turn[d].ses.lease = None /\ Plain(d, Persist(d))
  /\ UNCHANGED <<session, made, open, said>>

\* A ticket is for the session's flat, else for the flat named.
Flat(d) == IF turn[d].ses.flat # None THEN turn[d].ses.flat ELSE Msg(d).who

\* It is proposed, and the flat is kept, with its lease if it has one.
Ticket(d) ==
  /\ Flat(d) # None
  /\ createPendingAction(d, "ticket", Flat(d), None)
  /\ \E lease \in {Flat(d), None} :
       Answer(d, "other", NewId, Persist(d) \cup Keep(d, [lease |-> lease, flat |-> Flat(d)]))
  /\ UNCHANGED <<session, said>>

\* Asked for in words: without a flat it asks which.
ProposeTicket(d) ==
  /\ Routed(d, "ticket") /\ ~IsContract(d)
  /\ \/ Ticket(d)
     \/ Flat(d) = None /\ Plain(d, Persist(d)) /\ UNCHANGED <<session, made, open, said>>

\* With a photo: one that shows no damage, or cannot be read, proposes nothing.
Photo(d) ==
  /\ Routed(d, "photo")
  /\ \/ Ticket(d)
     \/ /\ Plain(d, Persist(d)) \/ Plain(d, {})
        /\ UNCHANGED <<session, made, open, said>>

\* A PDF is sent: what is known of the session's lease, else of the tenant's the words
\* name, else of the last lease that has a document; several leases, and it asks.
Upload(d) ==
  LET hint == IF turn[d].ses.lease # None THEN turn[d].ses.lease ELSE Msg(d).who IN
  /\ Routed(d, "upload")
  /\ \/ Plain(d, Persist(d))
     \/ \E lease \in IF hint = None THEN Tenants ELSE {hint} :
          Plain(d, Persist(d) \cup Keep(d, [NoEnts EXCEPT !.lease = lease]))
  /\ UNCHANGED <<session, made, open, said>>

\* An agent for a ticket (which one is external): proposed, or which agent is asked;
\* both keep the ticket.  No ticket, no agent, several of that name: it only says so.
ProposeAssign(d) ==
  /\ Routed(d, "assign") /\ ~IsContract(d)
  /\ \/ /\ createPendingAction(d, "assign", None, None)
        /\ Answer(d, "other", NewId, Persist(d) \cup Keep(d, NoEnts))
     \/ /\ Plain(d, Keep(d, NoEnts)) \/ Plain(d, Persist(d)) \/ Plain(d, {})
        /\ UNCHANGED <<made, open>>
  /\ UNCHANGED <<session, said>>

\* A receipt or a payment notice: proposed for a payment that can have one.
ProposePayment(d) ==
  /\ Routed(d, "payment") /\ ~IsContract(d)
  /\ \/ createPendingAction(d, "payment", None, None) /\ Answer(d, "other", NewId, {})
     \/ Plain(d, {}) /\ UNCHANGED <<made, open>>
  /\ UNCHANGED <<session, said>>

\* The reminders of all unpaid rents: one proposal for all, or nobody to remind.
PlanReminders(d) ==
  /\ Routed(d, "remind") /\ ~IsContract(d)
  /\ \/ createPendingAction(d, "reminders", None, None) /\ Answer(d, "other", NewId, Persist(d))
     \/ Plain(d, Persist(d)) /\ UNCHANGED <<made, open>>
  /\ UNCHANGED <<session, said>>

\* A question on the data: a local tool answers, and what it found alone is kept;
\* or the tool proposes a message, a reminder, an automation.
ReadData(d) ==
  /\ Routed(d, "data") /\ ~IsContract(d)
  /\ \/ /\ \/ Plain(d, Persist(d))
           \/ Plain(d, Persist(d) \cup Keep(d, Found(d)))
        /\ UNCHANGED <<made, open>>
     \/ /\ createPendingAction(d, "message", None, None)
        /\ Answer(d, "other", NewId, Persist(d))
  /\ UNCHANGED <<session, said>>

\* Anything else goes to OpenAI: a detail without a draft, and a question about
\* documents that the facts do not answer.
AskOpenAi(d) ==
  /\ At(d, "route") /\ Msg(d).kind \in {"detail", "free", "ask"} /\ ~IsContract(d)
  /\ Inside(d, "think", 0) /\ UNCHANGED open

Thinking(d) == At(d, "think") /\ turn[d].round < Rounds
NextRound(d, id) == Go(d, [Turn("think", turn[d].n, id) EXCEPT !.round = turn[d].round + 1])

\* Mutant: the rounds are not counted.
ToolReadUncounted(d) ==
  /\ Thinking(d) /\ Go(d, turn[d])
  /\ jobs' = jobs \cup (IF Msg(d).who = None THEN {} ELSE Keep(d, Found(d)))
  /\ UNCHANGED <<session, made, open, screen, said, answer, mishaps>>

\* It calls a tool that reads: the tenant it found is kept ...
ToolRead(d) ==
  /\ Thinking(d) /\ NextRound(d, turn[d].id)
  /\ jobs' = jobs \cup (IF Msg(d).who = None THEN {} ELSE Keep(d, Found(d)))
  /\ UNCHANGED <<session, made, open, screen, said, answer, mishaps>>

\* ... or one that proposes (a contract, with the PDF it leads to; the others are
\* simpler): the card of the turn is the last proposal, ...
ToolPropose(d) ==
  /\ Thinking(d) /\ NextRound(d, NewId)
  /\ createPendingAction(d, "lease", None, None)
  /\ UNCHANGED <<session, jobs, screen, said, answer, mishaps>>

\* ... and a PDF of which the lease is not found takes the card away.
ToolProposeNothing(d) ==
  /\ Thinking(d) /\ NextRound(d, 0)
  /\ UNCHANGED <<session, made, open, jobs, screen, said, answer, mishaps>>

\* It answers, or its rounds are used up: nothing is persisted.
OpenAiAnswers(d) ==
  /\ At(d, "think")
  /\ Answer(d, "other", turn[d].id, {})
  /\ UNCHANGED <<session, made, open, said>>

\* It fails: the local tools take over, and the card of the turn is lost.
OpenAiFails(d) ==
  /\ Thinking(d) /\ Inside(d, "router", 0) /\ UNCHANGED open

\* No local tool fits: a short message gets the proposal that waits, without its
\* card; others a question, or the portfolio, which is not persisted.
Router(d) ==
  /\ At(d, "router")
  /\ \/ open # {} /\ Reply(d, "other", getLatestPendingForUser, FALSE, Persist(d))
     \/ Plain(d, Persist(d))
     \/ Plain(d, {})
  /\ UNCHANGED <<session, made, open, said>>

---------------------------------------------------------------------------
(* The surroundings *)

\* The process stops while it works: the requests and the background jobs are gone.
Crash ==
  /\ Mishap /\ ~Quiet
  /\ turn' = [d \in Devices |-> Idle]
  /\ jobs' = {}
  /\ UNCHANGED <<session, made, open, screen, said, answer>>

\* A proposal expires: all live as long, so the oldest goes first.  (Inside a turn
\* it would only make confirmAction refuse, which it may do anyway.)
Expire ==
  /\ Quiet /\ open # {} /\ Mishap
  /\ open' = open \ {Min(open)}
  /\ UNCHANGED <<session, made, jobs, turn, screen, said, answer>>

\* The session expires when the user has been silent.
SessionExpires ==
  /\ Quiet
  /\ session # EmptySession /\ session' = EmptySession
  /\ Mishap
  /\ UNCHANGED <<made, open, jobs, turn, screen, said, answer>>


Local(d) ==
  \/ Inform(d) \/ LookToConfirm(d) \/ Consume(d)
  \/ RunLease(d) \/ RunTicket(d) \/ RunAssign(d) \/ RunOther(d)
  \/ LookToCancel(d) \/ Cancel(d) \/ Contract(d) \/ Pdf(d) \/ AskDocument(d) \/ Upload(d)
  \/ ProposeTicket(d) \/ ProposeAssign(d) \/ ProposePayment(d) \/ PlanReminders(d)
  \/ Photo(d) \/ ReadData(d) \/ Router(d)

OpenAi(d) ==
  \/ AskOpenAi(d) \/ ToolRead(d) \/ ToolPropose(d) \/ ToolProposeNothing(d)
  \/ OpenAiAnswers(d) \/ OpenAiFails(d)

\* The steps of a request that the program takes by itself.
Serve(d) == Local(d) \/ OpenAi(d)

\* The process works as long as there is something to do, in whatever order: OpenAI
\* and the database answer or fail.
Work == JobStep \/ \E d \in Devices : Serve(d)

Next ==
  \/ \E d \in Devices : \E m \in Sayable(d) : Send(d, m)
  \/ Work \/ Crash \/ Expire \/ SessionExpires

Spec     == Init /\ [][Next]_vars
FairSpec == Spec /\ WF_vars(Work)

---------------------------------------------------------------------------
(* Properties *)

\* Type invariant.
TypeOK ==
  /\ session.lease \in Tenants \cup {None} /\ session.flat \in Tenants \cup {None}
  /\ Len(session.turns) <= ServerTurns
  /\ open \subseteq DOMAIN made
  /\ \A d \in Devices :
       /\ turn[d].at \in Places
       /\ turn[d].n \in 0..Len(said) /\ turn[d].id \in 0..Len(made)
       /\ turn[d].round \in 0..Rounds /\ Len(turn[d].hist) <= HistoryLimit
       /\ card[d] \in 0..Len(made)
  /\ Len(answer) = Len(said) /\ \A n \in DOMAIN said : said[n].kind \in Kinds /\ said[n].dev \in Devices

\* "oui" runs what the last answer on that device spoke of, or something newer:
\* never an older proposal while that one is still open.
YesRunsToldOrNewer ==
  \A d \in Devices : At(d, "confirm") /\ told[d] \in open => turn[d].id >= told[d]

\* What the screen of its client shows when message n is sent, and n itself.
ShownTo(n) ==
  {n} \cup ({log[said[n].dev][i] : i \in DOMAIN log[said[n].dev]} \cap 1..(n - 1))

\* Where the contract of message n began: the last request there for a contract, or
\* for a contract's PDF.
Asking(n) == {m \in ShownTo(n) : said[m].kind \in {"contract", "pdf"}}
Since(n)  == {m \in ShownTo(n) : m >= Max(Asking(n))}

\* Message n speaks of a contract that was asked for (a PDF request becomes a draft
\* only as n itself), and every answer since then continued it.
OneDraft(n) ==
  /\ Asking(n) # {} /\ (Max(Asking(n)) = n \/ said[Max(Asking(n))].kind = "contract")
  /\ \A m \in Since(n) \ {n} : answer[m] = "draft"

\* The value v of a field is the last one those messages name, or none of them does.
LastSaid(n, field, v) ==
  LET naming == {m \in Since(n) : said[m][field] # None}
  IN IF naming = {} THEN v = None ELSE v = said[Max(naming)][field]

\* The contract proposed to a client that sends its history is for the tenant and
\* the term the user named last there since he asked for it, when he asked no more
\* exchanges ago than the server looks at and all the answers since continued it:
\* nothing said on another client, nor a late job of the session, gets into the
\* proposal.  It says nothing of clients whose history is read from the session
\* (a late job loses exchanges there), of a draft that is longer than the history,
\* and of a draft that a PDF request began earlier: collectLeaseDraftMessages does
\* not stop at that request, and an earlier contract's term can come along.
DraftFollowsUser ==
  \A id \in DOMAIN made :
    LET n == made[id].n
        d == said[n].dev
    IN /\ made[id].type = "lease" /\ answer[n] = "draft"
       /\ d \in SendsHistory /\ log[d] # <<>> /\ log[d][1] < n
       /\ OneDraft(n) /\ Cardinality(Since(n)) <= HistoryLimit + 1
       => LastSaid(n, "who", made[id].who) /\ LastSaid(n, "term", made[id].term)

\* The requests and the jobs end, however they interleave: OpenAI cannot hold a turn
\* for more than its rounds, and no job waits for another.
Settles == []<>Quiet
=============================================================================
