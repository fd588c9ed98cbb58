-------------------------- MODULE Assistant_proofs --------------------------
(***************************************************************************)
(* What TLAPS proves of Assistant, for any devices, messages, sizes of the *)
(* history and rounds with OpenAI: "oui" never runs an older proposal than *)
(* the one the user was told of, and a contract proposed to a client that  *)
(* sends its history says what he said last, as far as DraftFollowsUser    *)
(* goes.                                                                   *)
(***************************************************************************)
EXTENDS Assistant, FiniteSetTheorems, SequenceTheorems, WellFoundedInduction, TLAPS

---------------------------------------------------------------------------
\* Lemmas on the operators.

Less == {p \in Nat \X Nat : p[1] < p[2]}

\* The least number principle.
LEMMA LeastNumber ==
  ASSUME NEW S, S \subseteq Nat, S # {}
  PROVE  \E x \in S : \A y \in S : x <= y
<1>1. IsWellFoundedOn(Less, Nat)
  BY NatLessThanWellFounded DEF OpToRel, Less
<1>2. PICK x \in S : \A y \in S : ~ (<<y, x>> \in Less)
  BY <1>1, WFMin
<1>3. \A y \in S : ~ (y < x)
  BY <1>2 DEF Less
<1> QED  BY <1>3

\* A bounded set of numbers that is not empty has a greatest and a least element.
LEMMA MaxOf ==
  ASSUME NEW S, NEW n \in Nat, S \subseteq 0..n, S # {}
  PROVE  Max(S) \in S /\ \A y \in S : Max(S) >= y
<1> DEFINE T == {m \in 0..n : n - m \in S}
<1>1. ASSUME NEW x \in S PROVE n - x \in T
  <2>1. x \in 0..n /\ n - (n - x) = x
    OBVIOUS
  <2> QED  BY <2>1
<1>2. T \subseteq Nat
  OBVIOUS
<1>3. T # {}
  BY <1>1
<1>4. PICK t \in T : \A y \in T : t <= y
  BY <1>2, <1>3, LeastNumber
<1>5. t \in 0..n /\ n - t \in S
  OBVIOUS
<1>6. ASSUME NEW y \in S PROVE n - t >= y
  <2>1. t <= n - y
    BY <1>1, <1>4
  <2>2. y \in 0..n
    OBVIOUS
  <2> QED  BY <1>5, <2>1, <2>2
<1> QED  BY <1>5, <1>6 DEF Max

LEMMA MinOf ==
  ASSUME NEW S, S \subseteq Nat, S # {}
  PROVE  Min(S) \in S /\ \A y \in S : Min(S) <= y
BY LeastNumber DEF Min

Lists(S, size) == {s \in Seq(S) : Len(s) <= size}

\* Newest takes a list of at most so many exchanges from the end of another one.
LEMMA NewestIs ==
  ASSUME NEW S, NEW h \in Seq(S), NEW size \in Nat
  PROVE  \E first \in 1..(Len(h) + 1) :
           /\ Newest(h, size) = SubSeq(h, first, Len(h))
           /\ first = 1 \/ first = Len(h) - size + 1
           /\ Len(h) - first + 1 <= size
<1> DEFINE T == {1, Len(h) - size + 1}
           first == IF Len(h) - size + 1 <= 1 THEN 1 ELSE Len(h) - size + 1
<1>0. Len(h) \in Nat
  OBVIOUS
<1>1. first \in T /\ \A y \in T : first >= y
  BY <1>0
<1>2. Max(T) = first
  BY <1>0, <1>1 DEF Max
<1>3. first \in 1..(Len(h) + 1) /\ Len(h) - first + 1 <= size
  BY <1>0
<1>4. Newest(h, size) = SubSeq(h, first, Len(h))
  BY <1>2 DEF Newest
<1> HIDE DEF first
<1> QED  BY <1>1, <1>3, <1>4

LEMMA NewestType ==
  ASSUME NEW S, NEW h \in Seq(S), NEW size \in Nat
  PROVE  Newest(h, size) \in Lists(S, size)
<1>1. PICK first \in 1..(Len(h) + 1) :
        /\ Newest(h, size) = SubSeq(h, first, Len(h))
        /\ Len(h) - first + 1 <= size
  BY NewestIs
<1>2. \A i \in first..Len(h) : h[i] \in S
  BY ElementOfSeq
<1>3. Len(h) \in Nat
  OBVIOUS
<1>4. /\ SubSeq(h, first, Len(h)) \in Seq(S)
      /\ Len(SubSeq(h, first, Len(h))) = IF first <= Len(h) THEN Len(h) - first + 1 ELSE 0
  BY <1>2, <1>3, SubSeqProperties
<1> QED  BY <1>1, <1>3, <1>4 DEF Lists

---------------------------------------------------------------------------
(* Types: N stands for the numbers of the messages. *)

Who       == Tenants \cup {None}
Ents      == [lease: Who, flat: Who]
Types     == {"lease", "pdf", "ticket", "assign", "payment", "reminders", "message"}
Says      == [kind: Kinds, who: Who, term: Terms \cup {None}, dev: Devices]
Rows(N)   == [lease: Who, flat: Who, turns: Lists(N, ServerTurns)]
Turns(N)  == [at: Places, n: {0} \cup N, id: Nat, ses: Rows(N),
              hist: Lists(N, HistoryLimit), round: 0..Rounds]
Jobs(N)   == [kind: {"persist", "keep"}, n: N, round: 0..Rounds, ents: Ents,
              at: {"read", "merge", "write"}, turns: Lists(N, ServerTurns), base: Rows(N)]
Offers(N) == [type: Types, who: Who, term: Terms \cup {None}, n: N]

Numbers == 1..Len(said)

TypeInv ==
  /\ said \in Seq(Says)
  /\ answer \in Seq({"none", "draft", "other"}) /\ Len(answer) = Len(said)
  /\ session \in Rows(Numbers) /\ jobs \subseteq Jobs(Numbers)
  /\ turn \in [Devices -> Turns(Numbers)] /\ log \in [Devices -> Seq(Numbers)]
  /\ made \in Seq(Offers(Numbers))
  /\ open \subseteq 1..Len(made)
  /\ card \in [Devices -> 0..Len(made)] /\ told \in [Devices -> 0..Len(made)]
  /\ \A d \in Devices :
       /\ turn[d].n = 0 => turn[d] = Idle
       /\ At(d, "idle") => turn[d].n = 0
       /\ turn[d].id \in 0..Len(made)
       /\ At(d, "route") => turn[d].id = 0
       /\ At(d, "run") => turn[d].id # 0

LEMMA EmptyRow == ASSUME NEW N PROVE EmptySession \in Rows(N)
BY AssistantAssumption DEF EmptySession, Rows, Who, Lists

LEMMA IdleType == ASSUME NEW N PROVE Idle \in Turns(N)
BY EmptyRow, AssistantAssumption DEF Idle, Turn, Turns, Places, Lists

\* More messages, more of everything.
LEMMA MoreMessages ==
  ASSUME NEW M, NEW N, M \subseteq N
  PROVE  /\ Seq(M) \subseteq Seq(N) /\ Rows(M) \subseteq Rows(N)
         /\ Turns(M) \subseteq Turns(N) /\ Jobs(M) \subseteq Jobs(N)
         /\ Seq(Offers(M)) \subseteq Seq(Offers(N))
<1>1. Seq(M) \subseteq Seq(N)
  BY SeqMonotonic
<1>2. \A size : Lists(M, size) \subseteq Lists(N, size)
  BY <1>1 DEF Lists
<1>3. Rows(M) \subseteq Rows(N)
  BY <1>2 DEF Rows
<1>4. Turns(M) \subseteq Turns(N) /\ Jobs(M) \subseteq Jobs(N)
  BY <1>2, <1>3 DEF Turns, Jobs
<1>5. Offers(M) \subseteq Offers(N)
  BY DEF Offers
<1>6. Seq(Offers(M)) \subseteq Seq(Offers(N))
  BY <1>5, SeqMonotonic
<1> QED  BY <1>1, <1>3, <1>4, <1>6

LEMMA BackgroundType ==
  ASSUME TypeInv, NEW d \in Devices, ~At(d, "idle")
  PROVE  /\ Persist(d) \subseteq Jobs(Numbers)
         /\ \A ents \in Ents : Keep(d, ents) \subseteq Jobs(Numbers)
         /\ turn[d].n \in Numbers
<1>1. turn[d] \in Turns(Numbers) /\ turn[d].n \in Numbers
  BY DEF TypeInv, At, Turns, Idle, Turn
<1>2. NoEnts \in Ents /\ <<>> \in Lists(Numbers, ServerTurns)
  BY AssistantAssumption DEF NoEnts, Ents, Who, Lists
<1>3. ASSUME NEW kind \in {"persist", "keep"}, NEW ents \in Ents
      PROVE  Job(d, kind, ents) \in Jobs(Numbers)
  BY <1>1, <1>2, EmptyRow DEF Job, Jobs, Turns
<1> QED  BY <1>1, <1>2, <1>3 DEF Persist, Keep

---------------------------------------------------------------------------
(* What a step of a turn does, whichever it is. *)

\* The turn is over: an answer of that kind about that proposal, and its jobs.
Ended(d, kind, id, background) ==
  /\ turn' = [turn EXCEPT ![d] = Idle]
  /\ answer' = [answer EXCEPT ![turn[d].n] = kind]
  /\ jobs' = jobs \cup background
  /\ \/ UNCHANGED screen
     \/ /\ log' = [log EXCEPT ![d] = Append(@, turn[d].n)]
        /\ \E shown \in {0, id} : card' = [card EXCEPT ![d] = shown]
        /\ told' = [told EXCEPT ![d] = id]

\* It ends without a new proposal ...
Concludes(d) ==
  /\ ~At(d, "idle")
  /\ made' = made /\ open' \subseteq open
  /\ UNCHANGED <<session, said>>
  /\ \E kind \in {"draft", "other"}, id \in {0, turn[d].id} \cup open,
        background \in SUBSET Jobs(Numbers) :
       /\ Ended(d, kind, id, background)
       /\ kind = "draft" => At(d, "route")
       /\ At(d, "think") => id = turn[d].id

\* ... or with one, ...
Proposes(d) ==
  /\ At(d, "route") \/ At(d, "run")
  /\ UNCHANGED <<session, said>>
  /\ \E kind \in {"draft", "other"}, type \in Types, who \in Who, term \in Terms \cup {None},
        background \in SUBSET Jobs(Numbers) :
       /\ createPendingAction(d, type, who, term)
       /\ Ended(d, kind, NewId, background)
       /\ kind = "draft" => At(d, "route")
       /\ type = "lease" => /\ kind = "draft" /\ DraftOf(d) # <<>>
                            /\ who = LastNamed(DraftOf(d), "who")
                            /\ term = LastNamed(DraftOf(d), "term")

\* ... or it goes on.
GoesOn(d) ==
  /\ ~At(d, "idle") /\ open' \subseteq open
  /\ \E place \in Places \ {"idle", "route"}, id \in 0..Len(made) :
       /\ Inside(d, place, id)
       /\ place = "confirm" => At(d, "route") /\ open # {} /\ id = getLatestPendingForUser
       /\ place = "run" => id # 0

Calls(d) == ToolRead(d) \/ ToolPropose(d) \/ ToolProposeNothing(d)

LEMMA PlainEnds ==
  ASSUME NEW d, NEW background, Plain(d, background)
  PROVE  Ended(d, "other", 0, background)
BY DEF Plain, Answer, Reply, Go, Ended, screen

LEMMA AnswerEnds ==
  ASSUME NEW d, NEW kind, NEW id, NEW background, Answer(d, kind, id, background)
  PROVE  Ended(d, kind, id, background)
BY DEF Answer, Reply, Go, Ended, screen

\* A field a draft names is the tenant or the term of one of the messages.
LEMMA LastNamedType ==
  ASSUME said \in Seq(Says), NEW draft \in Seq(Numbers)
  PROVE  /\ LastNamed(draft, "who") \in Who
         /\ LastNamed(draft, "term") \in Terms \cup {None}
<1>1. ASSUME NEW field, LastNamed(draft, field) # None
      PROVE  \E k \in Numbers : LastNamed(draft, field) = said[k][field]
  <2> DEFINE naming == {i \in DOMAIN draft : said[draft[i]][field] # None}
  <2>1. naming # {} /\ LastNamed(draft, field) = said[draft[Max(naming)]][field]
    BY <1>1 DEF LastNamed
  <2>2. naming \subseteq 0..Len(draft) /\ Len(draft) \in Nat
    OBVIOUS
  <2>3. Max(naming) \in naming
    BY <2>1, <2>2, MaxOf
  <2>4. draft[Max(naming)] \in Numbers
    BY <2>3
  <2> QED  BY <2>1, <2>4
<1>2. \A k \in Numbers : said[k] \in Says
  BY DEF Numbers
<1> QED  BY <1>1, <1>2 DEF Says, Who

\* The messages from i on continue one draft.
Continues(h, i) ==
  /\ \A j \in i..Len(h) : answer[h[j]] = "draft"
  /\ \A j \in (i + 1)..Len(h) : said[h[j]].kind # "contract"

LEMMA CollectIs ==
  ASSUME NEW N, NEW h \in Seq(N), NEW n
  PROVE  \E first \in 1..(Len(h) + 1) :
           /\ collectLeaseDraftMessages(h, n) = SubSeq(h, first, Len(h)) \o <<n>>
           /\ Continues(h, first)
           /\ \A i \in 1..(Len(h) + 1) : Continues(h, i) => first <= i
<1> DEFINE S == {i \in 1..(Len(h) + 1) : Continues(h, i)}
<1>1. Len(h) \in Nat
  OBVIOUS
<1>2. (Len(h) + 1)..Len(h) = {} /\ (Len(h) + 2)..Len(h) = {}
  BY <1>1
<1>3. Len(h) + 1 \in S
  BY <1>1, <1>2 DEF Continues
<1>4. collectLeaseDraftMessages(h, n) = SubSeq(h, Min(S), Len(h)) \o <<n>>
  BY DEF collectLeaseDraftMessages, Continues
<1>5. Min(S) \in S /\ \A i \in S : Min(S) <= i
  <2>1. S \subseteq Nat /\ S # {}
    BY <1>1, <1>3
  <2> HIDE DEF S
  <2> QED  BY <2>1, MinOf
<1> QED  BY <1>4, <1>5

LEMMA DraftType ==
  ASSUME TypeInv, NEW d \in Devices, At(d, "route")
  PROVE  DraftOf(d) \in Seq(Numbers) /\ DraftOf(d) # <<>>
<1> DEFINE h == turn[d].hist
           n == turn[d].n
<1>1. h \in Seq(Numbers) /\ n \in Numbers
  BY BackgroundType DEF TypeInv, Turns, Lists, At
<1>2. <<n>> \in Seq(Numbers) /\ Len(<<n>>) = 1
  BY <1>1
<1>3. Len(h) \in Nat
  BY <1>1
<1>4. PICK first \in 1..(Len(h) + 1) :
        collectLeaseDraftMessages(h, n) = SubSeq(h, first, Len(h)) \o <<n>>
  BY <1>1, CollectIs
<1>5. SubSeq(h, first, Len(h)) \in Seq(Numbers)
  <2>1. \A i \in first..Len(h) : h[i] \in Numbers
    BY <1>1, <1>4
  <2>2. first \in Int /\ Len(h) \in Int
    BY <1>3
  <2> QED  BY <2>1, <2>2, SubSeqProperties
<1>6. /\ SubSeq(h, first, Len(h)) \o <<n>> \in Seq(Numbers)
      /\ SubSeq(h, first, Len(h)) \o <<n>> # <<>>
  BY <1>2, <1>5, ConcatProperties
<1> QED  BY <1>2, <1>4, <1>6 DEF DraftOf

\* What an answer needs to end a turn, without a proposal or with one that is no lease.
LEMMA PlainConcludes ==
  ASSUME TypeInv, NEW d \in Devices, ~At(d, "idle"), ~At(d, "think"),
         NEW background \in SUBSET Jobs(Numbers), Plain(d, background),
         UNCHANGED <<session, made, said>>, open' \subseteq open
  PROVE  Concludes(d)
<1>1. Ended(d, "other", 0, background)
  BY PlainEnds
<1> QED  BY <1>1 DEF Concludes

LEMMA AnswerProposes ==
  ASSUME TypeInv, NEW d \in Devices, At(d, "route") \/ At(d, "run"),
         NEW background \in SUBSET Jobs(Numbers),
         NEW type \in Types \ {"lease"}, NEW who \in Who, NEW term \in Terms \cup {None},
         createPendingAction(d, type, who, term), Answer(d, "other", NewId, background),
         UNCHANGED <<session, said>>
  PROVE  Proposes(d)
<1>1. Ended(d, "other", NewId, background)
  BY AnswerEnds
<1> QED  BY <1>1 DEF Proposes

LEMMA DraftShape ==
  ASSUME TypeInv, NEW d \in Devices, At(d, "route"), Draft(d)
  PROVE  Concludes(d) \/ Proposes(d)
<1>0. Persist(d) \in SUBSET Jobs(Numbers)
  BY BackgroundType DEF At
<1>1. CASE Answer(d, "draft", 0, Persist(d)) /\ UNCHANGED <<made, open>>
  <2>1. Ended(d, "draft", 0, Persist(d))
    BY <1>1, AnswerEnds
  <2> QED  BY <1>0, <1>1, <2>1 DEF Concludes, Draft, At
<1>2. CASE /\ createPendingAction(d, "lease", LastNamed(DraftOf(d), "who"),
                               LastNamed(DraftOf(d), "term"))
           /\ Answer(d, "draft", NewId, Persist(d))
  <2>1. Ended(d, "draft", NewId, Persist(d))
    BY <1>2, AnswerEnds
  <2>2. /\ LastNamed(DraftOf(d), "who") \in Who
        /\ LastNamed(DraftOf(d), "term") \in Terms \cup {None}
        /\ DraftOf(d) # <<>>
    BY LastNamedType, DraftType DEF TypeInv
  <2>3. "lease" \in Types
    BY DEF Types
  <2>4. UNCHANGED <<session, said>>
    BY DEF Draft
  <2> QED  BY <1>0, <1>2, <2>1, <2>2, <2>3, <2>4 DEF Proposes
<1> QED  BY <1>1, <1>2 DEF Draft

\* What a message, a tenant and the session say, in the right sets.
LEMMA SaidTypes ==
  ASSUME TypeInv, NEW d \in Devices, At(d, "route")
  PROVE  /\ Msg(d).who \in Who
         /\ Msg(d).kind \in Kinds
         /\ turn[d].ses.lease \in Who /\ turn[d].ses.flat \in Who
         /\ Flat(d) \in Who /\ Found(d) \in Ents
<1>1. turn[d] \in Turns(Numbers) /\ turn[d].n \in Numbers
  BY BackgroundType DEF TypeInv, At
<1>2. Msg(d) \in Says
  BY <1>1, ElementOfSeq DEF TypeInv, Msg, Numbers
<1>3. turn[d].ses \in Rows(Numbers)
  BY <1>1 DEF Turns
<1> QED  BY <1>2, <1>3 DEF Says, Rows, Flat, Found, Ents

LEMMA EntsTypes ==
  /\ NoEnts \in Ents
  /\ \A x \in Who, y \in Who : [lease |-> x, flat |-> y] \in Ents
  /\ \A x \in Who : [NoEnts EXCEPT !.lease = x] \in Ents /\ [NoEnts EXCEPT !.flat = x] \in Ents
  /\ None \in Who
BY DEF NoEnts, Ents, Who

LEMMA TicketShape ==
  ASSUME TypeInv, NEW d \in Devices, At(d, "route"), Ticket(d)
  PROVE  Proposes(d)
<1>1. PICK lease \in {Flat(d), None} :
        Answer(d, "other", NewId, Persist(d) \cup Keep(d, [lease |-> lease, flat |-> Flat(d)]))
  BY DEF Ticket
<1>2. Persist(d) \cup Keep(d, [lease |-> lease, flat |-> Flat(d)]) \in SUBSET Jobs(Numbers)
  BY SaidTypes, EntsTypes, BackgroundType DEF At
<1>3. "ticket" \in Types \ {"lease"}
  BY DEF Types
<1> QED  BY <1>1, <1>2, <1>3, SaidTypes, EntsTypes, AnswerProposes DEF Ticket

LEMMA LatestIs ==
  ASSUME TypeInv, open # {}
  PROVE  /\ getLatestPendingForUser \in open /\ getLatestPendingForUser \in 0..Len(made)
         /\ getLatestPendingForUser # 0
         /\ \A id \in open : getLatestPendingForUser >= id
<1>1. Len(made) \in Nat /\ open \subseteq 0..Len(made) /\ 0 \notin open
  BY DEF TypeInv
<1>2. Max(open) \in open /\ \A id \in open : Max(open) >= id
  BY <1>1, MaxOf
<1> QED  BY <1>1, <1>2 DEF getLatestPendingForUser

LEMMA LocalShape ==
  ASSUME TypeInv, NEW d \in Devices, Local(d)
  PROVE  Concludes(d) \/ Proposes(d) \/ GoesOn(d)
<1>0. /\ ~At(d, "idle") => /\ {} \in SUBSET Jobs(Numbers) /\ Persist(d) \in SUBSET Jobs(Numbers)
                           /\ \A ents \in Ents : Keep(d, ents) \in SUBSET Jobs(Numbers)
      /\ Types \ {"lease"} = {"pdf", "ticket", "assign", "payment", "reminders", "message"}
      /\ None \in Who /\ None \in Terms \cup {None}
  BY BackgroundType DEF Types, Who
<1>1. CASE Inform(d)
  BY <1>0, <1>1, PlainConcludes DEF Inform, Routed, At
<1>2. CASE LookToConfirm(d)
  <2>1. CASE open = {} /\ Plain(d, {})
    BY <1>0, <1>2, <2>1, PlainConcludes DEF LookToConfirm, Routed, At
  <2>2. CASE open # {} /\ Inside(d, "confirm", getLatestPendingForUser)
    BY <1>2, <2>2, LatestIs DEF LookToConfirm, Routed, GoesOn, At, Places
  <2> QED  BY <1>2, <2>1, <2>2 DEF LookToConfirm
<1>3. CASE Consume(d)
  <2>1. CASE Plain(d, {}) /\ UNCHANGED <<session, made, open, said>>
    BY <1>0, <1>3, <2>1, PlainConcludes DEF Consume, At
  <2>2. CASE turn[d].id \in open /\ Inside(d, "run", turn[d].id)
    BY <1>3, <2>2 DEF Consume, GoesOn, At, Places, TypeInv
  <2> QED  BY <1>3, <2>1, <2>2 DEF Consume
<1>4. CASE RunLease(d)
  BY <1>0, <1>4, AnswerProposes DEF RunLease, At
<1>5. CASE RunTicket(d)
  <2>1. turn[d].id \in 1..Len(made)
    BY <1>5 DEF RunTicket, TypeInv
  <2>2. made[turn[d].id] \in Offers(Numbers)
    BY <2>1, ElementOfSeq DEF TypeInv
  <2>3. made[turn[d].id].who \in Who
    BY <2>2 DEF Offers
  <2> QED  BY <1>0, <1>5, <2>3, EntsTypes, PlainConcludes DEF RunTicket, At
<1>6. CASE RunAssign(d) \/ RunOther(d)
  BY <1>0, <1>6, EntsTypes, PlainConcludes DEF RunAssign, RunOther, At
<1>7. CASE LookToCancel(d)
  <2>1. CASE open # {} /\ Inside(d, "cancel", getLatestPendingForUser)
    BY <1>7, <2>1, LatestIs DEF LookToCancel, Routed, GoesOn, At, Places
  <2>2. CASE At(d, "route") /\ Inside(d, "again", 0)
    BY <1>7, <2>2 DEF LookToCancel, GoesOn, At, Places, TypeInv
  <2>3. CASE Plain(d, {}) /\ UNCHANGED <<session, made, said>>
    BY <1>0, <1>7, <2>3, PlainConcludes DEF LookToCancel, Routed, At
  <2> QED  BY <1>7, <2>1, <2>2, <2>3 DEF LookToCancel
<1>8. CASE Cancel(d)
  BY <1>0, <1>8, PlainConcludes DEF Cancel, At
<1>9. CASE Contract(d)
  BY <1>9, DraftShape DEF Contract
<1>10. CASE Pdf(d)
  <2>1. CASE Draft(d)
    BY <1>10, <2>1, DraftShape DEF Pdf, Routed
  <2>2. CASE Plain(d, {}) /\ UNCHANGED <<session, made, open, said>>
    BY <1>0, <1>10, <2>2, PlainConcludes DEF Pdf, Routed, At
  <2>3. CASE /\ createPendingAction(d, "pdf", None, None)
             /\ Answer(d, "other", NewId, {}) /\ UNCHANGED <<session, said>>
    BY <1>0, <1>10, <2>3, AnswerProposes DEF Pdf, Routed, At
  <2> QED  BY <1>10, <2>1, <2>2, <2>3 DEF Pdf
<1>11. CASE AskDocument(d)
  <2> DEFINE lease == IF turn[d].ses.lease # None THEN turn[d].ses.lease ELSE Msg(d).who
  <2>1. lease \in Who /\ At(d, "route") /\ ~At(d, "idle") /\ ~At(d, "think")
    BY <1>11, SaidTypes DEF AskDocument, Routed, At
  <2>2. Persist(d) \cup Keep(d, [NoEnts EXCEPT !.lease = lease]) \in SUBSET Jobs(Numbers)
    BY <1>0, <2>1, EntsTypes
  <2>3. /\ UNCHANGED <<session, made, open, said>>
        /\ \/ Plain(d, Persist(d) \cup Keep(d, [NoEnts EXCEPT !.lease = lease]))
           \/ Plain(d, Persist(d))
    BY <1>11 DEF AskDocument
  <2> HIDE DEF lease
  <2> QED  BY <1>0, <2>1, <2>2, <2>3, PlainConcludes
<1>12. CASE Upload(d)
  <2> DEFINE hint == IF turn[d].ses.lease # None THEN turn[d].ses.lease ELSE Msg(d).who
  <2>1. hint \in Who /\ At(d, "route") /\ ~At(d, "idle") /\ ~At(d, "think")
    BY <1>12, SaidTypes DEF Upload, Routed, At
  <2>2. /\ UNCHANGED <<session, made, open, said>>
        /\ \/ Plain(d, Persist(d))
           \/ \E lease \in Who :
                 Plain(d, Persist(d) \cup Keep(d, [NoEnts EXCEPT !.lease = lease]))
    BY <1>12, <2>1 DEF Upload, Who
  <2>3. \A lease \in Who :
          Persist(d) \cup Keep(d, [NoEnts EXCEPT !.lease = lease]) \in SUBSET Jobs(Numbers)
    BY <1>0, <2>1, EntsTypes
  <2> QED  BY <1>0, <2>1, <2>2, <2>3, PlainConcludes
<1>13. CASE ProposeTicket(d)
  <2>1. CASE Ticket(d)
    BY <1>13, <2>1, TicketShape DEF ProposeTicket, Routed
  <2>2. CASE Plain(d, Persist(d)) /\ UNCHANGED <<session, made, open, said>>
    BY <1>0, <1>13, <2>2, PlainConcludes DEF ProposeTicket, Routed, At
  <2> QED  BY <1>13, <2>1, <2>2 DEF ProposeTicket
<1>14. CASE Photo(d)
  <2>1. CASE Ticket(d)
    BY <1>14, <2>1, TicketShape DEF Photo, Routed
  <2>2. CASE (Plain(d, Persist(d)) \/ Plain(d, {})) /\ UNCHANGED <<session, made, open, said>>
    BY <1>0, <1>14, <2>2, PlainConcludes DEF Photo, Routed, At
  <2> QED  BY <1>14, <2>1, <2>2 DEF Photo
<1>15. CASE ProposeAssign(d)
  <2>0. At(d, "route") /\ ~At(d, "idle") /\ ~At(d, "think")
    BY <1>15 DEF ProposeAssign, Routed, At
  <2>1. /\ Keep(d, NoEnts) \in SUBSET Jobs(Numbers)
        /\ Persist(d) \cup Keep(d, NoEnts) \in SUBSET Jobs(Numbers)
    BY <1>0, <2>0, EntsTypes
  <2>2. CASE /\ createPendingAction(d, "assign", None, None)
             /\ Answer(d, "other", NewId, Persist(d) \cup Keep(d, NoEnts))
    BY <1>0, <1>15, <2>0, <2>1, <2>2, AnswerProposes DEF ProposeAssign
  <2>3. CASE /\ Plain(d, Keep(d, NoEnts)) \/ Plain(d, Persist(d)) \/ Plain(d, {})
             /\ UNCHANGED <<made, open>>
    BY <1>0, <1>15, <2>0, <2>1, <2>3, PlainConcludes DEF ProposeAssign
  <2> QED  BY <1>15, <2>2, <2>3 DEF ProposeAssign
<1>16. CASE ProposePayment(d)
  BY <1>0, <1>16, PlainConcludes, AnswerProposes DEF ProposePayment, Routed, At
<1>17. CASE PlanReminders(d)
  BY <1>0, <1>17, PlainConcludes, AnswerProposes DEF PlanReminders, Routed, At
<1>18. CASE ReadData(d)
  <2>0. At(d, "route") /\ ~At(d, "idle") /\ ~At(d, "think")
    BY <1>18 DEF ReadData, Routed, At
  <2>1. Persist(d) \cup Keep(d, Found(d)) \in SUBSET Jobs(Numbers)
    BY <1>0, <2>0, SaidTypes
  <2>2. CASE /\ createPendingAction(d, "message", None, None)
             /\ Answer(d, "other", NewId, Persist(d))
    BY <1>0, <1>18, <2>0, <2>2, AnswerProposes DEF ReadData
  <2>3. CASE /\ Plain(d, Persist(d)) \/ Plain(d, Persist(d) \cup Keep(d, Found(d)))
             /\ UNCHANGED <<made, open>>
    BY <1>0, <1>18, <2>0, <2>1, <2>3, PlainConcludes DEF ReadData
  <2> QED  BY <1>18, <2>2, <2>3 DEF ReadData
<1>19. CASE Router(d)
  <2>0. ~At(d, "idle") /\ ~At(d, "think")
    BY <1>19 DEF Router, At
  <2>1. CASE open # {} /\ Reply(d, "other", getLatestPendingForUser, FALSE, Persist(d))
    <3>1. Ended(d, "other", getLatestPendingForUser, Persist(d))
      BY <2>1 DEF Reply, Go, Ended, screen
    <3> QED  BY <1>0, <1>19, <2>0, <2>1, <3>1, LatestIs DEF Router, Concludes
  <2>2. CASE Plain(d, Persist(d)) \/ Plain(d, {})
    BY <1>0, <1>19, <2>0, <2>2, PlainConcludes DEF Router
  <2> QED  BY <1>19, <2>1, <2>2 DEF Router
<1> QED  BY <1>1, <1>2, <1>3, <1>4, <1>5, <1>6, <1>7, <1>8, <1>9, <1>10, <1>11, <1>12,
            <1>13, <1>14, <1>15, <1>16, <1>17, <1>18, <1>19 DEF Local

\* A step with OpenAI.
LEMMA OpenAiShape ==
  ASSUME TypeInv, NEW d \in Devices, OpenAi(d)
  PROVE  Concludes(d) \/ GoesOn(d) \/ Calls(d)
<1>1. CASE AskOpenAi(d)
  BY <1>1 DEF AskOpenAi, GoesOn, At, Places, TypeInv
<1>2. CASE OpenAiAnswers(d)
  <2>1. Ended(d, "other", turn[d].id, {})
    BY <1>2, AnswerEnds DEF OpenAiAnswers
  <2>2. turn[d].id \in {0, turn[d].id} \cup open /\ {} \in SUBSET Jobs(Numbers)
    OBVIOUS
  <2>3. UNCHANGED <<session, made, open, said>>
    BY <1>2 DEF OpenAiAnswers
  <2> QED  BY <1>2, <2>1, <2>2, <2>3 DEF OpenAiAnswers, At, Concludes
<1>3. CASE OpenAiFails(d)
  BY <1>3 DEF OpenAiFails, Thinking, GoesOn, At, Places, TypeInv
<1> QED  BY <1>1, <1>2, <1>3 DEF OpenAi, Calls

---------------------------------------------------------------------------
(* Types are kept. *)

\* The end of a turn keeps what is not about the proposals.
LEMMA EndedTypes ==
  ASSUME TypeInv, NEW d \in Devices, ~At(d, "idle"), UNCHANGED <<session, said>>,
         NEW kind \in {"draft", "other"}, NEW id \in Nat, NEW background \in SUBSET Jobs(Numbers),
         NEW last \in Nat, Len(made) <= last, id <= last,
         Ended(d, kind, id, background)
  PROVE  /\ answer' \in Seq({"none", "draft", "other"}) /\ Len(answer') = Len(said')
         /\ session' \in Rows(Numbers') /\ jobs' \subseteq Jobs(Numbers')
         /\ turn' \in [Devices -> Turns(Numbers')] /\ log' \in [Devices -> Seq(Numbers')]
         /\ card' \in [Devices -> 0..last] /\ told' \in [Devices -> 0..last]
         /\ \A e \in Devices : turn'[e] = IF e = d THEN Idle ELSE turn[e]
<1>1. Numbers' = Numbers
  BY DEF Numbers
<1>2. turn[d].n \in Numbers
  BY BackgroundType
<1>3. answer' \in Seq({"none", "draft", "other"}) /\ Len(answer') = Len(said')
  <2>1. turn[d].n \in 1..Len(answer) /\ answer \in Seq({"none", "draft", "other"})
    BY <1>2 DEF TypeInv, Numbers
  <2>2. answer' = [answer EXCEPT ![turn[d].n] = kind]
    BY DEF Ended
  <2> QED  BY <2>1, <2>2, ExceptSeq DEF TypeInv
<1>4. /\ turn' \in [Devices -> Turns(Numbers)]
      /\ \A e \in Devices : turn'[e] = IF e = d THEN Idle ELSE turn[e]
  BY IdleType DEF TypeInv, Ended
<1>5. log' \in [Devices -> Seq(Numbers)]
  <2>1. log[d] \in Seq(Numbers) /\ Append(log[d], turn[d].n) \in Seq(Numbers)
    BY <1>2, AppendProperties DEF TypeInv
  <2> QED  BY <2>1 DEF TypeInv, Ended, screen
<1>6. /\ card' \in [Devices -> 0..last] /\ told' \in [Devices -> 0..last]
  <2>1. Len(made) \in Nat
    BY DEF TypeInv
  <2>2. 0..Len(made) \subseteq 0..last /\ 1..Len(made) \subseteq 1..last /\ id \in 0..last
    BY <2>1
  <2>3. card \in [Devices -> 0..last] /\ told \in [Devices -> 0..last]
    BY <2>2 DEF TypeInv
  <2>5. CASE UNCHANGED screen
    BY <2>3, <2>5 DEF screen
  <2>6. CASE /\ \E shown \in {0, id} : card' = [card EXCEPT ![d] = shown]
             /\ told' = [told EXCEPT ![d] = id]
    <3>1. PICK shown \in {0, id} : card' = [card EXCEPT ![d] = shown]
      BY <2>6
    <3>2. shown \in 0..last
      BY <2>2
    <3> QED  BY <2>2, <2>3, <2>6, <3>1, <3>2
  <2> QED  BY <2>5, <2>6 DEF Ended
<1>7. session' \in Rows(Numbers) /\ jobs' \subseteq Jobs(Numbers)
  BY DEF TypeInv, Ended
<1> QED  BY <1>1, <1>3, <1>4, <1>5, <1>6, <1>7

\* What TypeInv says of each turn.
TurnOk(d) ==
  /\ turn[d].n = 0 => turn[d] = Idle
  /\ At(d, "idle") => turn[d].n = 0
  /\ turn[d].id \in 0..Len(made)
  /\ At(d, "route") => turn[d].id = 0
  /\ At(d, "run") => turn[d].id # 0

\* It stays true of the turns that a step leaves alone or ends.
LEMMA TurnsOk ==
  ASSUME TypeInv, NEW d \in Devices, Len(made') \in Nat, Len(made) <= Len(made'),
         \A e \in Devices : turn'[e] = IF e = d THEN Idle ELSE turn[e]
  PROVE  \A e \in Devices : TurnOk(e)'
<1>1. Idle.n = 0 /\ Idle.id = 0 /\ Idle.at = "idle" /\ Len(made) \in Nat
  BY DEF Idle, Turn, TypeInv
<1>2. TurnOk(d)'
  <2>1. turn'[d] = Idle
    OBVIOUS
  <2> QED  BY <1>1, <2>1 DEF TurnOk, At
<1>3. ASSUME NEW e \in Devices, e # d PROVE TurnOk(e)'
  BY <1>1, <1>3 DEF TypeInv, TurnOk, At
<1> QED  BY <1>2, <1>3

LEMMA ConcludesType ==
  ASSUME TypeInv, NEW d \in Devices, Concludes(d)
  PROVE  TypeInv'
<1>1. PICK kind \in {"draft", "other"}, id \in {0, turn[d].id} \cup open,
           background \in SUBSET Jobs(Numbers) : Ended(d, kind, id, background)
  BY DEF Concludes
<1>2. Len(made) \in Nat /\ id \in Nat /\ id <= Len(made)
  BY DEF TypeInv
<1>3. /\ answer' \in Seq({"none", "draft", "other"}) /\ Len(answer') = Len(said')
      /\ session' \in Rows(Numbers') /\ jobs' \subseteq Jobs(Numbers')
      /\ turn' \in [Devices -> Turns(Numbers')] /\ log' \in [Devices -> Seq(Numbers')]
      /\ card' \in [Devices -> 0..Len(made)] /\ told' \in [Devices -> 0..Len(made)]
      /\ \A e \in Devices : turn'[e] = IF e = d THEN Idle ELSE turn[e]
  <2>1. ~At(d, "idle") /\ UNCHANGED <<session, said>> /\ Len(made) <= Len(made)
    BY <1>2 DEF Concludes
  <2> QED  BY <1>1, <1>2, <2>1, EndedTypes
<1>4. made' = made /\ open' \subseteq open /\ said' = said /\ Numbers' = Numbers
  BY DEF Concludes, Numbers
<1>5. \A e \in Devices : TurnOk(e)'
  <2>1. Len(made') \in Nat /\ Len(made) <= Len(made')
    BY <1>2, <1>4
  <2> QED  BY <1>3, <2>1, TurnsOk
<1> QED  BY <1>2, <1>3, <1>4, <1>5 DEF TypeInv, TurnOk

LEMMA ProposesType ==
  ASSUME TypeInv, NEW d \in Devices, Proposes(d)
  PROVE  TypeInv' /\ Len(made') = NewId /\ \A id \in 1..Len(made) : made'[id] = made[id]
<1>1. PICK kind \in {"draft", "other"}, type \in Types, who \in Who, term \in Terms \cup {None},
        background \in SUBSET Jobs(Numbers) :
       /\ createPendingAction(d, type, who, term)
       /\ Ended(d, kind, NewId, background)
  BY DEF Proposes
<1>2. /\ Len(made) \in Nat /\ NewId \in Nat /\ NewId <= NewId /\ Len(made) <= NewId
      /\ ~At(d, "idle") /\ UNCHANGED <<session, said>>
  BY DEF TypeInv, NewId, Proposes, At
<1>3. /\ answer' \in Seq({"none", "draft", "other"}) /\ Len(answer') = Len(said')
      /\ session' \in Rows(Numbers') /\ jobs' \subseteq Jobs(Numbers')
      /\ turn' \in [Devices -> Turns(Numbers')] /\ log' \in [Devices -> Seq(Numbers')]
      /\ card' \in [Devices -> 0..NewId] /\ told' \in [Devices -> 0..NewId]
      /\ \A e \in Devices : turn'[e] = IF e = d THEN Idle ELSE turn[e]
  BY <1>1, <1>2, EndedTypes
<1>4. said' = said /\ Numbers' = Numbers
  BY <1>2 DEF Numbers
<1>5. [type |-> type, who |-> who, term |-> term, n |-> turn[d].n] \in Offers(Numbers)
  BY <1>2, BackgroundType DEF Offers
<1>6. /\ made' \in Seq(Offers(Numbers)) /\ Len(made') = NewId
      /\ \A id \in 1..Len(made) : made'[id] = made[id]
      /\ open' = open \cup {NewId}
  BY <1>1, <1>5, AppendProperties DEF createPendingAction, TypeInv, NewId
<1>7. \A e \in Devices : TurnOk(e)'
  BY <1>2, <1>3, <1>6, TurnsOk
<1>8. open' \subseteq 1..NewId
  <2>1. open \subseteq 1..Len(made) /\ NewId = Len(made) + 1
    BY DEF TypeInv, NewId
  <2>2. open' = open \cup {NewId} /\ Len(made) \in Nat
    BY <1>2, <1>6
  <2>3. 1..Len(made) \subseteq 1..NewId /\ NewId \in 1..NewId
    BY <2>1, <2>2
  <2> QED  BY <2>1, <2>2, <2>3
<1>9. said' \in Seq(Says) /\ made' \in Seq(Offers(Numbers'))
  BY <1>4, <1>6 DEF TypeInv
<1> QED  BY <1>3, <1>6, <1>7, <1>8, <1>9 DEF TypeInv, TurnOk

LEMMA GoesOnType ==
  ASSUME TypeInv, NEW d \in Devices, GoesOn(d)
  PROVE  TypeInv'
<1>1. PICK place \in Places \ {"idle", "route"}, id \in 0..Len(made) :
        /\ Inside(d, place, id)
        /\ place = "run" => id # 0
  BY DEF GoesOn
<1>2. UNCHANGED <<session, made, jobs, log, card, told, said, answer>> /\ Numbers' = Numbers
  BY <1>1 DEF Inside, screen, Numbers
<1>3. turn[d].n \in Numbers /\ turn[d].n # 0
  BY BackgroundType DEF GoesOn, Numbers
<1>4. Turn(place, turn[d].n, id) \in Turns(Numbers)
  <2>1. Turn(place, turn[d].n, id)
          = [at |-> place, n |-> turn[d].n, id |-> id, ses |-> EmptySession, hist |-> <<>>,
             round |-> 0]
    BY DEF Idle, Turn
  <2>2. <<>> \in Lists(Numbers, HistoryLimit) /\ 0 \in 0..Rounds /\ id \in Nat
    BY AssistantAssumption DEF Lists, TypeInv
  <2> QED  BY <1>3, <2>2, EmptyRow DEF Turns, Turn
<1>5. /\ turn' \in [Devices -> Turns(Numbers)]
      /\ \A e \in Devices : turn'[e] = IF e = d
            THEN Turn(place, turn[d].n, id) ELSE turn[e]
  BY <1>1, <1>4 DEF Inside, Go, TypeInv
<1>6. open' \subseteq open
  BY <1>1 DEF GoesOn, TypeInv
<1>7. ASSUME NEW e \in Devices
      PROVE  /\ turn'[e].n = 0 => turn'[e] = Idle
             /\ At(e, "idle")' => turn'[e].n = 0
             /\ turn'[e].id \in 0..Len(made)
             /\ At(e, "route")' => turn'[e].id = 0
             /\ At(e, "run")' => turn'[e].id # 0
  BY <1>1, <1>3, <1>5 DEF TypeInv, At, Idle, Turn
<1> QED  BY <1>2, <1>5, <1>6, <1>7 DEF TypeInv

LEMMA CallsType ==
  ASSUME TypeInv, NEW d \in Devices, Calls(d)
  PROVE  /\ TypeInv'
         /\ \A id \in 1..Len(made) : made'[id] = made[id]
         /\ UNCHANGED <<session, log, card, told, said, answer>>
         /\ \A e \in Devices : e # d => turn'[e] = turn[e]
         /\ \/ made' = made /\ open' = open
            \/ /\ made' = Append(made, [type |-> "lease", who |-> None, term |-> None,
                                       n |-> turn[d].n])
               /\ open' = open \cup {NewId} /\ turn'[d].id = NewId
         /\ turn[d].at = "think" /\ turn'[d].at = "think" /\ turn'[d].n = turn[d].n
<1> DEFINE offer == [type |-> "lease", who |-> None, term |-> None, n |-> turn[d].n]
<1>1. /\ UNCHANGED <<session, log, card, told, said, answer>> /\ Numbers' = Numbers
      /\ At(d, "think") /\ turn[d].round < Rounds
  BY DEF Calls, ToolRead, ToolPropose, ToolProposeNothing, Thinking, screen, Numbers
<1>2. turn[d].n \in Numbers /\ turn[d].n # 0 /\ turn[d] \in Turns(Numbers)
      /\ turn[d].id \in 0..Len(made) /\ Len(made) \in Nat
  BY <1>1, BackgroundType DEF At, Numbers, TypeInv
<1>3. PICK id \in {turn[d].id, NewId, 0} :
        /\ NextRound(d, id)
        /\ \/ id = turn[d].id /\ made' = made /\ open' = open
              /\ jobs' = jobs \cup (IF Msg(d).who = None THEN {} ELSE Keep(d, Found(d)))
           \/ /\ id = NewId /\ made' = Append(made, offer) /\ open' = open \cup {NewId}
              /\ jobs' = jobs
           \/ /\ id = 0 /\ made' = made /\ open' = open /\ jobs' = jobs
  BY DEF Calls, ToolRead, ToolPropose, ToolProposeNothing, createPendingAction
<1>4. offer \in Offers(Numbers)
  BY <1>2 DEF Offers, Types, Who
<1>5. /\ made' \in Seq(Offers(Numbers)) /\ Len(made') \in Nat /\ Len(made) <= Len(made')
      /\ id \in 0..Len(made')
      /\ \A i \in 1..Len(made) : made'[i] = made[i]
      /\ open' \subseteq 1..Len(made')
  <2>0. made \in Seq(Offers(Numbers)) /\ open \subseteq 1..Len(made)
    BY DEF TypeInv
  <2>1. CASE made' = made
    <3>1. id \in 0..Len(made) /\ open' = open
      BY <1>2, <1>3, <2>1, <1>4, AppendProperties, <2>0
    <3> QED  BY <1>2, <2>0, <2>1, <3>1
  <2>2. CASE made' = Append(made, offer) /\ id = NewId /\ open' = open \cup {NewId}
    <3>1. /\ made' \in Seq(Offers(Numbers)) /\ Len(made') = Len(made) + 1
          /\ \A i \in 1..Len(made) : made'[i] = made[i]
      BY <1>4, <2>0, <2>2, AppendProperties
    <3>2. NewId = Len(made) + 1
      BY DEF NewId
    <3>3. /\ 1..Len(made) \subseteq 1..Len(made') /\ Len(made') \in Nat
          /\ id \in 0..Len(made') /\ id \in 1..Len(made') /\ Len(made) <= Len(made')
      BY <1>2, <2>2, <3>1, <3>2
    <3>4. open' \subseteq 1..Len(made')
      BY <2>0, <2>2, <3>3
    <3> QED  BY <3>1, <3>3, <3>4
  <2> QED  BY <1>3, <2>1, <2>2
<1>6. jobs' \subseteq Jobs(Numbers)
  <2>1. Found(d) \in Ents
    <3>1. Msg(d) \in Says
      BY <1>2, ElementOfSeq DEF TypeInv, Msg, Numbers
    <3> QED  BY <3>1 DEF Found, Ents, Says
  <2>2. Keep(d, Found(d)) \subseteq Jobs(Numbers) /\ jobs \subseteq Jobs(Numbers)
    BY <1>1, <2>1, BackgroundType DEF TypeInv, At
  <2> QED  BY <1>3, <2>2
<1>7. [Turn("think", turn[d].n, id) EXCEPT !.round = turn[d].round + 1]
        = [at |-> "think", n |-> turn[d].n, id |-> id, ses |-> EmptySession, hist |-> <<>>,
           round |-> turn[d].round + 1]
  BY DEF Turn
<1>8. [at |-> "think", n |-> turn[d].n, id |-> id, ses |-> EmptySession, hist |-> <<>>,
       round |-> turn[d].round + 1] \in Turns(Numbers)
  <2>1. turn[d].round + 1 \in 0..Rounds
    BY <1>1, <1>2, AssistantAssumption DEF Turns
  <2>2. <<>> \in Lists(Numbers, HistoryLimit) /\ id \in Nat /\ "think" \in Places
    BY <1>5, AssistantAssumption DEF Lists, Places
  <2> QED  BY <1>2, <2>1, <2>2, EmptyRow DEF Turns
<1>9. /\ turn' \in [Devices -> Turns(Numbers)]
      /\ \A e \in Devices : turn'[e] = IF e = d
            THEN [at |-> "think", n |-> turn[d].n, id |-> id, ses |-> EmptySession, hist |-> <<>>,
                  round |-> turn[d].round + 1] ELSE turn[e]
  BY <1>3, <1>7, <1>8 DEF NextRound, Go, TypeInv
<1>10. \A e \in Devices : TurnOk(e)'
  BY <1>2, <1>5, <1>9 DEF TypeInv, TurnOk, At
<1>11. card' \in [Devices -> 0..Len(made')] /\ told' \in [Devices -> 0..Len(made')]
  <2>1. 0..Len(made) \subseteq 0..Len(made')
    BY <1>2, <1>5
  <2> QED  BY <1>1, <2>1 DEF TypeInv
<1>12. TypeInv'
  BY <1>1, <1>5, <1>6, <1>9, <1>10, <1>11 DEF TypeInv, TurnOk
<1> QED  BY <1>1, <1>3, <1>5, <1>9, <1>12 DEF At

\* A message arrives.
Sent(d) ==
  /\ At(d, "idle")
  /\ UNCHANGED <<session, made, open, jobs, log, card, told>>
  /\ Len(said') = Len(said) + 1 /\ Len(answer') = Len(said')
  /\ said'[Len(said) + 1].dev = d /\ answer'[Len(said) + 1] = "none"
  /\ \A k \in Numbers : said'[k] = said[k] /\ answer'[k] = answer[k]
  /\ \A e \in Devices : e # d => turn'[e] = turn[e]
  /\ turn'[d].n = Len(said) + 1
  /\ \/ turn'[d].at = "confirm" /\ turn'[d].id = card[d] /\ card[d] # 0
     \/ turn'[d].at = "route" /\ turn'[d].id = 0 /\ turn'[d].hist = mergeChatHistory(d, session)

LEMMA SendType ==
  ASSUME TypeInv, NEW d \in Devices, NEW m \in Sayable(d), Send(d, m)
  PROVE  TypeInv' /\ Sent(d)
<1>1. m \in Message
  <2>1. Messages \in Seq([Devices -> SUBSET Message]) /\ Len(said) \in Nat
    BY AssistantAssumption DEF TypeInv
  <2>2. Len(said) < Len(Messages) /\ m \in Messages[Len(said) + 1][d]
    BY DEF Sayable
  <2>3. Len(said) + 1 \in 1..Len(Messages)
    BY <2>1, <2>2
  <2>4. Messages[Len(said) + 1] \in [Devices -> SUBSET Message]
    BY <2>1, <2>3, ElementOfSeq
  <2> QED  BY <2>2, <2>4
<1> DEFINE x == [kind |-> m.kind, who |-> m.who, term |-> m.term, dev |-> d]
<1>2. x \in Says /\ x.dev = d
  BY <1>1 DEF Message, Says, Who
<1>3. /\ said' = Append(said, x) /\ answer' = Append(answer, "none")
      /\ UNCHANGED <<session, made, open, jobs, log, card, told>> /\ At(d, "idle")
  BY DEF Send, screen
<1> HIDE DEF x
<1>4. /\ said' \in Seq(Says) /\ Len(said') = Len(said) + 1 /\ said'[Len(said) + 1] = x
      /\ \A k \in 1..Len(said) : said'[k] = said[k]
  BY <1>2, <1>3, AppendProperties DEF TypeInv
<1>5. /\ answer' \in Seq({"none", "draft", "other"}) /\ Len(answer') = Len(answer) + 1
      /\ answer'[Len(answer) + 1] = "none" /\ \A k \in 1..Len(answer) : answer'[k] = answer[k]
  BY <1>3, AppendProperties DEF TypeInv
<1>6. Len(answer) = Len(said) /\ Len(said) \in Nat
  BY DEF TypeInv
<1>7. Numbers \subseteq Numbers' /\ Len(said) + 1 \in Numbers' /\ 0 \notin Numbers'
  BY <1>4, <1>6 DEF Numbers
<1>8. /\ Seq(Numbers) \subseteq Seq(Numbers') /\ Rows(Numbers) \subseteq Rows(Numbers')
      /\ Turns(Numbers) \subseteq Turns(Numbers') /\ Jobs(Numbers) \subseteq Jobs(Numbers')
      /\ Seq(Offers(Numbers)) \subseteq Seq(Offers(Numbers'))
  BY <1>7, MoreMessages
<1>9. mergeChatHistory(d, session) \in Lists(Numbers', HistoryLimit)
  <2>1. log[d] \in Seq(Numbers) /\ session.turns \in Seq(Numbers)
    BY DEF TypeInv, Rows, Lists
  <2>2. \A h \in Seq(Numbers) : Newest(h, HistoryLimit) \in Lists(Numbers', HistoryLimit)
    BY <1>8, NewestType, AssistantAssumption DEF Lists
  <2> QED  BY <2>1, <2>2 DEF mergeChatHistory
<1> DEFINE confirm == Turn("confirm", Len(said) + 1, card[d])
           route   == [at |-> "route", n |-> Len(said) + 1, id |-> 0, ses |-> session,
                       hist |-> mergeChatHistory(d, session), round |-> 0]
           new     == IF m.kind = "button" THEN confirm ELSE route
<1>10. turn' = [turn EXCEPT ![d] = new] /\ (m.kind = "button" => card[d] # 0)
  BY DEF Send, Go
<1>11. card[d] \in 0..Len(made) /\ card[d] \in Nat
  BY DEF TypeInv
<1>12. confirm \in Turns(Numbers')
  <2>1. <<>> \in Lists(Numbers', HistoryLimit) /\ 0 \in 0..Rounds
    BY AssistantAssumption DEF Lists
  <2> QED  BY <1>7, <1>11, <2>1, EmptyRow DEF Turns, Turn, Places
<1>13. route \in Turns(Numbers')
  <2>1. session \in Rows(Numbers') /\ 0 \in 0..Rounds /\ "route" \in Places /\ 0 \in Nat
    BY <1>8, AssistantAssumption DEF TypeInv, Places
  <2> QED  BY <1>7, <1>9, <2>1 DEF Turns
<1>14. /\ new \in Turns(Numbers') /\ new.n = Len(said) + 1
       /\ \/ new.at = "confirm" /\ new.id = card[d] /\ card[d] # 0
          \/ new.at = "route" /\ new.id = 0 /\ new.hist = mergeChatHistory(d, session)
  BY <1>10, <1>12, <1>13 DEF Turn
<1> HIDE DEF new
<1>15. /\ turn' \in [Devices -> Turns(Numbers')]
       /\ \A e \in Devices : turn'[e] = IF e = d THEN new ELSE turn[e]
  BY <1>8, <1>10, <1>14 DEF TypeInv
<1>16. Sent(d)
  BY <1>2, <1>3, <1>4, <1>5, <1>6, <1>14, <1>15 DEF Sent, Numbers
<1>17. \A e \in Devices : TurnOk(e)'
  <2>1. TurnOk(d)'
    BY <1>3, <1>6, <1>11, <1>14, <1>15 DEF TurnOk, At, TypeInv
  <2>2. ASSUME NEW e \in Devices, e # d PROVE TurnOk(e)'
    <3>1. turn'[e] = turn[e] /\ made' = made
      BY <1>3, <1>15, <2>2
    <3> QED  BY <3>1 DEF TypeInv, TurnOk, At
  <2> QED  BY <2>1, <2>2
<1>18. /\ session' \in Rows(Numbers') /\ jobs' \subseteq Jobs(Numbers')
       /\ log' \in [Devices -> Seq(Numbers')] /\ made' \in Seq(Offers(Numbers'))
  BY <1>3, <1>8 DEF TypeInv
<1> QED  BY <1>3, <1>4, <1>5, <1>6, <1>15, <1>16, <1>17, <1>18 DEF TypeInv, TurnOk

\* A job changes the session and the jobs, nothing else.
LEMMA JobType ==
  ASSUME TypeInv, JobStep
  PROVE  TypeInv' /\ UNCHANGED <<made, open, turn, log, card, told, said, answer>>
<1>1. PICK j \in jobs : ReadTurns(j) \/ ReadBase(j) \/ WriteSession(j)
  BY DEF JobStep
<1>2. /\ UNCHANGED <<made, open, turn, log, card, told, said, answer>>
      /\ Numbers' = Numbers
  BY <1>1 DEF ReadTurns, ReadBase, WriteSession, screen, Numbers
<1>3. j \in Jobs(Numbers) /\ session \in Rows(Numbers)
  BY DEF TypeInv
<1>4. /\ j.n \in Numbers /\ j.turns \in Lists(Numbers, ServerTurns) /\ j.base \in Rows(Numbers)
      /\ j.ents \in Ents /\ j.kind \in {"persist", "keep"} /\ j.round \in 0..Rounds
  BY <1>3 DEF Jobs
<1>5. ASSUME NEW at \in {"read", "merge", "write"}, NEW turns \in Lists(Numbers, ServerTurns),
             NEW base \in Rows(Numbers), Replace(j, at, turns, base)
      PROVE  jobs' \subseteq Jobs(Numbers)
  BY <1>4, <1>5 DEF Replace, TypeInv, Jobs
<1>6. session' \in Rows(Numbers) /\ jobs' \subseteq Jobs(Numbers)
  <2>1. CASE ReadTurns(j)
    <3>1. session.turns \in Seq(Numbers)
      BY <1>3 DEF Rows, Lists
    <3>2. Append(session.turns, j.n) \in Seq(Numbers)
      BY <1>4, <3>1, AppendProperties
    <3>3. Newest(Append(session.turns, j.n), ServerTurns) \in Lists(Numbers, ServerTurns)
      BY <3>2, NewestType, AssistantAssumption
    <3> QED  BY <1>3, <1>4, <1>5, <2>1, <3>3 DEF ReadTurns
  <2>2. CASE ReadBase(j)
    BY <1>3, <1>4, <1>5, <2>2 DEF ReadBase
  <2>3. CASE WriteSession(j)
    BY <1>3, <1>4, <2>3 DEF WriteSession, Rows, Ents, TypeInv
  <2> QED  BY <1>1, <2>1, <2>2, <2>3
<1> QED  BY <1>2, <1>6 DEF TypeInv, At

\* The process stops, or something expires.
Disturbed ==
  /\ UNCHANGED <<made, log, card, told, said, answer>>
  /\ open' \subseteq open
  /\ \/ turn' = turn
     \/ /\ turn' = [d \in Devices |-> Idle] /\ open' = open

LEMMA DisturbedType ==
  ASSUME TypeInv, Crash \/ Expire \/ SessionExpires
  PROVE  TypeInv' /\ Disturbed
<1>1. CASE Crash
  <2>1. /\ UNCHANGED <<session, made, open, log, card, told, said, answer>>
        /\ turn' = [d \in Devices |-> Idle] /\ jobs' = {}
    BY <1>1 DEF Crash, screen
  <2>2. Numbers' = Numbers
    BY <2>1 DEF Numbers
  <2>4. turn' \in [Devices -> Turns(Numbers)] /\ \A d \in Devices : turn'[d] = Idle
    BY <2>1, IdleType
  <2>5. \A d \in Devices : TurnOk(d)'
    <3>1. Idle.n = 0 /\ Idle.id = 0 /\ Idle.at = "idle" /\ Len(made) \in Nat
      BY DEF Idle, Turn, TypeInv
    <3> QED  BY <2>1, <2>4, <3>1 DEF TurnOk, At
  <2>6. TypeInv'
    BY <2>1, <2>2, <2>4, <2>5 DEF TypeInv, TurnOk
  <2> QED  BY <2>1, <2>6 DEF Disturbed
<1>2. CASE Expire \/ SessionExpires
  <2>1. /\ UNCHANGED <<made, log, card, told, said, answer, turn, jobs>>
        /\ open' \subseteq open /\ session' \in {session, EmptySession}
    BY <1>2 DEF Expire, SessionExpires, screen
  <2>2. Numbers' = Numbers
    BY <2>1 DEF Numbers
  <2>3. session' \in Rows(Numbers)
    BY <2>1, EmptyRow DEF TypeInv
  <2> QED  BY <2>1, <2>2, <2>3 DEF TypeInv, At, Disturbed
<1> QED  BY <1>1, <1>2

LEMMA TypeInit == Init => TypeInv
<1> SUFFICES ASSUME Init PROVE TypeInv
  OBVIOUS
<1>1. turn \in [Devices -> Turns(Numbers)] /\ \A d \in Devices : turn[d] = Idle
  BY IdleType DEF Init
<1>2. Idle.n = 0 /\ Idle.id = 0 /\ Idle.at = "idle"
  BY DEF Idle, Turn
<1>3. session \in Rows(Numbers)
  BY EmptyRow DEF Init
<1>4. /\ made = <<>> /\ said = <<>> /\ answer = <<>> /\ open = {} /\ jobs = {}
      /\ log \in [Devices -> Seq(Numbers)]
  BY DEF Init
<1>5. card \in [Devices -> 0..Len(made)] /\ told \in [Devices -> 0..Len(made)]
  BY DEF Init
<1> QED  BY <1>1, <1>2, <1>3, <1>4, <1>5 DEF TypeInv, At

\* Whatever happens is one of these.
LEMMA NextCases ==
  ASSUME TypeInv, Next
  PROVE  \/ \E d \in Devices : \E m \in Sayable(d) : Send(d, m)
         \/ \E d \in Devices : Concludes(d) \/ Proposes(d) \/ GoesOn(d) \/ Calls(d)
         \/ JobStep
         \/ Crash \/ Expire \/ SessionExpires
BY LocalShape, OpenAiShape DEF Next, Work, Serve

LEMMA TypeStep ==
  ASSUME TypeInv, [Next]_vars
  PROVE  TypeInv'
<1>1. CASE UNCHANGED vars
  BY <1>1 DEF vars, TypeInv, Numbers, At
<1>2. CASE Next
  BY <1>2, NextCases, SendType, ConcludesType, ProposesType, GoesOnType, CallsType, JobType,
     DisturbedType
<1> QED  BY <1>1, <1>2

\* The variables keep their types.
THEOREM TypeCorrect == Spec => []TypeOK
<1>1. TypeInv => TypeOK
  <2> SUFFICES ASSUME TypeInv PROVE TypeOK
    OBVIOUS
  <2>1. session.lease \in Tenants \cup {None} /\ session.flat \in Tenants \cup {None}
        /\ Len(session.turns) <= ServerTurns
    BY DEF TypeInv, Rows, Who, Lists
  <2>2. open \subseteq DOMAIN made
    BY DEF TypeInv
  <2>3. Len(answer) = Len(said)
        /\ \A n \in DOMAIN said : said[n].kind \in Kinds /\ said[n].dev \in Devices
    <3>1. \A n \in DOMAIN said : said[n] \in Says
      BY DEF TypeInv
    <3> QED  BY <3>1 DEF TypeInv, Says
  <2>4. ASSUME NEW d \in Devices
        PROVE  /\ turn[d].at \in Places
               /\ turn[d].n \in 0..Len(said) /\ turn[d].id \in 0..Len(made)
               /\ turn[d].round \in 0..Rounds /\ Len(turn[d].hist) <= HistoryLimit
               /\ card[d] \in 0..Len(made)
    BY DEF TypeInv, Turns, Numbers, Lists
  <2> QED  BY <2>1, <2>2, <2>3, <2>4 DEF TypeOK
<1> QED  BY <1>1, TypeInit, TypeStep, PTL DEF Spec

---------------------------------------------------------------------------
(* Proposals. *)

\* A card shows what the last answer spoke of, and a "oui" that is about to be obeyed
\* is about nothing older.
ToldOrNewer ==
  \A d \in Devices :
    /\ card[d] \in {0, told[d]}
    /\ At(d, "confirm") /\ told[d] \in open => turn[d].id >= told[d]

\* Proposals that disappear, or new ones, change nothing for a turn in progress.
LEMMA ToldKept ==
  ASSUME TypeInv, ToldOrNewer, NEW e \in Devices, card'[e] = card[e], told'[e] = told[e],
         turn'[e] = turn[e], open' \subseteq open \cup {NewId}
  PROVE  /\ card'[e] \in {0, told'[e]}
         /\ turn'[e].at = "confirm" /\ told'[e] \in open' => turn'[e].id >= told'[e]
<1>1. told[e] \in 0..Len(made) /\ Len(made) \in Nat
  BY DEF TypeInv
<1>2. told[e] # NewId
  BY <1>1 DEF NewId
<1> QED  BY <1>2 DEF ToldOrNewer, At

LEMMA ToldEnded ==
  ASSUME TypeInv, ToldOrNewer, NEW d \in Devices,
         NEW kind, NEW id, NEW background, Ended(d, kind, id, background),
         open' \subseteq open \cup {NewId}
  PROVE  ToldOrNewer'
<1>1. SUFFICES ASSUME NEW e \in Devices
               PROVE  /\ card'[e] \in {0, told'[e]}
                      /\ turn'[e].at = "confirm" /\ told'[e] \in open' => turn'[e].id >= told'[e]
  BY DEF ToldOrNewer, At
<1>2. CASE e = d
  BY <1>2 DEF Ended, TypeInv, Idle, Turn, screen, ToldOrNewer
<1>3. CASE e # d
  <2>1. card'[e] = card[e] /\ told'[e] = told[e] /\ turn'[e] = turn[e]
    BY <1>3 DEF Ended, TypeInv, screen
  <2> QED  BY <2>1, ToldKept
<1> QED  BY <1>2, <1>3

\* "oui" never runs an older proposal than the one the user was told of last.
THEOREM YesIsNeverOlder == Spec => []YesRunsToldOrNewer
<1>1. Init => ToldOrNewer
  BY DEF Init, ToldOrNewer, At, Idle, Turn
<1>2. TypeInv /\ ToldOrNewer /\ [Next]_vars => ToldOrNewer'
  <2> SUFFICES ASSUME TypeInv, ToldOrNewer, [Next]_vars PROVE ToldOrNewer'
    OBVIOUS
  <2>0. ASSUME UNCHANGED <<card, told>>, open' \subseteq open \cup {NewId},
               NEW d \in Devices, \A e \in Devices : e # d => turn'[e] = turn[e],
               turn'[d].at = "confirm" /\ told[d] \in open' => turn'[d].id >= told[d]
        PROVE  ToldOrNewer'
    <3>1. SUFFICES ASSUME NEW e \in Devices
                   PROVE  /\ card'[e] \in {0, told'[e]}
                          /\ turn'[e].at = "confirm" /\ told'[e] \in open'
                               => turn'[e].id >= told'[e]
      BY DEF ToldOrNewer, At
    <3>2. CASE e = d
      BY <2>0, <3>2 DEF ToldOrNewer
    <3>3. CASE e # d
      BY <2>0, <3>3, ToldKept
    <3> QED  BY <3>2, <3>3
  <2>1. CASE UNCHANGED vars
    BY <2>1 DEF vars, ToldOrNewer, At
  <2>2. ASSUME NEW d \in Devices, NEW m \in Sayable(d), Send(d, m) PROVE ToldOrNewer'
    <3>1. Sent(d)
      BY <2>2, SendType
    <3>2. turn'[d].at = "confirm" => turn'[d].id = told[d] /\ told[d] \in Nat
      BY <3>1 DEF Sent, ToldOrNewer, TypeInv
    <3> QED  BY <2>0, <3>1, <3>2 DEF Sent
  <2>3. ASSUME NEW d \in Devices, Concludes(d) PROVE ToldOrNewer'
    BY <2>3, ToldEnded DEF Concludes
  <2>4. ASSUME NEW d \in Devices, Proposes(d) PROVE ToldOrNewer'
    BY <2>4, ToldEnded DEF Proposes, createPendingAction
  <2>5. ASSUME NEW d \in Devices, GoesOn(d) PROVE ToldOrNewer'
    <3>1. PICK place \in Places \ {"idle", "route"}, id \in 0..Len(made) :
            /\ Inside(d, place, id)
            /\ place = "confirm" => open # {} /\ id = getLatestPendingForUser
      BY <2>5 DEF GoesOn
    <3>2. /\ UNCHANGED <<card, told>> /\ open' \subseteq open
          /\ \A e \in Devices : e # d => turn'[e] = turn[e]
          /\ turn'[d].at = place /\ turn'[d].id = id
      BY <2>5, <3>1 DEF GoesOn, Inside, Go, Turn, screen, TypeInv
    <3> QED  BY <2>0, <3>1, <3>2, LatestIs
  <2>6. ASSUME NEW d \in Devices, Calls(d) PROVE ToldOrNewer'
    <3>1. /\ UNCHANGED <<card, told>> /\ turn'[d].at = "think"
          /\ \A e \in Devices : e # d => turn'[e] = turn[e]
          /\ open' = open \/ open' = open \cup {NewId}
      BY <2>6, CallsType
    <3> QED  BY <2>0, <3>1
  <2>7. CASE JobStep
    BY <2>7, JobType DEF ToldOrNewer, At
  <2>8. CASE Crash \/ Expire \/ SessionExpires
    <3>1. Disturbed
      BY <2>8, DisturbedType
    <3> QED  BY <3>1 DEF Disturbed, ToldOrNewer, At, Idle, Turn
  <2> QED  BY <2>1, <2>2, <2>3, <2>4, <2>5, <2>6, <2>7, <2>8, NextCases
<1>3. ToldOrNewer => YesRunsToldOrNewer
  BY DEF ToldOrNewer, YesRunsToldOrNewer
<1> QED  BY <1>1, <1>2, <1>3, TypeInit, TypeStep, PTL DEF Spec

---------------------------------------------------------------------------
(* Drafts. *)

Ordered(s) == \A i, j \in 1..Len(s) : i < j => s[i] < s[j]

\* What a client shows is in order and older than the message in progress, of which the
\* history is the end of what the client shows; no proposal is newer than that message.
Conversation(d) ==
  /\ Ordered(log[d])
  /\ \A i \in 1..Len(log[d]) : said[log[d][i]].dev = d
  /\ turn[d].n # 0 =>
       /\ said[turn[d].n].dev = d /\ answer[turn[d].n] = "none"
       /\ \A i \in 1..Len(log[d]) : log[d][i] < turn[d].n
       /\ \A id \in 1..Len(made) : said[made[id].n].dev = d =>
            made[id].n <= turn[d].n /\ (At(d, "route") => made[id].n < turn[d].n)
  /\ At(d, "route") /\ d \in SendsHistory /\ log[d] # <<>> =>
       turn[d].hist = Newest(log[d], HistoryLimit)

Conversations == \A d \in Devices : Conversation(d)

\* The messages that make the draft of message n, as its client shows them: those
\* from the last one that asks for a contract on, when all the answers continue it.
Scanned(n) ==
  LET shown == {log[said[n].dev][i] : i \in DOMAIN log[said[n].dev]} \cap 1..(n - 1)
      before == {m \in shown : \A k \in shown : k >= m =>
                   /\ answer[k] = "draft"
                   /\ k > m => said[k].kind # "contract"}
  IN {n} \cup (IF said[n].kind \in {"contract", "pdf"} THEN {} ELSE before)

\* The value v of a field is the last one they name, or none of them does.
LastScanned(n, field, v) ==
  LET naming == {m \in Scanned(n) : said[m][field] # None}
  IN IF naming = {} THEN v = None ELSE v = said[Max(naming)][field]

\* For the message in progress: the exchanges shown that continue one draft.
LEMMA ScannedIs ==
  ASSUME TypeInv, NEW d \in Devices, Conversation(d), At(d, "route"),
         Msg(d).kind \notin {"contract", "pdf"}
  PROVE  \A m : m \in Scanned(turn[d].n) <=>
           \/ m = turn[d].n
           \/ \E x \in 1..Len(log[d]) : m = log[d][x] /\ Continues(log[d], x)
<1> DEFINE L == log[d]
           n == turn[d].n
           shown == {L[i] : i \in DOMAIN L} \cap 1..(n - 1)
           before == {m \in shown : \A k \in shown : k >= m =>
                       /\ answer[k] = "draft"
                       /\ k > m => said[k].kind # "contract"}
<1>1. /\ L \in Seq(Numbers) /\ n \in Numbers /\ DOMAIN L = 1..Len(L) /\ Len(L) \in Nat
      /\ \A i \in 1..Len(L) : L[i] \in Nat /\ L[i] >= 1
  <2>1. L \in Seq(Numbers) /\ n \in Numbers
    BY BackgroundType DEF TypeInv, At
  <2> QED  BY <2>1 DEF Numbers
<1>2. said[n].dev = d /\ said[n].kind \notin {"contract", "pdf"}
      /\ \A i \in 1..Len(L) : L[i] < n
  BY <1>1 DEF Conversation, Msg, Numbers
<1>3. \A i, j \in 1..Len(L) : i < j => L[i] < L[j]
  BY DEF Conversation, Ordered
<1>4. Scanned(n) = {n} \cup before
  BY <1>2 DEF Scanned
<1>5. \A k : k \in shown <=> \E i \in 1..Len(L) : k = L[i]
  <2>1. n \in Nat
    BY <1>1 DEF Numbers
  <2>2. ASSUME NEW i \in 1..Len(L) PROVE L[i] \in shown
    <3>1. L[i] \in Nat /\ L[i] >= 1 /\ L[i] < n
      BY <1>1, <1>2
    <3>2. L[i] \in 1..(n - 1)
      BY <2>1, <3>1
    <3>3. i \in DOMAIN L
      BY <1>1
    <3> QED  BY <3>2, <3>3
  <2>3. ASSUME NEW k \in shown PROVE \E i \in 1..Len(L) : k = L[i]
    BY <1>1
  <2> QED  BY <2>2, <2>3
<1> HIDE DEF shown
<1>6. ASSUME NEW x \in 1..Len(L) PROVE L[x] \in before <=> Continues(L, x)
  <2>1. ASSUME L[x] \in before PROVE Continues(L, x)
    <3>1. \A j \in x..Len(L) : L[j] \in shown /\ L[j] >= L[x] /\ (j > x => L[j] > L[x])
      BY <1>1, <1>3, <1>5
    <3>2. \A j \in (x + 1)..Len(L) : j \in x..Len(L) /\ j > x
      BY <1>1
    <3> QED  BY <2>1, <3>1, <3>2 DEF Continues
  <2>2. ASSUME Continues(L, x) PROVE L[x] \in before
    <3>1. ASSUME NEW k \in shown, k >= L[x]
          PROVE  answer[k] = "draft" /\ (k > L[x] => said[k].kind # "contract")
      <4>1. PICK i \in 1..Len(L) : k = L[i]
        BY <1>5
      <4>2. i >= x /\ (k > L[x] => i > x)
        BY <1>1, <1>3, <3>1, <4>1
      <4>3. i \in x..Len(L) /\ (i > x => i \in (x + 1)..Len(L))
        BY <1>1, <4>2
      <4> QED  BY <2>2, <4>1, <4>2, <4>3 DEF Continues
    <3>2. L[x] \in shown
      BY <1>5
    <3> QED  BY <3>1, <3>2
  <2> QED  BY <2>1, <2>2
<1>7. \A m \in before : \E x \in 1..Len(L) : m = L[x]
  BY <1>5
<1> HIDE DEF before
<1> QED  BY <1>4, <1>6, <1>7

\* The last of an ordered list of messages to name a field is the greatest one to do so.
LEMMA LastIsGreatest ==
  ASSUME NEW D \in Seq(Numbers), Ordered(D), NEW field, Len(said) \in Nat, NEW naming,
         \A m : m \in naming <=> (\E i \in 1..Len(D) : m = D[i]) /\ said[m][field] # None
  PROVE  LastNamed(D, field) = IF naming = {} THEN None ELSE said[Max(naming)][field]
<1> DEFINE places == {i \in DOMAIN D : said[D[i]][field] # None}
<1>1. DOMAIN D = 1..Len(D) /\ Len(D) \in Nat /\ \A i \in 1..Len(D) : D[i] \in 0..Len(said)
  BY DEF Numbers
<1>2. CASE places = {}
  <2>1. naming = {}
    BY <1>1, <1>2
  <2> QED  BY <1>2, <2>1 DEF LastNamed
<1>3. CASE places # {}
  <2>1. places \subseteq 0..Len(D)
    BY <1>1
  <2>2. Max(places) \in places /\ \A i \in places : Max(places) >= i
    BY <1>1, <1>3, <2>1, MaxOf
  <2>3. naming \subseteq 0..Len(said) /\ D[Max(places)] \in naming
    BY <1>1, <2>2
  <2>4. Max(naming) \in naming /\ \A m \in naming : Max(naming) >= m
    BY <2>3, MaxOf
  <2>5. PICK i \in places : Max(naming) = D[i]
    BY <1>1, <2>4
  <2>6. i <= Max(places) /\ D[i] >= D[Max(places)]
    BY <2>2, <2>3, <2>4, <2>5
  <2>7. i = Max(places)
    <3>1. i \in 1..Len(D) /\ Max(places) \in 1..Len(D)
      BY <1>1, <2>2
    <3>2. D[i] \in Nat /\ D[Max(places)] \in Nat /\ (i < Max(places) => D[i] < D[Max(places)])
      BY <1>1, <3>1 DEF Ordered
    <3> HIDE DEF places
    <3> QED  BY <2>6, <3>1, <3>2
  <2>8. naming # {}
    BY <2>3
  <2>9. LastNamed(D, field) = said[D[Max(places)]][field]
    BY <1>3 DEF LastNamed
  <2> QED  BY <2>5, <2>7, <2>8, <2>9
<1> QED  BY <1>2, <1>3

\* An ordered list has as many members as it is long.
LEMMA OrderedSize ==
  ASSUME NEW size \in Nat, NEW f \in [1..size -> Nat],
         \A i, j \in 1..size : i < j => f[i] < f[j],
         NEW T, IsFiniteSet(T), \A i \in 1..size : f[i] \in T
  PROVE  Cardinality(T) >= size
<1>1. IsFiniteSet(1..size) /\ Cardinality(1..size) = size
  BY FS_Interval
<1>2. Cardinality(T) \in Nat
  BY FS_CardinalityType
<1>3. f \in [1..size -> T]
  OBVIOUS
<1>4. SUFFICES ASSUME Cardinality(T) < size PROVE FALSE
  BY <1>2
<1>5. PICK i, j \in 1..size : i # j /\ f[i] = f[j]
  BY <1>1, <1>3, <1>4, FS_PigeonHole
<1> QED  BY <1>5

LEMMA ScannedFinite ==
  ASSUME NEW n \in Nat
  PROVE  Scanned(n) \subseteq {n} \cup 1..(n - 1) /\ IsFiniteSet(Scanned(n))
<1>1. Scanned(n) \subseteq {n} \cup 1..(n - 1) /\ Scanned(n) \subseteq 0..n
  BY DEF Scanned
<1>2. IsFiniteSet(0..n)
  BY FS_Interval
<1> QED  BY <1>1, <1>2, FS_Subset

\* The draft is the end of the client's list, as far as the server looks: from the
\* earliest exchange from which all continue one draft.
LEMMA CollectedIs ==
  ASSUME NEW S, NEW L \in Seq(S), NEW p \in 1..(Len(L) + 1), NEW n \in S
  PROVE  LET D == collectLeaseDraftMessages(SubSeq(L, p, Len(L)), n)
         IN  \E a \in p..(Len(L) + 1) :
               /\ D \in Seq(S) /\ Len(D) = Len(L) - a + 2
               /\ \A i \in 1..(Len(L) - a + 1) : D[i] = L[a + i - 1]
               /\ D[Len(L) - a + 2] = n
               /\ Continues(L, a)
               /\ \A x \in p..(Len(L) + 1) : Continues(L, x) => a <= x
<1> DEFINE h == SubSeq(L, p, Len(L))
           D == collectLeaseDraftMessages(h, n)
<1>0. Len(L) \in Nat /\ p \in Int /\ p >= 1 /\ p <= Len(L) + 1
  OBVIOUS
<1>1. /\ h \in Seq(S) /\ Len(h) = Len(L) - p + 1 /\ Len(h) \in Nat
      /\ \A j \in 1..Len(h) : h[j] = L[p + j - 1]
  <2>1. \A i \in p..Len(L) : L[i] \in S
    BY <1>0
  <2>2. /\ h \in Seq(S) /\ Len(h) = IF p <= Len(L) THEN Len(L) - p + 1 ELSE 0
        /\ \A j \in 1..(Len(L) - p + 1) : h[j] = L[p + j - 1]
    BY <1>0, <2>1, SubSeqProperties
  <2> QED  BY <1>0, <2>2
<1> HIDE DEF h
<1>2. PICK q \in 1..(Len(h) + 1) :
        /\ D = SubSeq(h, q, Len(h)) \o <<n>>
        /\ Continues(h, q)
        /\ \A i \in 1..(Len(h) + 1) : Continues(h, i) => q <= i
  BY <1>1, CollectIs
<1> DEFINE part == SubSeq(h, q, Len(h))
           one == <<n>>
<1>3. /\ part \in Seq(S) /\ Len(part) = Len(h) - q + 1 /\ Len(part) \in Nat
      /\ \A i \in 1..Len(part) : part[i] = h[q + i - 1]
  <2>1. \A i \in q..Len(h) : h[i] \in S
    BY <1>1
  <2>2. q \in Int /\ Len(h) \in Int /\ q <= Len(h) + 1
    BY <1>1
  <2>3. /\ part \in Seq(S) /\ Len(part) = IF q <= Len(h) THEN Len(h) - q + 1 ELSE 0
        /\ \A i \in 1..(Len(h) - q + 1) : part[i] = h[q + i - 1]
    BY <2>1, <2>2, SubSeqProperties
  <2> QED  BY <2>2, <2>3
<1>4. one \in Seq(S) /\ Len(one) = 1 /\ one[1] = n
  OBVIOUS
<1>5. D = part \o one
  BY <1>2
<1> HIDE DEF part, one, D
<1>6. /\ D \in Seq(S) /\ Len(D) = Len(part) + 1
      /\ \A i \in 1..Len(part) : D[i] = part[i]
      /\ D[Len(part) + 1] = n
  <2>1. /\ D \in Seq(S) /\ Len(D) = Len(part) + Len(one)
        /\ \A i \in 1..(Len(part) + Len(one)) :
             D[i] = IF i <= Len(part) THEN part[i] ELSE one[i - Len(part)]
    BY <1>3, <1>4, <1>5, ConcatProperties
  <2>2. Len(D) = Len(part) + 1
    BY <1>4, <2>1
  <2>3. \A i \in 1..Len(part) : D[i] = part[i]
    <3>1. \A i \in 1..Len(part) : i \in 1..(Len(part) + Len(one)) /\ i <= Len(part)
      BY <1>3, <1>4
    <3> QED  BY <2>1, <3>1
  <2>4. D[Len(part) + 1] = one[1]
    <3>1. /\ Len(part) + 1 \in 1..(Len(part) + Len(one)) /\ ~ (Len(part) + 1 <= Len(part))
          /\ (Len(part) + 1) - Len(part) = 1
      BY <1>3, <1>4
    <3> QED  BY <2>1, <3>1
  <2> QED  BY <1>4, <2>1, <2>2, <2>3, <2>4
<1>7. \A x \in p..(Len(L) + 1) : Continues(L, x) <=> Continues(h, x - p + 1)
  <2> SUFFICES ASSUME NEW x \in p..(Len(L) + 1)
               PROVE  Continues(L, x) <=> Continues(h, x - p + 1)
    OBVIOUS
  <2>1. ASSUME Continues(L, x), NEW j \in (x - p + 1)..Len(h)
        PROVE  /\ answer[h[j]] = "draft"
               /\ j \in ((x - p + 1) + 1)..Len(h) => said[h[j]].kind # "contract"
    <3>0. j \in 1..Len(h) /\ p + j - 1 \in x..Len(L)
      BY <1>0, <1>1
    <3>1. p + j - 1 \in x..Len(L) /\ h[j] = L[p + j - 1]
      BY <1>1, <3>0
    <3>2. j \in ((x - p + 1) + 1)..Len(h) => p + j - 1 \in (x + 1)..Len(L)
      BY <1>0, <1>1
    <3> QED  BY <2>1, <3>1, <3>2 DEF Continues
  <2>2. ASSUME Continues(h, x - p + 1), NEW j \in x..Len(L)
        PROVE  /\ answer[L[j]] = "draft"
               /\ j \in (x + 1)..Len(L) => said[L[j]].kind # "contract"
    <3>0. /\ j - p + 1 \in (x - p + 1)..Len(h) /\ j - p + 1 \in 1..Len(h)
          /\ p + (j - p + 1) - 1 = j
      BY <1>0, <1>1
    <3>1. h[j - p + 1] = L[j]
      BY <1>1, <3>0
    <3>2. j \in (x + 1)..Len(L) => j - p + 1 \in ((x - p + 1) + 1)..Len(h)
      BY <1>0, <1>1
    <3> QED  BY <2>2, <3>0, <3>1, <3>2 DEF Continues
  <2>3. (x + 1)..Len(L) \subseteq x..Len(L)
        /\ ((x - p + 1) + 1)..Len(h) \subseteq (x - p + 1)..Len(h)
    BY <1>0, <1>1
  <2> QED  BY <2>1, <2>2, <2>3 DEF Continues
<1> DEFINE a == p + q - 1
<1>8. /\ a \in p..(Len(L) + 1) /\ Len(part) = Len(L) - a + 1 /\ a - p + 1 = q
      /\ \A i : a + i - 1 = p + (q + i - 1) - 1 \/ i \notin Int
  BY <1>0, <1>1, <1>3
<1>9. \A i \in 1..Len(part) : D[i] = L[a + i - 1]
  <2> SUFFICES ASSUME NEW i \in 1..Len(part) PROVE D[i] = L[a + i - 1]
    OBVIOUS
  <2>1. q + i - 1 \in 1..Len(h) /\ p + (q + i - 1) - 1 = a + i - 1
    BY <1>0, <1>1, <1>3
  <2> QED  BY <1>1, <1>3, <1>6, <2>1
<1>10. Continues(L, a)
  BY <1>2, <1>7, <1>8
<1>11. ASSUME NEW x \in p..(Len(L) + 1), Continues(L, x) PROVE a <= x
  <2>1. x - p + 1 \in 1..(Len(h) + 1) /\ Continues(h, x - p + 1)
    BY <1>0, <1>1, <1>7, <1>11
  <2> QED  BY <1>0, <1>2, <2>1
<1> HIDE DEF a
<1>12. Len(D) = Len(L) - a + 2 /\ D[Len(L) - a + 2] = n
  BY <1>0, <1>6, <1>8
<1> QED  BY <1>6, <1>8, <1>9, <1>10, <1>11, <1>12 DEF D, h

LEMMA ContinuesOn ==
  ASSUME NEW L, NEW x \in Nat, NEW y \in Nat, x <= y, Len(L) \in Nat, Continues(L, x)
  PROVE  Continues(L, y)
<1>1. y..Len(L) \subseteq x..Len(L) /\ (y + 1)..Len(L) \subseteq (x + 1)..Len(L)
  OBVIOUS
<1> QED  BY <1>1 DEF Continues

\* For a client that sends its history, the draft is made of these messages, when the
\* server looks that far back.
LEMMA DraftIsScanned ==
  ASSUME TypeInv, NEW d \in Devices, Conversation(d), At(d, "route"),
         d \in SendsHistory, log[d] # <<>>,
         Cardinality(Scanned(turn[d].n)) <= HistoryLimit + 1
  PROVE  /\ DraftOf(d) \in Seq(Numbers) /\ Ordered(DraftOf(d))
         /\ \A m : m \in Scanned(turn[d].n) <=> \E i \in 1..Len(DraftOf(d)) : m = DraftOf(d)[i]
<1> DEFINE L == log[d]
           n == turn[d].n
           D == DraftOf(d)
<1>1. /\ L \in Seq(Numbers) /\ n \in Numbers /\ Len(L) \in Nat /\ n \in Nat
      /\ \A i \in 1..Len(L) : L[i] \in Nat /\ L[i] < n /\ L[i] \in Numbers
      /\ \A i, j \in 1..Len(L) : i < j => L[i] < L[j]
  <2>1. L \in Seq(Numbers) /\ n \in Numbers
    BY BackgroundType DEF TypeInv, At
  <2>2. n # 0 /\ n \in Nat /\ \A i \in 1..Len(L) : L[i] \in Numbers /\ L[i] \in Nat
    BY <2>1 DEF Numbers
  <2>3. \A i \in 1..Len(L) : L[i] < n
    BY <2>2 DEF Conversation
  <2>4. \A i, j \in 1..Len(L) : i < j => L[i] < L[j]
    BY DEF Conversation, Ordered
  <2> QED  BY <2>1, <2>2, <2>3, <2>4
<1>2. CASE Msg(d).kind \in {"contract", "pdf"}
  <2>1. D = <<n>>
    BY <1>2 DEF DraftOf
  <2>2. Scanned(n) = {n}
    BY <1>2 DEF Scanned, Msg
  <2>3. <<n>> \in Seq(Numbers) /\ Len(<<n>>) = 1 /\ <<n>>[1] = n
    BY <1>1
  <2> QED  BY <2>1, <2>2, <2>3 DEF Ordered
<1>3. CASE Msg(d).kind \notin {"contract", "pdf"}
  <2>1. PICK p \in 1..(Len(L) + 1) :
          turn[d].hist = SubSeq(L, p, Len(L)) /\ (p = 1 \/ p = Len(L) - HistoryLimit + 1)
    <3>1. turn[d].hist = Newest(L, HistoryLimit)
      BY DEF Conversation
    <3> QED  BY <1>1, <3>1, NewestIs, AssistantAssumption
  <2>2. D = collectLeaseDraftMessages(SubSeq(L, p, Len(L)), n)
    BY <1>3, <2>1 DEF DraftOf
  <2>3. PICK a \in p..(Len(L) + 1) :
          /\ D \in Seq(Numbers) /\ Len(D) = Len(L) - a + 2
          /\ \A i \in 1..(Len(L) - a + 1) : D[i] = L[a + i - 1]
          /\ D[Len(L) - a + 2] = n
          /\ Continues(L, a)
          /\ \A x \in p..(Len(L) + 1) : Continues(L, x) => a <= x
    <3> HIDE DEF L, n, D
    <3> DEFINE C == collectLeaseDraftMessages(SubSeq(L, p, Len(L)), n)
    <3>1. \E a \in p..(Len(L) + 1) :
            /\ C \in Seq(Numbers) /\ Len(C) = Len(L) - a + 2
            /\ \A i \in 1..(Len(L) - a + 1) : C[i] = L[a + i - 1]
            /\ C[Len(L) - a + 2] = n
            /\ Continues(L, a)
            /\ \A x \in p..(Len(L) + 1) : Continues(L, x) => a <= x
      <4>1. L \in Seq(Numbers) /\ n \in Numbers /\ p \in 1..(Len(L) + 1)
        BY <1>1
      <4> HIDE DEF C
      <4> QED  BY ONLY <4>1, CollectedIs DEF C
    <3> HIDE DEF C
    <3>2. D = C
      BY <2>2 DEF C
    <3> QED  BY <3>1, <3>2
  <2> HIDE DEF L, n, D
  <2>4. \A m : m \in Scanned(n) <=> m = n \/ \E x \in 1..Len(L) : m = L[x] /\ Continues(L, x)
    BY <1>3, ScannedIs DEF L, n
  <2>5. ASSUME NEW x \in 1..Len(L), Continues(L, x), x < a PROVE FALSE
    <3>1. x < p /\ p = Len(L) - HistoryLimit + 1
      BY <1>1, <2>1, <2>3, <2>5
    <3>2. HistoryLimit \in Nat /\ x + HistoryLimit <= Len(L)
      BY <1>1, <3>1, AssistantAssumption
    <3> DEFINE f == [i \in 1..(HistoryLimit + 2) |->
                      IF i <= HistoryLimit + 1 THEN L[x + i - 1] ELSE n]
    <3>3. ASSUME NEW i \in 1..(HistoryLimit + 1)
          PROVE  x + i - 1 \in 1..Len(L) /\ Continues(L, x + i - 1)
      <4>1. x + i - 1 \in 1..Len(L) /\ x <= x + i - 1 /\ x \in Nat
        BY <1>1, <3>2
      <4>2. x + i - 1 \in Nat
        BY <4>1
      <4> QED  BY <1>1, <2>5, <4>1, <4>2, ContinuesOn
    <3>4. \A i \in 1..(HistoryLimit + 2) : f[i] \in Scanned(n)
      <4>1. ASSUME NEW i \in 1..(HistoryLimit + 2) PROVE f[i] \in Scanned(n)
        <5>1. CASE i <= HistoryLimit + 1
          <6>1. i \in 1..(HistoryLimit + 1)
            BY <3>2, <5>1
          <6>2. f[i] = L[x + i - 1]
            BY <5>1
          <6> QED  BY <2>4, <3>3, <6>1, <6>2
        <5>2. CASE ~ (i <= HistoryLimit + 1)
          BY <2>4, <5>2
        <5> QED  BY <5>1, <5>2
      <4> QED  BY <4>1
    <3>5. f \in [1..(HistoryLimit + 2) -> Nat]
      <4>1. \A i \in 1..(HistoryLimit + 2) :
              i <= HistoryLimit + 1 => i \in 1..(HistoryLimit + 1)
        BY <3>2
      <4> QED  BY <1>1, <3>3, <4>1
    <3>6. ASSUME NEW i \in 1..(HistoryLimit + 2), NEW j \in 1..(HistoryLimit + 2), i < j
          PROVE  f[i] < f[j]
      <4>1. i \in 1..(HistoryLimit + 1) /\ f[i] = L[x + i - 1]
        BY <3>2, <3>6
      <4>2. CASE j <= HistoryLimit + 1
        <5>1. j \in 1..(HistoryLimit + 1) /\ f[j] = L[x + j - 1] /\ x + i - 1 < x + j - 1
          BY <3>2, <3>6, <4>2
        <5> QED  BY <1>1, <3>3, <4>1, <5>1
      <4>3. CASE ~ (j <= HistoryLimit + 1)
        <5>1. f[j] = n
          BY <4>3
        <5> QED  BY <1>1, <3>3, <4>1, <5>1
      <4> QED  BY <4>2, <4>3
    <3>7. IsFiniteSet(Scanned(n)) /\ HistoryLimit + 2 \in Nat
      BY <1>1, <3>2, ScannedFinite
    <3> HIDE DEF f
    <3>8. Cardinality(Scanned(n)) >= HistoryLimit + 2
      BY <3>4, <3>5, <3>6, <3>7, OrderedSize
    <3>9. Cardinality(Scanned(n)) \in Nat /\ Cardinality(Scanned(n)) <= HistoryLimit + 1
      BY <3>7, FS_CardinalityType DEF n
    <3> QED  BY <3>2, <3>8, <3>9
  <2>6. \A x \in 1..Len(L) : Continues(L, x) <=> x \in a..Len(L)
    <3>1. ASSUME NEW x \in 1..Len(L), x >= a PROVE Continues(L, x)
      <4>1. x \in Nat /\ a \in Nat /\ a <= x
        BY <1>1, <3>1
      <4> QED  BY <1>1, <2>3, <4>1, ContinuesOn
    <3> QED  BY <1>1, <2>3, <2>5, <3>1
  <2> DEFINE size == Len(L) - a + 1
  <2>7. /\ size \in Nat /\ Len(D) = size + 1 /\ D[size + 1] = n
        /\ \A i \in 1..size : D[i] = L[a + i - 1] /\ a + i - 1 \in a..Len(L)
        /\ \A x \in a..Len(L) : x - a + 1 \in 1..size /\ a + (x - a + 1) - 1 = x
        /\ a..Len(L) \subseteq 1..Len(L)
    BY <1>1, <2>3
  <2> HIDE DEF size
  <2>8. \A m : m \in Scanned(n) <=> \E i \in 1..Len(D) : m = D[i]
    <3>1. ASSUME NEW m \in Scanned(n) PROVE \E i \in 1..Len(D) : m = D[i]
      <4>1. CASE m = n
        BY <2>7, <4>1
      <4>2. CASE m # n
        <5>1. PICK x \in a..Len(L) : m = L[x]
          BY <2>4, <2>6, <3>1, <4>2
        <5>2. x - a + 1 \in 1..size /\ D[x - a + 1] = L[x]
          BY <2>7
        <5>3. x - a + 1 \in 1..Len(D)
          BY <2>7, <5>2
        <5> QED  BY <5>1, <5>2, <5>3
      <4> QED  BY <4>1, <4>2
    <3>2. ASSUME NEW i \in 1..Len(D) PROVE D[i] \in Scanned(n)
      <4>1. CASE i = size + 1
        BY <2>4, <2>7, <4>1
      <4>2. CASE i # size + 1
        <5>1. i \in 1..size
          BY <2>7, <4>2
        <5> QED  BY <2>4, <2>6, <2>7, <5>1
      <4> QED  BY <4>1, <4>2
    <3> QED  BY <3>1, <3>2
  <2>9. Ordered(D)
    <3>1. ASSUME NEW i \in 1..Len(D), NEW j \in 1..Len(D), i < j PROVE D[i] < D[j]
      <4>0. i \in Int /\ j \in Int /\ 1 <= i /\ i < j /\ j <= size + 1 /\ size \in Nat
        BY <2>7, <3>1
      <4>1. i \in 1..size /\ D[i] = L[a + i - 1] /\ a + i - 1 \in 1..Len(L)
        <5>1. i \in 1..size
          BY ONLY <4>0
        <5> QED  BY <2>7, <5>1
      <4>2. CASE j = size + 1
        BY <1>1, <2>7, <4>1, <4>2
      <4>3. CASE j # size + 1
        <5>1. j \in 1..size
          BY <2>7, <4>3
        <5>2. D[j] = L[a + j - 1] /\ a + j - 1 \in 1..Len(L) /\ a + i - 1 < a + j - 1
          BY <2>3, <2>7, <3>1, <5>1
        <5> QED  BY <1>1, <4>1, <5>2
      <4> QED  BY <4>2, <4>3
    <3> QED  BY <3>1 DEF Ordered
  <2> QED  BY <2>3, <2>8, <2>9 DEF n, D
<1> QED  BY <1>2, <1>3

\* Such a draft says of a field what the user said of it last.
LEMMA DraftSays ==
  ASSUME TypeInv, NEW d \in Devices, Conversation(d), At(d, "route"),
         d \in SendsHistory, log[d] # <<>>,
         Cardinality(Scanned(turn[d].n)) <= HistoryLimit + 1, NEW field
  PROVE  LastScanned(turn[d].n, field, LastNamed(DraftOf(d), field))
<1> DEFINE D == DraftOf(d)
           S == Scanned(turn[d].n)
           naming == {m \in S : said[m][field] # None}
<1>1. /\ D \in Seq(Numbers) /\ Ordered(D)
      /\ \A m : m \in S <=> \E i \in 1..Len(D) : m = D[i]
  BY DraftIsScanned
<1>2. Len(said) \in Nat
  BY DEF TypeInv
<1>3. LastNamed(D, field) = IF naming = {} THEN None ELSE said[Max(naming)][field]
  <2>1. \A m : m \in naming <=> (\E i \in 1..Len(D) : m = D[i]) /\ said[m][field] # None
    BY <1>1
  <2> HIDE DEF D, S, naming
  <2> QED  BY <1>1, <1>2, <2>1, LastIsGreatest
<1> QED  BY <1>3 DEF LastScanned

\* What a message continues depends on older exchanges of its client alone.
LEMMA ScannedSame ==
  ASSUME TypeInv, NEW n \in Numbers, \A k \in Numbers : said'[k] = said[k],
         \A k \in 1..(n - 1) : /\ \E i \in DOMAIN log[said[n].dev] : k = log[said[n].dev][i]
                               <=> \E i \in DOMAIN log'[said[n].dev] : k = log'[said[n].dev][i],
         \A i \in DOMAIN log[said[n].dev] :
           log[said[n].dev][i] < n => answer'[log[said[n].dev][i]] = answer[log[said[n].dev][i]]
  PROVE  /\ Scanned(n)' = Scanned(n)
         /\ \A field, v : LastScanned(n, field, v) => LastScanned(n, field, v)'
<1> DEFINE L == log[said[n].dev]
           M == log'[said[n].dev]
           shown == {L[i] : i \in DOMAIN L} \cap 1..(n - 1)
           shownNow == {M[i] : i \in DOMAIN M} \cap 1..(n - 1)
           before == {m \in shown : \A k \in shown : k >= m =>
                       /\ answer[k] = "draft"
                       /\ k > m => said[k].kind # "contract"}
           beforeNow == {m \in shownNow : \A k \in shownNow : k >= m =>
                          /\ answer'[k] = "draft"
                          /\ k > m => said'[k].kind # "contract"}
<1>1. n \in Nat /\ 1..(n - 1) \subseteq Numbers /\ Len(said) \in Nat /\ said'[n] = said[n]
      /\ n <= Len(said)
  BY DEF TypeInv, Numbers
<1>2. shownNow = shown
  OBVIOUS
<1>3. \A k \in shown : answer'[k] = answer[k] /\ said'[k] = said[k]
  BY <1>1
<1> HIDE DEF shown, shownNow
<1>4. beforeNow = before
  BY <1>2, <1>3
<1> HIDE DEF before, beforeNow
<1>5. /\ Scanned(n) = {n} \cup (IF said[n].kind \in {"contract", "pdf"} THEN {} ELSE before)
      /\ Scanned(n)' = {n} \cup (IF said[n].kind \in {"contract", "pdf"} THEN {} ELSE beforeNow)
  BY <1>1 DEF Scanned, before, beforeNow, shown, shownNow
<1>6. Scanned(n)' = Scanned(n)
  BY <1>4, <1>5
<1>7. ASSUME NEW field, NEW v, LastScanned(n, field, v) PROVE LastScanned(n, field, v)'
  <2> DEFINE S == Scanned(n)
             naming == {m \in S : said[m][field] # None}
             namingNow == {m \in S : said'[m][field] # None}
  <2>1. S \subseteq 0..n /\ S \subseteq Numbers
    <3>1. Scanned(n) \subseteq {n} \cup 1..(n - 1)
      BY <1>1, ScannedFinite
    <3> QED  BY <1>1, <3>1
  <2>2. LastScanned(n, field, v)
          <=> IF naming = {} THEN v = None ELSE v = said[Max(naming)][field]
    BY DEF LastScanned
  <2>3. LastScanned(n, field, v)'
          <=> IF namingNow = {} THEN v = None ELSE v = said'[Max(namingNow)][field]
    BY <1>6 DEF LastScanned
  <2>4. \A m \in S : said'[m] = said[m]
    BY <2>1
  <2> HIDE DEF S
  <2>5. namingNow = naming
    BY <2>4
  <2>6. naming # {} => Max(naming) \in S
    <3>1. naming \subseteq 0..n
      BY <2>1
    <3> QED  BY <1>1, <3>1, MaxOf
  <2> HIDE DEF naming, namingNow
  <2> QED  BY <1>7, <2>2, <2>3, <2>4, <2>5, <2>6
<1> QED  BY <1>6, <1>7

\* The proposal that a message brings is the last one.
LEMMA OfferIsLast ==
  ASSUME TypeInv, NEW d \in Devices, ~At(d, "idle"),
         NEW type \in Types, NEW who \in Who, NEW term \in Terms \cup {None},
         made' = Append(made, [type |-> type, who |-> who, term |-> term, n |-> turn[d].n])
  PROVE  /\ Len(made') = NewId /\ NewId = Len(made) + 1
         /\ \A id \in 1..Len(made) : made'[id] = made[id]
         /\ made'[NewId] = [type |-> type, who |-> who, term |-> term, n |-> turn[d].n]
         /\ \A i \in 1..Len(made') : i \in 1..Len(made) \/ i = NewId
<1> DEFINE x == [type |-> type, who |-> who, term |-> term, n |-> turn[d].n]
<1>1. x \in Offers(Numbers) /\ made \in Seq(Offers(Numbers)) /\ Len(made) \in Nat
  BY BackgroundType DEF Offers, TypeInv
<1> HIDE DEF x
<1>2. /\ Len(made') = Len(made) + 1 /\ made'[Len(made) + 1] = x
      /\ \A id \in 1..Len(made) : made'[id] = made[id]
  BY <1>1, AppendProperties DEF x
<1> QED  BY <1>1, <1>2 DEF NewId, x

\* A step of another client.
LEMMA OtherTalks ==
  ASSUME TypeInv, NEW e \in Devices, Conversation(e),
         \A k \in Numbers : said'[k] = said[k],
         turn'[e] = turn[e], log'[e] = log[e],
         turn[e].n # 0 => answer'[turn[e].n] = answer[turn[e].n],
         \A id \in 1..Len(made') : \/ id \in 1..Len(made) /\ made'[id].n = made[id].n
                                   \/ made'[id].n \in Numbers /\ said[made'[id].n].dev # e
  PROVE  Conversation(e)'
<1>1. /\ log[e] \in Seq(Numbers) /\ \A i \in 1..Len(log[e]) : log[e][i] \in Numbers
      /\ turn[e].n \in {0} \cup Numbers
  BY DEF TypeInv, Turns
<1>2. \A id \in 1..Len(made) : made[id].n \in Numbers
  <2>1. \A id \in 1..Len(made) : made[id] \in Offers(Numbers)
    BY ElementOfSeq DEF TypeInv
  <2> QED  BY <2>1 DEF Offers
<1>3. Ordered(log'[e]) /\ \A i \in 1..Len(log'[e]) : said'[log'[e][i]].dev = e
  BY <1>1 DEF Conversation, Ordered
<1>4. ASSUME turn[e].n # 0
      PROVE  /\ said'[turn[e].n].dev = e /\ answer'[turn[e].n] = "none"
             /\ \A i \in 1..Len(log'[e]) : log'[e][i] < turn[e].n
  BY <1>1, <1>4 DEF Conversation
<1>5. ASSUME turn[e].n # 0, NEW id \in 1..Len(made'), said'[made'[id].n].dev = e
      PROVE  made'[id].n <= turn[e].n /\ (turn[e].at = "route" => made'[id].n < turn[e].n)
  <2>1. id \in 1..Len(made) /\ made'[id].n = made[id].n /\ said[made[id].n].dev = e
    BY <1>2, <1>5
  <2> QED  BY <1>5, <2>1 DEF Conversation, At
<1>6. turn'[e].at = "route" /\ e \in SendsHistory /\ log'[e] # <<>> =>
        turn'[e].hist = Newest(log'[e], HistoryLimit)
  BY DEF Conversation, At
<1> QED  BY <1>3, <1>4, <1>5, <1>6 DEF Conversation, Ordered, At, Newest

\* The end of a turn.
LEMMA EndedTalks ==
  ASSUME TypeInv, NEW d \in Devices, ~At(d, "idle"), Conversations, said' = said,
         NEW kind, NEW id, NEW background, Ended(d, kind, id, background),
         \A i \in 1..Len(made') : \/ i \in 1..Len(made) /\ made'[i].n = made[i].n
                                  \/ made'[i].n = turn[d].n
  PROVE  Conversations'
<1>1. turn[d].n \in Numbers /\ turn[d].n # 0 /\ said[turn[d].n].dev = d /\ turn[d].n \in Nat
  BY BackgroundType DEF Conversations, Conversation, Numbers
<1>2. ASSUME NEW e \in Devices, e # d PROVE Conversation(e)'
  <2>1. turn'[e] = turn[e] /\ log'[e] = log[e]
    BY <1>2 DEF Ended, TypeInv, screen
  <2>2. turn[e].n # 0 => turn[e].n # turn[d].n /\ turn[e].n \in Numbers
    BY <1>1, <1>2 DEF Conversations, Conversation, TypeInv, Turns
  <2>3. turn[e].n # 0 => answer'[turn[e].n] = answer[turn[e].n]
    BY <2>2 DEF Ended, TypeInv, Numbers
  <2> QED  BY <1>1, <1>2, <2>1, <2>3, OtherTalks DEF Conversations
<1>3. Conversation(d)'
  <2>1. turn'[d] = Idle /\ Idle.n = 0 /\ Idle.at = "idle"
    BY DEF Ended, TypeInv, Idle, Turn
  <2> DEFINE L == log[d]
             M == log'[d]
  <2>2. /\ L \in Seq(Numbers) /\ Len(L) \in Nat
        /\ \A i \in 1..Len(L) : /\ L[i] \in Nat /\ L[i] < turn[d].n /\ said[L[i]].dev = d
        /\ \A i, j \in 1..Len(L) : i < j => L[i] < L[j]
    BY <1>1 DEF TypeInv, Conversations, Conversation, Ordered, Numbers
  <2>3. M = L \/ M = Append(L, turn[d].n)
    BY DEF Ended, TypeInv, screen
  <2> HIDE DEF L
  <2>4. CASE M = L
    BY <2>1, <2>2, <2>4 DEF Conversation, Ordered, At, L
  <2>5. CASE M = Append(L, turn[d].n)
    <3>1. /\ Len(M) = Len(L) + 1 /\ M[Len(L) + 1] = turn[d].n
          /\ \A i \in 1..Len(L) : M[i] = L[i]
      BY <1>1, <2>2, <2>5, AppendProperties
    <3>2. ASSUME NEW i \in 1..Len(M), NEW j \in 1..Len(M), i < j PROVE M[i] < M[j]
      <4>1. i \in 1..Len(L) /\ (j \in 1..Len(L) \/ j = Len(L) + 1)
        BY <2>2, <3>1, <3>2
      <4> QED  BY <2>2, <3>1, <3>2, <4>1
    <3>3. ASSUME NEW i \in 1..Len(M) PROVE said'[M[i]].dev = d
      <4>1. i \in 1..Len(L) \/ i = Len(L) + 1
        BY <2>2, <3>1
      <4> QED  BY <1>1, <2>2, <3>1, <4>1
    <3> QED  BY <2>1, <3>2, <3>3 DEF Conversation, Ordered, At
  <2> QED  BY <2>3, <2>4, <2>5
<1> QED  BY <1>2, <1>3 DEF Conversations

\* A turn that goes on about the same message.
LEMMA StillTalks ==
  ASSUME TypeInv, NEW d \in Devices, ~At(d, "idle"), Conversations, UNCHANGED <<log, said, answer>>,
         \A e \in Devices : e # d => turn'[e] = turn[e],
         turn'[d].n = turn[d].n, turn'[d].at # "route",
         \A i \in 1..Len(made') : \/ i \in 1..Len(made) /\ made'[i].n = made[i].n
                                  \/ made'[i].n = turn[d].n
  PROVE  Conversations'
<1>1. turn[d].n \in Numbers /\ turn[d].n # 0 /\ said[turn[d].n].dev = d /\ turn[d].n \in Nat
  BY BackgroundType DEF Conversations, Conversation, Numbers
<1>2. ASSUME NEW e \in Devices, e # d PROVE Conversation(e)'
  BY <1>1, <1>2, OtherTalks DEF Conversations
<1>3. Conversation(d)'
  BY <1>1 DEF Conversations, Conversation, Ordered, At
<1> QED  BY <1>2, <1>3 DEF Conversations

LEMMA SentTalks ==
  ASSUME TypeInv, NEW d \in Devices, Conversations, Sent(d)
  PROVE  Conversations'
<1>0. Len(said) \in Nat
  BY DEF TypeInv
<1>1. /\ UNCHANGED <<made, log>> /\ \A k \in Numbers : said'[k] = said[k] /\ answer'[k] = answer[k]
      /\ \A e \in Devices : e # d => turn'[e] = turn[e]
      /\ turn'[d].n = Len(said) + 1
      /\ said'[Len(said) + 1].dev = d /\ answer'[Len(said) + 1] = "none"
  BY DEF Sent
<1>2. ASSUME NEW e \in Devices, e # d PROVE Conversation(e)'
  <2>1. turn[e].n # 0 => turn[e].n \in Numbers
    BY DEF TypeInv, Turns
  <2> QED  BY <1>1, <1>2, <2>1, OtherTalks DEF Conversations
<1>3. Conversation(d)'
  <2>1. /\ log[d] \in Seq(Numbers)
        /\ \A i \in 1..Len(log[d]) : log[d][i] \in Numbers /\ log[d][i] < Len(said) + 1
    BY <1>0 DEF TypeInv, Numbers
  <2>2. \A i \in 1..Len(made) : made[i].n \in Nat /\ made[i].n < Len(said) + 1
    <3>1. \A i \in 1..Len(made) : made[i] \in Offers(Numbers)
      BY ElementOfSeq DEF TypeInv
    <3> QED  BY <1>0, <3>1 DEF Offers, Numbers
  <2>3. Ordered(log'[d]) /\ \A i \in 1..Len(log'[d]) : said'[log'[d][i]].dev = d
    BY <1>1, <2>1 DEF Conversations, Conversation, Ordered
  <2>4. turn'[d].at = "route" /\ d \in SendsHistory /\ log[d] # <<>> =>
          turn'[d].hist = Newest(log[d], HistoryLimit)
    BY DEF Sent, mergeChatHistory
  <2>5. /\ said'[turn'[d].n].dev = d /\ answer'[turn'[d].n] = "none"
        /\ \A i \in 1..Len(log'[d]) : log'[d][i] < turn'[d].n
        /\ \A id \in 1..Len(made') : made'[id].n <= turn'[d].n /\ made'[id].n < turn'[d].n
    BY <1>0, <1>1, <2>1, <2>2
  <2>6. turn'[d].at = "route" /\ d \in SendsHistory /\ log'[d] # <<>> =>
          turn'[d].hist = Newest(log'[d], HistoryLimit)
    BY <1>1, <2>4
  <2> QED  BY <2>3, <2>5, <2>6 DEF Conversation, Ordered, At, Newest
<1> QED  BY <1>2, <1>3 DEF Conversations

LEMMA ConversationsStep ==
  ASSUME TypeInv, Conversations, [Next]_vars
  PROVE  Conversations'
<1>1. CASE UNCHANGED vars
  BY <1>1 DEF vars, Conversations, Conversation, Ordered, At, Newest
<1>2. ASSUME NEW d \in Devices, NEW m \in Sayable(d), Send(d, m) PROVE Conversations'
  BY <1>2, SendType, SentTalks
<1>3. ASSUME NEW d \in Devices, Concludes(d) PROVE Conversations'
  BY <1>3, EndedTalks DEF Concludes
<1>4. ASSUME NEW d \in Devices, Proposes(d) PROVE Conversations'
  <2>1. PICK kind \in {"draft", "other"}, type \in Types, who \in Who, term \in Terms \cup {None},
             background \in SUBSET Jobs(Numbers) :
          createPendingAction(d, type, who, term) /\ Ended(d, kind, NewId, background)
    BY <1>4 DEF Proposes
  <2>2. ~At(d, "idle") /\ said' = said
    BY <1>4 DEF Proposes, At
  <2>3. \A i \in 1..Len(made') : \/ i \in 1..Len(made) /\ made'[i].n = made[i].n
                                 \/ made'[i].n = turn[d].n
    BY <2>1, <2>2, OfferIsLast DEF createPendingAction
  <2> QED  BY <2>1, <2>2, <2>3, EndedTalks
<1>5. ASSUME NEW d \in Devices, GoesOn(d) PROVE Conversations'
  <2>1. PICK place \in Places \ {"idle", "route"}, id \in 0..Len(made) : Inside(d, place, id)
    BY <1>5 DEF GoesOn
  <2>2. /\ UNCHANGED <<log, said, answer, made>> /\ turn'[d].n = turn[d].n /\ turn'[d].at = place
        /\ \A e \in Devices : e # d => turn'[e] = turn[e]
    BY <2>1 DEF Inside, Go, Turn, screen, TypeInv
  <2> QED  BY <1>5, <2>2, StillTalks DEF GoesOn
<1>6. ASSUME NEW d \in Devices, Calls(d) PROVE Conversations'
  <2>1. /\ UNCHANGED <<log, said, answer>> /\ turn'[d].n = turn[d].n
        /\ turn'[d].at = "think" /\ ~At(d, "idle")
        /\ \A e \in Devices : e # d => turn'[e] = turn[e]
    BY <1>6, CallsType DEF At
  <2>2. \A i \in 1..Len(made') : \/ i \in 1..Len(made) /\ made'[i].n = made[i].n
                                 \/ made'[i].n = turn[d].n
    <3>1. CASE made' = made
      BY <3>1
    <3>2. CASE made' = Append(made, [type |-> "lease", who |-> None, term |-> None,
                                    n |-> turn[d].n])
      <4>1. "lease" \in Types /\ None \in Who /\ None \in Terms \cup {None}
        BY DEF Types, Who
      <4> QED  BY <2>1, <3>2, <4>1, OfferIsLast
    <3> QED  BY <1>6, <3>1, <3>2, CallsType
  <2> QED  BY <2>1, <2>2, StillTalks
<1>7. CASE JobStep
  <2>1. UNCHANGED <<made, turn, log, said, answer>>
    BY <1>7, JobType
  <2> QED  BY <2>1, OtherTalks DEF Conversations
<1>8. CASE Crash \/ Expire \/ SessionExpires
  <2>1. Disturbed
    BY <1>8, DisturbedType
  <2>2. UNCHANGED <<made, log, said, answer>>
        /\ \A d \in Devices : turn'[d] = turn[d] \/ turn'[d] = Idle
    BY <2>1 DEF Disturbed
  <2>3. Idle.n = 0 /\ Idle.at = "idle"
    BY DEF Idle, Turn
  <2>4. ASSUME NEW e \in Devices PROVE Conversation(e)'
    <3>1. CASE turn'[e] = turn[e]
      BY <2>2, <3>1, OtherTalks DEF Conversations
    <3>2. CASE turn'[e] = Idle
      <4>1. Ordered(log[e]) /\ \A i \in 1..Len(log[e]) : said[log[e][i]].dev = e
        BY DEF Conversations, Conversation
      <4> QED  BY <2>2, <2>3, <3>2, <4>1 DEF Conversation, Ordered, At
    <3> QED  BY <2>2, <3>1, <3>2
  <2> QED  BY <2>4 DEF Conversations
<1> QED  BY <1>1, <1>2, <1>3, <1>4, <1>5, <1>6, <1>7, <1>8, NextCases

\* A proposed contract says what those messages say last.
Follows(id) ==
  LET n == made[id].n
      d == said[n].dev
  IN /\ made[id].type = "lease" /\ answer[n] = "draft"
     /\ d \in SendsHistory /\ log[d] # <<>> /\ log[d][1] < n
     /\ Cardinality(Scanned(n)) <= HistoryLimit + 1
     => LastScanned(n, "who", made[id].who) /\ LastScanned(n, "term", made[id].term)

\* Two lists show the same before n, and start before it together.
ShownSame(L, M, n) ==
  /\ \A j \in 1..(n - 1) : (\E i \in DOMAIN L : j = L[i]) <=> (\E i \in DOMAIN M : j = M[i])
  /\ M # <<>> /\ M[1] < n => L # <<>> /\ L[1] < n

\* A newer exchange changes nothing of what is shown before n.
LEMMA ShownBefore ==
  ASSUME NEW L \in Seq(Nat), NEW n \in Nat, NEW k \in Nat, n <= k, NEW M, M = Append(L, k)
  PROVE  ShownSame(L, M, n)
<1>1. Len(L) \in Nat
  OBVIOUS
<1>2. /\ Len(M) = Len(L) + 1 /\ M[Len(L) + 1] = k
      /\ \A i \in 1..Len(L) : M[i] = L[i]
      /\ DOMAIN L = 1..Len(L) /\ DOMAIN M = 1..Len(M)
  <2>1. M \in Seq(Nat)
    BY AppendProperties
  <2> QED  BY <2>1, AppendProperties
<1>3. L = <<>> => Len(L) = 0
  OBVIOUS
<1>4. L # <<>> => 1 \in 1..Len(L)
  BY <1>1
<1>5. \A i \in 1..Len(M) : i \in 1..Len(L) \/ i = Len(L) + 1
  BY <1>1, <1>2
<1>6. \A i \in 1..Len(L) : i \in 1..Len(M)
  BY <1>1, <1>2
<1>7. \A j \in 1..(n - 1) : j # k
  OBVIOUS
<1>8. \A j \in 1..(n - 1) : (\E i \in DOMAIN L : j = L[i]) <=> (\E i \in DOMAIN M : j = M[i])
  BY <1>2, <1>5, <1>6, <1>7
<1>9. M # <<>> /\ M[1] < n => L # <<>> /\ L[1] < n
  <2>1. L = <<>> => M[1] = k
    BY <1>2, <1>3
  <2>2. L # <<>> => M[1] = L[1]
    BY <1>2, <1>4
  <2> QED  BY <2>1, <2>2
<1> QED  BY <1>8, <1>9 DEF ShownSame

\* What its message continues has not changed.
LEMMA FollowsStill ==
  ASSUME TypeInv, NEW id \in 1..Len(made), Follows(id), made'[id] = made[id],
         NEW n \in Numbers, made[id].n = n, NEW d \in Devices, said[n].dev = d,
         \A k \in Numbers : said'[k] = said[k],
         answer'[n] = "draft" => answer[n] = "draft",
         \/ log'[d] = log[d]
         \/ \E k \in Nat : n <= k /\ log[d] \in Seq(Numbers) /\ log'[d] = Append(log[d], k),
         \A i \in DOMAIN log[d] :
           log[d][i] < n => answer'[log[d][i]] = answer[log[d][i]]
  PROVE  Follows(id)'
<1>0. Len(said) \in Nat
  BY DEF TypeInv
<1>1. n \in Nat /\ said'[n] = said[n]
  BY <1>0 DEF Numbers
<1>2. /\ \A k \in 1..(n - 1) : (\E i \in DOMAIN log[d] : k = log[d][i])
                                 <=> (\E i \in DOMAIN log'[d] : k = log'[d][i])
      /\ log'[d] # <<>> /\ log'[d][1] < n => log[d] # <<>> /\ log[d][1] < n
  <2>1. CASE log'[d] = log[d]
    BY <2>1
  <2>2. ASSUME NEW k \in Nat, n <= k, log[d] \in Seq(Numbers), log'[d] = Append(log[d], k)
        PROVE  <1>2
    <3>1. Seq(Numbers) \subseteq Seq(Nat)
      <4>1. Numbers \subseteq Nat
        BY <1>0 DEF Numbers
      <4> QED  BY <4>1, SeqMonotonic
    <3>2. log[d] \in Seq(Nat)
      BY <2>2, <3>1
    <3> DEFINE L == log[d]
               M == log'[d]
    <3>3. L \in Seq(Nat) /\ M = Append(L, k) /\ n \in Nat /\ k \in Nat /\ n <= k
      BY <1>1, <2>2, <3>2
    <3> HIDE DEF L, M
    <3>4. ShownSame(L, M, n)
      BY ONLY <3>3, ShownBefore
    <3> QED  BY <3>4 DEF L, M, ShownSame
  <2> QED  BY <2>1, <2>2
<1>3. /\ Scanned(n)' = Scanned(n)
      /\ \A field, v : LastScanned(n, field, v) => LastScanned(n, field, v)'
  BY <1>2, ScannedSame
<1>4. SUFFICES ASSUME made[id].type = "lease", answer'[n] = "draft",
                      d \in SendsHistory, log'[d] # <<>>, log'[d][1] < n,
                      Cardinality(Scanned(n)) <= HistoryLimit + 1
               PROVE  LastScanned(n, "who", made[id].who)' /\ LastScanned(n, "term", made[id].term)'
  BY <1>1, <1>3 DEF Follows
<1>5. LastScanned(n, "who", made[id].who) /\ LastScanned(n, "term", made[id].term)
  BY <1>2, <1>4 DEF Follows
<1> DEFINE who == made[id].who
           term == made[id].term
<1>6. LastScanned(n, "who", who)' /\ LastScanned(n, "term", term)'
  BY <1>3, <1>5
<1> QED  BY <1>6

LEMMA OfferTypes ==
  ASSUME TypeInv, NEW id \in 1..Len(made)
  PROVE  made[id].n \in Numbers /\ said[made[id].n].dev \in Devices
<1>1. made[id] \in Offers(Numbers)
  BY ElementOfSeq DEF TypeInv
<1>2. \A k \in Numbers : said[k] \in Says
  BY DEF TypeInv, Numbers
<1> QED  BY <1>1, <1>2 DEF Offers, Says

\* A step that answers nothing changes nothing for the proposals there are.
LEMMA FollowsUnanswered ==
  ASSUME TypeInv, NEW id \in 1..Len(made), Follows(id), made'[id] = made[id],
         \A k \in Numbers : said'[k] = said[k] /\ answer'[k] = answer[k], log' = log
  PROVE  Follows(id)'
<1> DEFINE n == made[id].n
           d == said[n].dev
<1>1. n \in Numbers /\ d \in Devices
  BY OfferTypes
<1>2. \A i \in DOMAIN log[d] : log[d][i] \in Numbers
  BY <1>1 DEF TypeInv
<1>3. made[id].n = n /\ said[n].dev = d /\ log'[d] = log[d] /\ answer'[n] = answer[n]
      /\ \A i \in DOMAIN log[d] : answer'[log[d][i]] = answer[log[d][i]]
  BY <1>1, <1>2
<1> HIDE DEF n, d
<1> QED  BY <1>1, <1>3, FollowsStill

\* The end of a turn changes nothing for them either: its message is no older, and it
\* is not the message of one of them if it continues a draft.
LEMMA FollowsEnded ==
  ASSUME TypeInv, Conversations, NEW id \in 1..Len(made), Follows(id), made'[id] = made[id],
         NEW d \in Devices, ~At(d, "idle"), said' = said,
         NEW kind, NEW offer, NEW background, Ended(d, kind, offer, background),
         kind = "draft" => At(d, "route")
  PROVE  Follows(id)'
<1> DEFINE n == made[id].n
           e == said[n].dev
           k == turn[d].n
<1>1. n \in Numbers /\ e \in Devices /\ n \in Nat /\ Len(said) \in Nat
  BY OfferTypes DEF Numbers, TypeInv
<1>2. k \in Numbers /\ k \in Nat /\ k # 0 /\ said[k].dev = d
  BY BackgroundType DEF Conversations, Conversation, Numbers, TypeInv
<1>3. /\ log[e] \in Seq(Numbers)
      /\ \A i \in DOMAIN log[e] : i \in 1..Len(log[e]) /\ log[e][i] \in Numbers
                                  /\ log[e][i] \in Nat /\ said[log[e][i]].dev = e
  <2>1. log[e] \in Seq(Numbers) /\ \A i \in Numbers : i \in Nat
    BY <1>1 DEF TypeInv, Numbers
  <2>2. \A i \in 1..Len(log[e]) : said[log[e][i]].dev = e
    BY <1>1 DEF Conversations, Conversation
  <2> HIDE DEF n, e
  <2>3. DOMAIN log[e] = 1..Len(log[e]) /\ \A i \in 1..Len(log[e]) : log[e][i] \in Numbers
    BY <2>1
  <2> QED  BY <2>1, <2>2, <2>3
<1>4. /\ answer' = [answer EXCEPT ![k] = kind]
      /\ answer \in Seq({"none", "draft", "other"}) /\ DOMAIN answer = 1..Len(said)
      /\ \/ log' = log \/ log' = [log EXCEPT ![d] = Append(@, k)]
  BY DEF Ended, TypeInv, screen
<1>5. e = d => /\ n <= k /\ (At(d, "route") => n < k)
               /\ \A i \in DOMAIN log[d] : log[d][i] < k
  BY <1>2, <1>3 DEF Conversations, Conversation
<1>6. answer'[n] = "draft" => answer[n] = "draft"
  <2>1. CASE n = k
    <3>1. e = d /\ ~At(d, "route")
      BY <1>1, <1>2, <1>5, <2>1
    <3>2. answer'[n] = kind /\ kind # "draft"
      BY <1>2, <1>4, <2>1, <3>1 DEF Numbers
    <3> QED  BY <3>2
  <2>2. CASE n # k
    BY <1>1, <1>4, <2>2 DEF Numbers
  <2> QED  BY <2>1, <2>2
<1>7. ASSUME NEW i \in DOMAIN log[e] PROVE answer'[log[e][i]] = answer[log[e][i]]
  <2>1. log[e][i] # k
    <3>1. CASE e = d
      BY <1>2, <1>3, <1>5, <3>1
    <3>2. CASE e # d
      BY <1>2, <1>3, <3>2
    <3> QED  BY <3>1, <3>2
  <2>2. log[e][i] \in DOMAIN answer
    BY <1>3, <1>4 DEF Numbers
  <2> QED  BY <1>4, <2>1, <2>2
<1>8. log'[e] = log[e] \/ (n <= k /\ log'[e] = Append(log[e], k))
  BY <1>1, <1>4, <1>5 DEF TypeInv
<1>9. made[id].n = n /\ said[n].dev = e /\ \A i \in Numbers : said'[i] = said[i]
  OBVIOUS
<1> HIDE DEF n, e, k
<1>10. \/ log'[e] = log[e]
       \/ \E i \in Nat : n <= i /\ log[e] \in Seq(Numbers) /\ log'[e] = Append(log[e], i)
  BY <1>2, <1>3, <1>8
<1> QED  BY <1>1, <1>6, <1>7, <1>9, <1>10, FollowsStill

\* A contract proposed now says what the user said last.
LEMMA ProposalFollows ==
  ASSUME TypeInv, Conversations, NEW d \in Devices, Proposes(d), NEW id, NewId = id,
         NEW n, turn[d].n = n
  PROVE  Follows(id)'
<1>1. PICK kind \in {"draft", "other"}, type \in Types, who \in Who, term \in Terms \cup {None},
           background \in SUBSET Jobs(Numbers) :
        /\ createPendingAction(d, type, who, term)
        /\ Ended(d, kind, NewId, background)
        /\ kind = "draft" => At(d, "route")
        /\ type = "lease" => /\ kind = "draft" /\ DraftOf(d) # <<>>
                             /\ who = LastNamed(DraftOf(d), "who")
                             /\ term = LastNamed(DraftOf(d), "term")
  BY DEF Proposes
<1>2. ~At(d, "idle") /\ said' = said
  BY DEF Proposes, At
<1>3. made'[id] = [type |-> type, who |-> who, term |-> term, n |-> n]
  BY <1>1, <1>2, OfferIsLast DEF createPendingAction
<1>4. /\ n \in Numbers /\ n \in Nat /\ Len(said) \in Nat /\ said[n].dev = d
      /\ \A i \in DOMAIN log[d] : log[d][i] < n
  <2>1. n \in Numbers /\ Len(said) \in Nat /\ log[d] \in Seq(Numbers)
    BY <1>2, BackgroundType DEF TypeInv
  <2>2. n \in Nat /\ n # 0
    BY <2>1 DEF Numbers
  <2> QED  BY <2>1, <2>2 DEF Conversations, Conversation
<1>5. SUFFICES ASSUME type = "lease", d \in SendsHistory, log'[d] # <<>>, log'[d][1] < n,
                      Cardinality(Scanned(n)') <= HistoryLimit + 1
               PROVE  LastScanned(n, "who", who)' /\ LastScanned(n, "term", term)'
  BY <1>2, <1>3, <1>4 DEF Follows
<1>6. log'[d] = log[d] \/ log'[d] = Append(log[d], n)
  BY <1>1 DEF Ended, TypeInv, screen
<1>7. log[d] \in Seq(Nat) /\ DOMAIN log[d] = 1..Len(log[d])
  <2>1. Numbers \subseteq Nat
    BY <1>4 DEF Numbers
  <2>2. Seq(Numbers) \subseteq Seq(Nat) /\ log[d] \in Seq(Numbers)
    BY <2>1, SeqMonotonic DEF TypeInv
  <2> QED  BY <2>2
<1>8. /\ \A k \in 1..(n - 1) : (\E i \in DOMAIN log[d] : k = log[d][i])
                                 <=> (\E i \in DOMAIN log'[d] : k = log'[d][i])
      /\ log'[d] # <<>> /\ log'[d][1] < n => log[d] # <<>> /\ log[d][1] < n
  <2>1. CASE log'[d] = log[d]
    BY <2>1
  <2>2. CASE log'[d] = Append(log[d], n)
    <3>1. n <= n
      BY <1>4
    <3> QED  BY <1>4, <1>7, <2>2, <3>1, ShownBefore DEF ShownSame
  <2> QED  BY <1>6, <2>1, <2>2
<1>9. \A i \in DOMAIN log[d] : answer'[log[d][i]] = answer[log[d][i]]
  <2>1. log[d] \in Seq(Numbers) /\ DOMAIN answer = Numbers
        /\ answer' = [answer EXCEPT ![n] = kind]
    BY <1>1 DEF Ended, TypeInv, Numbers
  <2>2. \A i \in DOMAIN log[d] : log[d][i] \in Numbers /\ log[d][i] # n
    BY <1>4, <2>1
  <2> QED  BY <2>1, <2>2
<1>10. \A k \in Numbers : said'[k] = said[k]
  BY <1>2
<1>11. /\ Scanned(n)' = Scanned(n)
       /\ \A field, v : LastScanned(n, field, v) => LastScanned(n, field, v)'
  <2>1. /\ \A k \in 1..(n - 1) : (\E i \in DOMAIN log[said[n].dev] : k = log[said[n].dev][i])
                  <=> (\E i \in DOMAIN log'[said[n].dev] : k = log'[said[n].dev][i])
        /\ \A i \in DOMAIN log[said[n].dev] :
             log[said[n].dev][i] < n => answer'[log[said[n].dev][i]] = answer[log[said[n].dev][i]]
        /\ n \in Numbers
    BY <1>4, <1>8, <1>9
  <2> QED  BY ONLY TypeInv, <1>10, <2>1, ScannedSame
<1>12. LastScanned(n, "who", who) /\ LastScanned(n, "term", term)
  BY <1>1, <1>5, <1>8, <1>11, DraftSays DEF Conversations
<1> QED  BY <1>11, <1>12

\* When the messages since the contract was asked for were answered as one draft, they
\* are those that make the draft.
LEMMA SinceIsScanned ==
  ASSUME NEW n \in Nat, OneDraft(n)
  PROVE  Since(n) = Scanned(n)
<1> DEFINE shown == {log[said[n].dev][i] : i \in DOMAIN log[said[n].dev]} \cap 1..(n - 1)
           top == Max(Asking(n))
<1>1. ShownTo(n) = {n} \cup shown /\ ShownTo(n) \subseteq 0..n /\ n \notin shown
  BY DEF ShownTo
<1>2. top \in Asking(n) /\ \A m \in Asking(n) : top >= m
  <2>1. Asking(n) \subseteq 0..n /\ Asking(n) # {}
    BY <1>1 DEF Asking, OneDraft
  <2> QED  BY <2>1, MaxOf
<1>3. \A m \in shown : m \in Nat /\ m < n
  OBVIOUS
<1> HIDE DEF shown, top
<1>4. /\ top = n \/ said[top].kind = "contract"
      /\ \A m \in Since(n) \ {n} : answer[m] = "draft"
      /\ Since(n) = {m \in ShownTo(n) : m >= top}
  BY DEF OneDraft, Since, top
<1>5. CASE said[n].kind \in {"contract", "pdf"}
  <2>1. n \in Asking(n)
    BY <1>1, <1>5 DEF Asking
  <2>2. top = n
    BY <1>1, <1>2, <2>1 DEF Asking
  <2>3. Since(n) = {n}
    BY <1>1, <1>3, <1>4, <2>2
  <2> QED  BY <1>5, <2>3 DEF Scanned
<1>6. CASE said[n].kind \notin {"contract", "pdf"}
  <2> DEFINE Goes(m) == \A k \in shown : k >= m =>
                          /\ answer[k] = "draft"
                          /\ k > m => said[k].kind # "contract"
  <2>1. top \in shown /\ said[top].kind = "contract" /\ top < n /\ top \in Nat
    BY <1>1, <1>2, <1>3, <1>4, <1>6 DEF Asking
  <2>2. Scanned(n) = {n} \cup {m \in shown : Goes(m)}
    BY <1>6 DEF Scanned, shown
  <2>3. Since(n) = {n} \cup {m \in shown : m >= top}
    <3>1. n >= top
      BY <2>1
    <3> QED  BY <1>1, <1>4, <3>1
  <2>4. ASSUME NEW m \in shown, m >= top, NEW k \in shown, k >= m
        PROVE  answer[k] = "draft" /\ (k > m => said[k].kind # "contract")
    <3>1. k \in Nat /\ m \in Nat /\ k # n
      BY <1>3, <2>4
    <3>2. k >= top /\ (k > m => ~ (top >= k))
      BY <2>1, <2>4, <3>1
    <3>3. k \in Since(n) \ {n}
      BY <2>3, <2>4, <3>1, <3>2
    <3>4. k > m => k \notin Asking(n)
      BY <1>2, <3>2
    <3> QED  BY <1>1, <1>4, <2>4, <3>3, <3>4 DEF Asking
  <2>5. ASSUME NEW m \in shown, Goes(m) PROVE m >= top
    BY <1>3, <2>1, <2>5
  <2>6. \A m \in shown : Goes(m) <=> m >= top
    BY <2>4, <2>5
  <2> HIDE DEF Goes
  <2> QED  BY <2>2, <2>3, <2>6
<1> QED  BY <1>5, <1>6

\* A contract is proposed for the tenant and the term the user named last since he asked
\* for it, on a client that sends its history, when he asked there, not more exchanges ago
\* than the server looks at, and all the answers since continued it; a draft that a PDF
\* request began in an earlier message is excepted (collectLeaseDraftMessages).
THEOREM DraftSaysIt == Spec => []DraftFollowsUser
<1> DEFINE Inv == \A id \in 1..Len(made) : Follows(id)
<1>1. Init => Conversations /\ Inv
  <2> SUFFICES ASSUME Init PROVE Conversations /\ Inv
    OBVIOUS
  <2>1. Len(made) = 0 /\ \A d \in Devices : log[d] = <<>> /\ turn[d] = Idle
    BY DEF Init
  <2>2. Idle.n = 0 /\ Idle.at = "idle" /\ Len(<<>>) = 0
    BY DEF Idle, Turn
  <2> QED  BY <2>1, <2>2 DEF Conversations, Conversation, Ordered, At
<1>2. TypeInv /\ Conversations /\ Inv /\ [Next]_vars => Inv'
  <2> SUFFICES ASSUME TypeInv, Conversations, Inv, [Next]_vars,
                      NEW id \in 1..Len(made')
               PROVE  Follows(id)'
    OBVIOUS
  <2>0. Len(made) \in Nat
    BY DEF TypeInv
  <2>1. ASSUME made' = made, log' = log,
               \A k \in Numbers : said'[k] = said[k] /\ answer'[k] = answer[k]
        PROVE  Follows(id)'
    BY <2>1, FollowsUnanswered
  <2>2. CASE UNCHANGED vars
    BY <2>1, <2>2 DEF vars
  <2>3. ASSUME NEW d \in Devices, NEW m \in Sayable(d), Send(d, m) PROVE Follows(id)'
    <3>1. Sent(d)
      BY <2>3, SendType
    <3> QED  BY <2>1, <3>1 DEF Sent
  <2>4. ASSUME NEW d \in Devices, Concludes(d) PROVE Follows(id)'
    <3>1. PICK kind, offer, background :
            Ended(d, kind, offer, background) /\ (kind = "draft" => At(d, "route"))
      BY <2>4 DEF Concludes
    <3>2. ~At(d, "idle") /\ said' = said /\ made' = made
      BY <2>4 DEF Concludes
    <3> QED  BY <3>1, <3>2, FollowsEnded
  <2>5. ASSUME NEW d \in Devices, Proposes(d) PROVE Follows(id)'
    <3>1. Len(made') = Len(made) + 1 /\ \A i \in 1..Len(made) : made'[i] = made[i]
      BY <2>5, ProposesType DEF NewId
    <3>2. CASE id \in 1..Len(made)
      <4>1. PICK kind, background :
              Ended(d, kind, NewId, background) /\ (kind = "draft" => At(d, "route"))
        BY <2>5 DEF Proposes
      <4>2. ~At(d, "idle") /\ said' = said
        BY <2>5 DEF Proposes, At
      <4> QED  BY <3>1, <3>2, <4>1, <4>2, FollowsEnded
    <3>3. CASE id \notin 1..Len(made)
      <4>1. NewId = id
        BY <2>0, <3>1, <3>3 DEF NewId
      <4>2. PICK n : turn[d].n = n
        OBVIOUS
      <4> QED  BY <2>5, <4>1, <4>2, ProposalFollows
    <3> QED  BY <3>2, <3>3
  <2>6. ASSUME NEW d \in Devices, GoesOn(d) PROVE Follows(id)'
    BY <2>1, <2>6 DEF GoesOn, Inside, screen
  <2>7. ASSUME NEW d \in Devices, Calls(d) PROVE Follows(id)'
    <3>1. /\ UNCHANGED <<log, said, answer>> /\ ~At(d, "idle")
          /\ \A i \in 1..Len(made) : made'[i] = made[i]
          /\ \/ made' = made
             \/ made' = Append(made, [type |-> "lease", who |-> None, term |-> None,
                                      n |-> turn[d].n])
      BY <2>7, CallsType DEF At
    <3>2. CASE id \in 1..Len(made)
      BY <3>1, <3>2, FollowsUnanswered
    <3>3. CASE id \notin 1..Len(made)
      <4>1. made' = Append(made, [type |-> "lease", who |-> None, term |-> None,
                                  n |-> turn[d].n])
        BY <3>1, <3>3
      <4>2. "lease" \in Types /\ None \in Who /\ None \in Terms \cup {None}
        BY DEF Types, Who
      <4>3. made'[id].n = turn[d].n
        BY <3>1, <3>3, <4>1, <4>2, OfferIsLast
      <4>4. turn[d].n # 0
        BY <3>1, BackgroundType DEF Numbers
      <4>5. answer'[made'[id].n] = "none"
        BY <3>1, <4>3, <4>4 DEF Conversations, Conversation
      <4> QED  BY <4>5 DEF Follows
    <3> QED  BY <3>2, <3>3
  <2>8. CASE JobStep
    BY <2>1, <2>8, JobType
  <2>9. CASE Crash \/ Expire \/ SessionExpires
    BY <2>1, <2>9, DisturbedType DEF Disturbed
  <2> QED  BY <2>2, <2>3, <2>4, <2>5, <2>6, <2>7, <2>8, <2>9, NextCases
<1>3. TypeInv /\ Inv => DraftFollowsUser
  <2>1. TypeInv => DOMAIN made = 1..Len(made)
    BY DEF TypeInv
  <2>2. SUFFICES ASSUME TypeInv, NEW id \in 1..Len(made), Follows(id), NEW n, n = made[id].n,
                        OneDraft(n), Cardinality(Since(n)) <= HistoryLimit + 1,
                        made[id].type = "lease", answer[n] = "draft",
                        said[n].dev \in SendsHistory, log[said[n].dev] # <<>>,
                        log[said[n].dev][1] < n
                 PROVE  LastSaid(n, "who", made[id].who) /\ LastSaid(n, "term", made[id].term)
    BY <2>1 DEF DraftFollowsUser
  <2>3. n \in Nat
    <3>1. made[id] \in Offers(Numbers)
      BY <2>2, ElementOfSeq DEF TypeInv
    <3> QED  BY <2>2, <3>1 DEF Offers, Numbers
  <2>4. Since(n) = Scanned(n)
    BY <2>2, <2>3, SinceIsScanned
  <2>5. LastScanned(n, "who", made[id].who) /\ LastScanned(n, "term", made[id].term)
    BY <2>2, <2>4 DEF Follows
  <2> QED  BY <2>4, <2>5 DEF LastSaid, LastScanned
<1> QED  BY <1>1, <1>2, <1>3, TypeInit, TypeStep, ConversationsStep, PTL DEF Spec

=============================================================================
