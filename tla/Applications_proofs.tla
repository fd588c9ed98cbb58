------------------------ MODULE Applications_proofs ------------------------
(***************************************************************************)
(* What TLAPS proves of Applications, for any number of requests,          *)
(* applicants and applications: its types, and that of an applicant none   *)
(* of whose requests was overtaken, the application in progress is the     *)
(* only one and is sound, and the accepted ones have their lease.          *)
(***************************************************************************)
EXTENDS Applications, TLAPS

---------------------------------------------------------------------------
\* The inductive invariant.

Active == InProgress \cup {"DRAFT"}

\* A request knows its applicant, and the application it is about.
Prepared(c) ==
  /\ c.at # "idle" => c.who \in Applicants
  /\ c.at \notin {"idle", "draft", "create"} =>
       c.app \in Apps /\ status[c.app] # "NONE" /\ owner[c.app] = c.who

\* Every request has checked what it must before it began.
CallInv == \A h \in Handlers : call[h].held /\ Prepared(call[h])

\* The applications of p: one, at most, is a draft or in progress, what is in progress
\* has its card and the score of its file, and what is accepted its lease.
SoundFor(p) ==
  /\ \A a, b \in Of(p) : status[a] \in Active /\ status[b] \in Active => a = b
  /\ \A a \in Of(p) :
       /\ status[a] \in InProgress => card[a] > 0
       /\ status[a] = "AI_SCORED" => score[a] = file[a]
       /\ leases[a] = (IF status[a] = "ACCEPTED" THEN 1 ELSE 0)

\* An application that does not exist yet has no lease.
Unborn == \A a \in Apps : status[a] = "NONE" => leases[a] = 0

IInv ==
  /\ TypeOK /\ CallInv /\ Unborn
  /\ \A p \in Applicants : Undisturbed(p) => SoundFor(p)

---------------------------------------------------------------------------
\* Types, and the effect of a write on the requests.

Calls == [at : Places, who : Applicants \cup {"nobody"}, app : 0..MaxApps, seen : Nat,
          held : BOOLEAN]

LEMMA IdleType == Idle \in Calls
BY ApplicationsAssumption DEF Idle, Calls, Places

LEMMA IdleIsPrepared == Prepared(Idle) /\ Prepared(Idle)' /\ Idle.held
BY DEF Idle, Prepared

LEMMA TypeInit == Init => TypeOK
BY ApplicationsAssumption DEF Init, TypeOK, Idle, Places, Statuses, InProgress, Decided, Apps

---------------------------------------------------------------------------
\* Steps that only read.

\* The request h goes on as c, and writes nothing.
GoesOn(h, c) ==
  /\ c \in Calls /\ Prepared(c) /\ c.held
  /\ call' = [call EXCEPT ![h] = c]
  /\ UNCHANGED <<status, owner, file, card, score, leases, listed, stale, misscored, stops>>

\* A request begins as c if what it must check is so.
LEMMA StartHolds ==
  ASSUME NEW h \in Handlers, NEW b \in Calls, Start(h, b), Holds(b), Prepared(b),
         UNCHANGED <<status, owner, file, card, score, leases, listed, stale, misscored, stops>>
  PROVE  \E c : GoesOn(h, c)
<1>1. PICK c : c = [b EXCEPT !.held = Holds(b)]
  OBVIOUS
<1>2. Holds(b) = TRUE
  BY DEF Holds
<1>3. c = [b EXCEPT !.held = TRUE]
  BY <1>1, <1>2
<1>4. c \in Calls /\ c.held /\ c.at = b.at /\ c.who = b.who /\ c.app = b.app
  BY <1>3 DEF Calls
<1>5. call' = [call EXCEPT ![h] = c]
  BY <1>1 DEF Start, Go
<1> QED  BY <1>4, <1>5 DEF GoesOn, Prepared

\* Every request begins by reading what it needs.
LEMMA BeginReads ==
  ASSUME TypeOK, NEW h \in Handlers, Begin(h)
  PROVE  \E c : GoesOn(h, c)
<1> USE DEF Calls, Places, dossier
<1>1. ASSUME NEW p \in Applicants, Open(h, p) PROVE \E c : GoesOn(h, c)
  <2>1. PICK c : c = [Idle EXCEPT !.at = "draft", !.who = p]
    OBVIOUS
  <2>2. c \in Calls /\ c.at = "draft" /\ c.who = p
    BY <2>1, IdleType DEF Idle
  <2>3. Holds(c) /\ Prepared(c)
    BY <1>1, <2>2 DEF Open, Holds, Prepared
  <2> QED  BY <1>1, <2>1, <2>2, <2>3, StartHolds DEF Open
<1>2. ASSUME NEW a \in Apps,
             NEW place \in {"save", "upload", "remove", "submit", "score", "review", "withdraw"},
             Read(h, a, place), status[a] # "NONE",
             place \in {"save", "upload", "remove", "submit"} => status[a] = "DRAFT",
             place = "submit" => card[a] > 0,
             place \in {"review", "withdraw"} => status[a] \notin Decided,
             place = "withdraw" => status[a] # "WITHDRAWN",
             UNCHANGED <<status, owner, file, card, score, leases, listed, stale, misscored, stops>>
      PROVE  \E c : GoesOn(h, c)
  <2>1. PICK c : c = [Idle EXCEPT !.at = place, !.who = owner[a], !.app = a]
    OBVIOUS
  <2>2. owner[a] \in Applicants /\ a \in 0..MaxApps
    BY <1>2 DEF TypeOK, Apps
  <2>3. c \in Calls /\ c.at = place /\ c.who = owner[a] /\ c.app = a
    BY <2>1, <2>2, IdleType DEF Idle
  <2>4. Holds(c)
    BY <1>2, <2>3 DEF Holds
  <2>5. Prepared(c)
    BY <1>2, <2>2, <2>3 DEF Prepared
  <2> QED  BY <1>2, <2>1, <2>3, <2>4, <2>5, StartHolds DEF Read
<1>3. ASSUME NEW a \in Apps, NEW place \in {"save", "upload", "remove"}, Edit(h, a, place)
      PROVE  \E c : GoesOn(h, c)
  BY <1>2, <1>3 DEF Edit
<1>4. ASSUME NEW a \in Apps, Submit(h, a) PROVE \E c : GoesOn(h, c)
  BY <1>2, <1>4 DEF Submit
<1>5. ASSUME NEW a \in Apps, Rescore(h, a) PROVE \E c : GoesOn(h, c)
  BY <1>2, <1>5 DEF Rescore
<1>6. ASSUME NEW a \in Apps, Review(h, a) PROVE \E c : GoesOn(h, c)
  BY <1>2, <1>6 DEF Review
<1>7. ASSUME NEW a \in Apps, Withdraw(h, a) PROVE \E c : GoesOn(h, c)
  BY <1>2, <1>7 DEF Withdraw
<1> QED  BY <1>1, <1>3, <1>4, <1>5, <1>6, <1>7 DEF Begin

\* So do some of its steps.
LEMMA ServeReads ==
  ASSUME TypeOK, CallInv, NEW h \in Handlers, FindDraft(h) \/ Score(h)
  PROVE  \E c : GoesOn(h, c)
<1> USE DEF Go, At, GoesOn, Calls, Places, dossier
<1>0. call[h] \in Calls /\ Prepared(call[h]) /\ call[h].held
  BY DEF TypeOK, CallInv
<1>1. CASE FindDraft(h)
  <2>1. CASE \E a \in Of(call[h].who) : status[a] = "DRAFT"
    BY <1>1, <2>1, IdleType, IdleIsPrepared DEF FindDraft, Return
  <2>2. CASE ~\E a \in Of(call[h].who) : status[a] = "DRAFT"
    <3>1. PICK c : c = [call[h] EXCEPT !.at = "create"]
      OBVIOUS
    <3>2. c \in Calls /\ c.at = "create" /\ c.who = call[h].who /\ c.held
      BY <1>0, <3>1
    <3> QED  BY <1>0, <1>1, <2>2, <3>1, <3>2 DEF FindDraft, Prepared
  <2> QED  BY <2>1, <2>2
<1>2. CASE Score(h)
  <2>1. PICK c : c = [call[h] EXCEPT !.at = "grade", !.seen = file[call[h].app]]
    OBVIOUS
  <2>2. call[h].app \in Apps /\ file[call[h].app] \in Nat
    BY <1>0, <1>2 DEF Score, Prepared, TypeOK
  <2>3. /\ c \in Calls /\ c.at = "grade" /\ c.who = call[h].who /\ c.app = call[h].app
        /\ c.held
    BY <1>0, <2>1, <2>2
  <2> QED  BY <1>0, <1>2, <2>1, <2>2, <2>3 DEF Score, Prepared
<1> QED  BY <1>1, <1>2

\* The others' requests do not notice, nor when a request ends, the apartment is
\* published again or a failure is counted.
LEMMA ReadKeeps ==
  ASSUME IInv, TypeOK',
         \A g \in Handlers : call'[g] = call[g] \/ (call'[g].held /\ Prepared(call'[g])),
         UNCHANGED <<status, owner, file, card, score, leases, stale, misscored>>
  PROVE  IInv'
<1>1. CallInv'
  BY DEF IInv, CallInv, Prepared
<1> QED  BY <1>1 DEF IInv, Unborn, SoundFor, Of, Undisturbed

LEMMA GoesOnKeeps == ASSUME IInv, NEW h \in Handlers, NEW c, GoesOn(h, c) PROVE IInv'
<1> USE DEF GoesOn
<1>1. /\ call'[h] = c
      /\ \A g \in Handlers : g # h => call'[g] = call[g]
      /\ call' \in [Handlers -> Calls]
  BY DEF IInv, TypeOK, Calls
<1>2. TypeOK'
  BY <1>1 DEF IInv, TypeOK, Calls
<1> QED  BY <1>1, <1>2, ReadKeeps

---------------------------------------------------------------------------
\* Steps that write.

\* Only applications of the applicant are written, one of them perhaps new.
OnlyOf(p) ==
  \A a \in Apps :
    /\ owner'[a] = owner[a] \/ (owner[a] = "nobody" /\ owner'[a] = p)
    /\ owner'[a] # p => /\ status'[a] = status[a] /\ leases'[a] = leases[a]
                        /\ file'[a] = file[a] /\ card'[a] = card[a] /\ score'[a] = score[a]

\* What a write must do to them, and to the request that goes on as next.
Coherent(h, next) ==
  /\ next \in Calls /\ Prepared(next)' /\ next.held
  /\ Unborn'
  /\ \A p \in Applicants :
       p = call[h].who /\ Holds(call[h]) /\ Undisturbed(p) /\ Undisturbed(p)' => SoundFor(p)'

\* The whole step.
ChangesFile(h, next) ==
  /\ Write(h, next) /\ OnlyOf(call[h].who) /\ Coherent(h, next)
  /\ call[h].who \in Applicants /\ misscored \subseteq misscored'
  /\ status' \in [Apps -> Statuses \cup {"NONE"}]
  /\ owner' \in [Apps -> Applicants \cup {"nobody"}]
  /\ \A a \in Apps : status'[a] = "NONE" <=> owner'[a] = "nobody"
  /\ file' \in [Apps -> Nat] /\ card' \in [Apps -> Nat] /\ score' \in [Apps -> Nat]
  /\ leases' \in [Apps -> 0..2] /\ listed' \in BOOLEAN
  /\ misscored' \subseteq Applicants /\ stops' \subseteq Apps

\* A write by a request that was overtaken is remembered.
LEMMA StaleAfter ==
  ASSUME IInv, NEW h \in Handlers, NEW next, ChangesFile(h, next), NEW p
  PROVE  Undisturbed(p)' => Undisturbed(p) /\ (p = call[h].who => Holds(call[h]))
BY DEF ChangesFile, Write, Undisturbed, IInv, CallInv

LEMMA WriteKeeps ==
  ASSUME IInv, NEW h \in Handlers, NEW next, ChangesFile(h, next)
  PROVE  IInv'
<1> USE DEF IInv
<1>0. next \in Calls /\ call' = [call EXCEPT ![h] = next] /\ call \in [Handlers -> Calls]
  BY DEF Write, Go, ChangesFile, Coherent, TypeOK, Calls
<1>1. call'[h] = next /\ \A g \in Handlers \ {h} : call'[g] = call[g]
  BY <1>0
<1>2. TypeOK'
  <2>1. call' \in [Handlers -> Calls]
    BY <1>0
  <2>2. stale' \subseteq Applicants
    BY DEF Write, TypeOK, ChangesFile
  <2> QED  BY <2>1, <2>2 DEF TypeOK, Calls, ChangesFile
<1>3. CallInv'
  <2> SUFFICES ASSUME NEW g \in Handlers PROVE call'[g].held /\ Prepared(call[g])'
    BY DEF CallInv
  <2>1. CASE g = h
    BY <1>1, <2>1 DEF Coherent, ChangesFile, Prepared
  <2>2. CASE g # h
    BY <1>1, <2>2, ApplicationsAssumption DEF CallInv, Prepared, ChangesFile, OnlyOf
  <2> QED  BY <2>1, <2>2
<1>4. ASSUME NEW p \in Applicants, Undisturbed(p)' PROVE SoundFor(p)'
  <2>1. Undisturbed(p) /\ (p = call[h].who => Holds(call[h]))
    BY <1>4, StaleAfter
  <2>2. CASE p = call[h].who
    BY <1>4, <2>1, <2>2 DEF ChangesFile, Coherent
  <2>3. CASE p # call[h].who
    <3>1. Of(p)' = Of(p) /\ \A a \in Of(p) : owner'[a] # call[h].who
      BY <2>3, ApplicationsAssumption DEF ChangesFile, OnlyOf, Of
    <3>2. SoundFor(p)
      BY <2>1
    <3> QED  BY <3>1, <3>2 DEF SoundFor, ChangesFile, OnlyOf, Of
  <2> QED  BY <2>2, <2>3
<1> QED  BY <1>2, <1>3, <1>4 DEF ChangesFile, Coherent

\* What a request that is about an application knows of it.
LEMMA AboutApp ==
  ASSUME IInv, NEW h \in Handlers, call[h].at \notin {"idle", "draft", "create"}
  PROVE  /\ call[h] \in Calls /\ call[h].app \in Apps /\ call[h].who \in Applicants
         /\ owner[call[h].app] = call[h].who /\ status[call[h].app] # "NONE"
         /\ call[h].held
BY DEF IInv, TypeOK, CallInv, Calls, Prepared

\* A new draft, of an applicant who had no active application.
LEMMA CreateChanges ==
  ASSUME IInv, NEW h \in Handlers, At(h, "create"), NEW a \in Apps, status[a] = "NONE",
         status' = [status EXCEPT ![a] = "DRAFT"],
         owner' = [owner EXCEPT ![a] = call[h].who],
         Write(h, Idle), UNCHANGED <<dossier, leases, listed, misscored, stops>>
  PROVE  ChangesFile(h, Idle)
<1> USE ApplicationsAssumption DEF IInv, At, dossier
<1>1. call[h].who \in Applicants /\ (Holds(call[h]) => \A b \in Of(call[h].who) : status[b] \notin Active)
  BY DEF CallInv, Prepared, Holds, Active
<1>2. owner[a] = "nobody" /\ leases[a] = 0
  BY DEF TypeOK, Unborn
<1>3. OnlyOf(call[h].who)
  BY <1>1, <1>2 DEF OnlyOf, TypeOK
<1>4. ASSUME NEW p \in Applicants, p = call[h].who, Holds(call[h]), Undisturbed(p)
      PROVE  SoundFor(p)'
  <2>1. Of(p)' = Of(p) \cup {a}
    BY <1>1, <1>2, <1>4 DEF Of, TypeOK
  <2>2. \A b \in Of(p) : b # a /\ status'[b] = status[b] /\ status[b] \notin Active
    BY <1>1, <1>2, <1>4 DEF Of, TypeOK
  <2>3. status'[a] = "DRAFT" /\ SoundFor(p)
    BY <1>4 DEF TypeOK
  <2> QED  BY <1>2, <2>1, <2>2, <2>3 DEF SoundFor, Active, InProgress
<1>5. Coherent(h, Idle)
  BY <1>4, IdleType, IdleIsPrepared DEF Coherent, Unborn, TypeOK
<1>6. \A b \in Apps : status'[b] = "NONE" <=> owner'[b] = "nobody"
  BY <1>1 DEF TypeOK
<1> QED  BY <1>1, <1>3, <1>5, <1>6 DEF ChangesFile, TypeOK, Statuses

\* Changes of the file, by a request that has read a draft.
LEMMA EditChanges ==
  ASSUME IInv, NEW h \in Handlers,
         call[h].at \in {"save", "upload", "store", "remove"}, NEW next \in Calls,
         next = Idle \/ next = [call[h] EXCEPT !.at = "store"],
         NEW a \in Apps, a = call[h].app, Write(h, next),
         file' \in [Apps -> Nat], card' \in [Apps -> Nat],
         \A b \in Apps : b # a => file'[b] = file[b] /\ card'[b] = card[b],
         UNCHANGED <<status, owner, score, leases, listed, misscored, stops>>
  PROVE  ChangesFile(h, next)
<1>1. /\ call[h] \in Calls /\ call[h].who \in Applicants /\ owner[a] = call[h].who
      /\ Holds(call[h]) => status[a] = "DRAFT"
      /\ status[a] # "NONE"
  BY AboutApp DEF Holds
<1>2. OnlyOf(call[h].who)
  BY <1>1 DEF OnlyOf
<1>3. ASSUME NEW p \in Applicants, p = call[h].who, Holds(call[h]), Undisturbed(p)
      PROVE  SoundFor(p)'
  <2>1. SoundFor(p) /\ Of(p)' = Of(p) /\ status[a] = "DRAFT"
    BY <1>1, <1>3 DEF IInv, Of
  <2> QED  BY <2>1 DEF SoundFor, InProgress, Of
<1>4. Prepared(next)' /\ next.held
  <2>1. CASE next = Idle
    BY <2>1, IdleIsPrepared
  <2>2. CASE next = [call[h] EXCEPT !.at = "store"]
    BY <1>1, <2>2, AboutApp DEF Prepared, Calls
  <2> QED  BY <2>1, <2>2
<1>5. Coherent(h, next)
  BY <1>3, <1>4, IdleIsPrepared DEF Coherent, IInv, Unborn
<1> QED  BY <1>1, <1>2, <1>5 DEF ChangesFile, IInv, TypeOK

\* A change of status to one that is neither active nor ACCEPTED, from any but ACCEPTED.
LEMMA EndChanges ==
  ASSUME IInv, NEW h \in Handlers, At(h, "review") \/ At(h, "withdraw"),
         NEW ending \in {"REJECTED", "WITHDRAWN"},
         status' = [status EXCEPT ![call[h].app] = ending], Write(h, Idle),
         UNCHANGED <<owner, dossier, leases, listed, misscored, stops>>
  PROVE  ChangesFile(h, Idle)
<1> DEFINE a == call[h].app
<1> USE DEF At, dossier
<1>1. /\ a \in Apps /\ call[h].who \in Applicants /\ owner[a] = call[h].who
      /\ Holds(call[h]) => status[a] \notin Decided
      /\ status[a] # "NONE"
  BY AboutApp DEF Holds
<1>2. OnlyOf(call[h].who)
  BY <1>1 DEF OnlyOf, IInv, TypeOK
<1>3. ASSUME NEW p \in Applicants, p = call[h].who, Holds(call[h]), Undisturbed(p)
      PROVE  SoundFor(p)'
  <2>1. SoundFor(p) /\ Of(p)' = Of(p) /\ status[a] # "ACCEPTED" /\ a \in Of(p)
    BY <1>1, <1>3 DEF IInv, Of, Decided
  <2>2. \A b \in Of(p) : status'[b] = IF b = a THEN ending ELSE status[b]
    BY DEF Of, IInv, TypeOK
  <2> QED  BY <2>1, <2>2 DEF SoundFor, Active, InProgress
<1>4. Coherent(h, Idle)
  BY <1>1, <1>3, IdleType, IdleIsPrepared DEF Coherent, IInv, Unborn, TypeOK
<1>5. \A b \in Apps : status'[b] = "NONE" <=> owner'[b] = "nobody"
  BY <1>1 DEF IInv, TypeOK
<1> QED  BY <1>1, <1>2, <1>4, <1>5 DEF ChangesFile, IInv, TypeOK, Statuses, Decided

\* The moves of an application that is, or becomes, in progress.
LEMMA MoveChanges ==
  ASSUME IInv, NEW h \in Handlers, At(h, "submit") \/ At(h, "announce"),
         NEW goal \in {"PENDING", "UNDER_REVIEW"}, NEW place \in {"announce", "score"},
         goal = "PENDING" <=> place = "announce",
         status' = [status EXCEPT ![call[h].app] = goal],
         Write(h, [call[h] EXCEPT !.at = place]),
         UNCHANGED <<owner, dossier, leases, listed, misscored, stops>>
  PROVE  \E next : ChangesFile(h, next)
<1> DEFINE a == call[h].app
<1> USE DEF At, dossier
<1>0. PICK next : next = [call[h] EXCEPT !.at = place]
  OBVIOUS
<1>1. /\ a \in Apps /\ call[h].who \in Applicants /\ owner[a] = call[h].who
      /\ Holds(call[h]) => (status[a] = "DRAFT" /\ card[a] > 0) \/ status[a] = "PENDING"
      /\ status[a] # "NONE" /\ call[h] \in Calls /\ call[h].held
  BY AboutApp DEF Holds
<1>2. OnlyOf(call[h].who)
  BY <1>1 DEF OnlyOf, IInv, TypeOK
<1>3. ASSUME NEW p \in Applicants, p = call[h].who, Holds(call[h]), Undisturbed(p)
      PROVE  SoundFor(p)'
  <2>1. SoundFor(p) /\ Of(p)' = Of(p) /\ a \in Of(p)
    BY <1>1, <1>3 DEF IInv, Of
  <2>2. \A b \in Of(p) : status'[b] = IF b = a THEN goal ELSE status[b]
    BY DEF Of, IInv, TypeOK
  <2> QED  BY <1>1, <1>3, <2>1, <2>2 DEF SoundFor, Active, InProgress
<1>4. /\ next \in Calls /\ next.at = place /\ next.who = call[h].who /\ next.app = a
      /\ next.held
  BY <1>0, <1>1 DEF Calls, Places
<1>5. Prepared(next)'
  <2>1. status'[a] = goal
    BY <1>1 DEF IInv, TypeOK
  <2> QED  BY <1>1, <1>4, <2>1 DEF Prepared
<1>6. Coherent(h, next)
  BY <1>1, <1>3, <1>4, <1>5 DEF Coherent, IInv, Unborn, TypeOK
<1>7. \A b \in Apps : status'[b] = "NONE" <=> owner'[b] = "nobody"
  BY <1>1 DEF IInv, TypeOK
<1> QED  BY <1>0, <1>1, <1>2, <1>6, <1>7 DEF ChangesFile, IInv, TypeOK, Statuses, InProgress

LEMMA GradeChanges == ASSUME IInv, NEW h \in Handlers, Grade(h) PROVE ChangesFile(h, Idle)
<1> DEFINE a == call[h].app
<1> USE DEF At
<1>0. /\ call[h].at = "grade" /\ Write(h, Idle)
      /\ status' = [status EXCEPT ![a] = "AI_SCORED"] /\ score' = [score EXCEPT ![a] = call[h].seen]
      /\ misscored' = IF status[a] \in InProgress THEN misscored ELSE misscored \cup {owner[a]}
      /\ UNCHANGED <<owner, file, card, leases, listed, stops>>
  BY DEF Grade
<1>1. /\ a \in Apps /\ call[h].who \in Applicants /\ owner[a] = call[h].who
      /\ Holds(call[h]) => call[h].seen = file[a]
      /\ status[a] # "NONE" /\ call[h] \in Calls
  BY <1>0, AboutApp DEF Holds
<1>2. OnlyOf(call[h].who)
  BY <1>0, <1>1 DEF OnlyOf, IInv, TypeOK
<1>3. ASSUME NEW p \in Applicants, p = call[h].who, Holds(call[h]), Undisturbed(p), Undisturbed(p)'
      PROVE  SoundFor(p)'
  <2>1. SoundFor(p) /\ Of(p)' = Of(p) /\ a \in Of(p)
    BY <1>0, <1>1, <1>3 DEF IInv, Of
  <2>2. status[a] \in InProgress
    BY <1>0, <1>1, <1>3 DEF Undisturbed
  <2>3. \A b \in Of(p) : /\ status'[b] = IF b = a THEN "AI_SCORED" ELSE status[b]
                         /\ score'[b] = IF b = a THEN file[a] ELSE score[b]
    BY <1>0, <1>1, <1>3 DEF Of, IInv, TypeOK
  <2> QED  BY <1>0, <2>1, <2>2, <2>3 DEF SoundFor, Active, InProgress
<1>4. Coherent(h, Idle)
  BY <1>0, <1>1, <1>3, IdleType, IdleIsPrepared DEF Coherent, IInv, Unborn, TypeOK
<1>5. \A b \in Apps : status'[b] = "NONE" <=> owner'[b] = "nobody"
  BY <1>0, <1>1 DEF IInv, TypeOK
<1>6. call[h].seen \in Nat
  BY <1>1 DEF Calls
<1> QED  BY <1>0, <1>1, <1>2, <1>4, <1>5, <1>6 DEF ChangesFile, IInv, TypeOK, Statuses, InProgress

\* An accepted application gets its lease.
LEMMA AcceptChanges ==
  ASSUME IInv, NEW h \in Handlers, At(h, "review"),
         status' = [status EXCEPT ![call[h].app] = "ACCEPTED"],
         leases' = [leases EXCEPT ![call[h].app] = IF @ = 2 THEN 2 ELSE @ + 1],
         listed' = FALSE, Write(h, Idle),
         UNCHANGED <<owner, dossier, misscored, stops>>
  PROVE  ChangesFile(h, Idle)
<1> DEFINE a == call[h].app
<1> USE DEF At, dossier
<1>1. /\ a \in Apps /\ call[h].who \in Applicants /\ owner[a] = call[h].who
      /\ Holds(call[h]) => status[a] \notin Decided
      /\ status[a] # "NONE"
  BY AboutApp DEF Holds
<1>2. OnlyOf(call[h].who)
  BY <1>1 DEF OnlyOf, IInv, TypeOK
<1>3. ASSUME NEW p \in Applicants, p = call[h].who, Holds(call[h]), Undisturbed(p)
      PROVE  SoundFor(p)'
  <2>1. SoundFor(p) /\ Of(p)' = Of(p) /\ status[a] # "ACCEPTED" /\ a \in Of(p)
    BY <1>1, <1>3 DEF IInv, Of, Decided
  <2>2. leases[a] = 0
    BY <2>1 DEF SoundFor
  <2>3. \A b \in Of(p) : /\ status'[b] = IF b = a THEN "ACCEPTED" ELSE status[b]
                         /\ leases'[b] = IF b = a THEN 1 ELSE leases[b]
    BY <1>1, <2>2 DEF Of, IInv, TypeOK
  <2> QED  BY <2>1, <2>3 DEF SoundFor, Active, InProgress
<1>4. Coherent(h, Idle)
  BY <1>1, <1>3, IdleType, IdleIsPrepared DEF Coherent, IInv, Unborn, TypeOK
<1>5. \A b \in Apps : status'[b] = "NONE" <=> owner'[b] = "nobody"
  BY <1>1 DEF IInv, TypeOK
<1>6. leases' \in [Apps -> 0..2]
  BY <1>1 DEF IInv, TypeOK
<1> QED  BY <1>1, <1>2, <1>4, <1>5, <1>6 DEF ChangesFile, IInv, TypeOK, Statuses, Decided

LEMMA ServeKeeps == ASSUME IInv, NEW h \in Handlers, Serve(h) PROVE IInv'
<1> USE DEF At
<1>r. ASSUME Return(h), UNCHANGED <<status, owner, dossier, leases, listed, stale, misscored, stops>>
      PROVE  IInv'
  <2>1. GoesOn(h, Idle)
    BY <1>r, IdleType, IdleIsPrepared DEF GoesOn, Return, Go, dossier
  <2> QED  BY <2>1, GoesOnKeeps
<1>1. CASE FindDraft(h) \/ Score(h)
  BY <1>1, ServeReads, GoesOnKeeps DEF IInv
<1>2. CASE CreateDraft(h)
  BY <1>2, <1>r, CreateChanges, WriteKeeps DEF CreateDraft
<1>3. CASE Save(h)
  <2>1. call[h].app \in Apps /\ file \in [Apps -> Nat] /\ card \in [Apps -> Nat]
    BY <1>3, AboutApp DEF Save, IInv, TypeOK
  <2>2. file' \in [Apps -> Nat] /\ \A b \in Apps : b # call[h].app => file'[b] = file[b]
    BY <1>3, <2>1 DEF Save
  <2>3. ChangesFile(h, Idle)
    BY <1>3, <2>1, <2>2, EditChanges, IdleType DEF Save
  <2> QED  BY <2>3, WriteKeeps
<1>4. CASE Upload(h)
  <2>1. /\ call[h].app \in Apps /\ file \in [Apps -> Nat] /\ card \in [Apps -> Nat]
        /\ call[h] \in Calls /\ call[h].held /\ Prepared(call[h])
    BY <1>4, AboutApp DEF Upload, IInv, TypeOK, CallInv
  <2>2. PICK next : next = [call[h] EXCEPT !.at = "store"]
    OBVIOUS
  <2>3. next \in Calls /\ next.held /\ Prepared(next)
    BY <1>4, <2>1, <2>2 DEF Calls, Places, Prepared, Upload
  <2>4. CASE card[call[h].app] = 0 /\ Go(h, next) /\ UNCHANGED <<card, file, stale>>
    <3>1. GoesOn(h, next)
      BY <1>4, <2>3, <2>4 DEF GoesOn, Go, Upload, dossier
    <3> QED  BY <3>1, GoesOnKeeps
  <2>5. CASE /\ card[call[h].app] > 0 /\ card' = [card EXCEPT ![call[h].app] = @ - 1]
             /\ file' = [file EXCEPT ![call[h].app] = @ + 1] /\ Write(h, next)
    <3>1. /\ file' \in [Apps -> Nat] /\ card' \in [Apps -> Nat]
          /\ \A b \in Apps : b # call[h].app => file'[b] = file[b] /\ card'[b] = card[b]
      BY <2>1, <2>5
    <3>2. ChangesFile(h, next)
      BY <1>4, <2>1, <2>2, <2>3, <2>5, <3>1, EditChanges DEF Upload
    <3> QED  BY <3>2, WriteKeeps
  <2> QED  BY <1>4, <2>2, <2>4, <2>5 DEF Upload
<1>5. CASE Store(h)
  <2>1. call[h].app \in Apps /\ file \in [Apps -> Nat] /\ card \in [Apps -> Nat]
    BY <1>5, AboutApp DEF Store, IInv, TypeOK
  <2>2. /\ file' \in [Apps -> Nat] /\ card' \in [Apps -> Nat]
        /\ \A b \in Apps : b # call[h].app => file'[b] = file[b] /\ card'[b] = card[b]
    BY <1>5, <2>1 DEF Store
  <2>3. ChangesFile(h, Idle)
    BY <1>5, <2>1, <2>2, EditChanges, IdleType DEF Store
  <2> QED  BY <2>3, WriteKeeps
<1>6. CASE Remove(h)
  <2>1. CASE call' = [call EXCEPT ![h] = Idle] /\ UNCHANGED <<card, file, stale>>
    BY <1>6, <1>r, <2>1 DEF Remove, Return, Go, dossier
  <2>2. CASE /\ card[call[h].app] > 0 /\ card' = [card EXCEPT ![call[h].app] = @ - 1]
             /\ file' = [file EXCEPT ![call[h].app] = @ + 1] /\ Write(h, Idle)
    <3>1. call[h].app \in Apps /\ file \in [Apps -> Nat] /\ card \in [Apps -> Nat]
      BY <1>6, AboutApp DEF Remove, IInv, TypeOK
    <3>2. /\ file' \in [Apps -> Nat] /\ card' \in [Apps -> Nat]
          /\ \A b \in Apps : b # call[h].app => file'[b] = file[b] /\ card'[b] = card[b]
      BY <2>2, <3>1
    <3>3. ChangesFile(h, Idle)
      BY <1>6, <2>2, <3>1, <3>2, EditChanges, IdleType DEF Remove
    <3> QED  BY <3>3, WriteKeeps
  <2> QED  BY <1>6, <2>1, <2>2 DEF Remove, Return, Go
<1>7. CASE Send(h)
  BY <1>7, MoveChanges, WriteKeeps DEF Send
<1>8. CASE Announce(h)
  BY <1>8, MoveChanges, WriteKeeps DEF Announce
<1>9. CASE Grade(h)
  BY <1>9, GradeChanges, WriteKeeps
<1>10. CASE Reject(h)
  BY <1>10, EndChanges, WriteKeeps DEF Reject
<1>11. CASE Accept(h)
  BY <1>11, <1>r, AcceptChanges, WriteKeeps DEF Accept
<1>12. CASE WithdrawWrite(h)
  BY <1>12, EndChanges, WriteKeeps DEF WithdrawWrite
<1> QED  BY <1>1, <1>2, <1>3, <1>4, <1>5, <1>6, <1>7, <1>8, <1>9, <1>10, <1>11, <1>12 DEF Serve

LEMMA StopKeeps == ASSUME IInv, NEW h \in Handlers, Stop(h) PROVE IInv'
<1>1. /\ call' = [call EXCEPT ![h] = Idle] /\ stops' \subseteq Apps
      /\ UNCHANGED <<status, owner, file, card, score, leases, listed, stale, misscored>>
  <2>1. call[h].at = "store" \/ call[h].app \in Apps
    BY AboutApp DEF Stop, At
  <2> QED  BY <2>1 DEF Stop, Return, Go, dossier, IInv, TypeOK
<1>2. TypeOK'
  BY <1>1, IdleType DEF IInv, TypeOK, Calls
<1>3. \A g \in Handlers : call'[g] = call[g] \/ (g = h /\ call'[g] = Idle)
  BY <1>1 DEF IInv, TypeOK
<1>4. call'[h] = Idle => Prepared(call'[h]) /\ call'[h].held
  BY IdleIsPrepared
<1> QED  BY <1>1, <1>2, <1>3, <1>4, ReadKeeps

LEMMA RelistKeeps == ASSUME IInv, Relist PROVE IInv'
<1>1. listed' = TRUE /\ UNCHANGED <<status, owner, file, card, score, leases, call, stale, misscored, stops>>
  BY DEF Relist, dossier
<1>2. TypeOK'
  BY <1>1 DEF IInv, TypeOK
<1> QED  BY <1>1, <1>2, ReadKeeps

---------------------------------------------------------------------------
\* The invariant, and what follows from it.

LEMMA InvInit == Init => IInv
<1> SUFFICES ASSUME Init PROVE IInv
  OBVIOUS
<1>1. CallInv /\ Unborn
  BY DEF Init, CallInv, Prepared, Idle, Unborn
<1>2. \A p \in Applicants : Of(p) = {}
  BY ApplicationsAssumption DEF Init, Of
<1> QED  BY <1>1, <1>2, TypeInit DEF IInv, SoundFor

LEMMA InvStep == IInv /\ [Next]_vars => IInv'
<1> SUFFICES ASSUME IInv, [Next]_vars PROVE IInv'
  OBVIOUS
<1>1. CASE UNCHANGED vars
  <2>1. TypeOK'
    BY <1>1 DEF vars, IInv, TypeOK
  <2> QED  BY <1>1, <2>1, ReadKeeps DEF vars
<1>2. ASSUME NEW h \in Handlers, Begin(h) PROVE IInv'
  BY <1>2, BeginReads, GoesOnKeeps DEF IInv
<1> QED  BY <1>1, <1>2, ServeKeeps, StopKeeps, RelistKeeps DEF Next

LEMMA InvAlways == Spec => []IInv
BY InvInit, InvStep, PTL DEF Spec

\* Applications, requests and histories are well typed.
THEOREM TypeCorrect == Spec => []TypeOK
BY InvAlways, PTL DEF IInv

\* An application has a lease if and only if it is accepted, and one, for every applicant
\* none of whose requests was overtaken between its check and its write, and none of
\* whose applications was scored when it was not in progress.
THEOREM LeaseWhenAccepted == Spec => []OneLeaseEach
<1>1. IInv => OneLeaseEach
  <2> SUFFICES ASSUME IInv, NEW a \in Apps, Undisturbed(owner[a])
               PROVE  leases[a] = (IF status[a] = "ACCEPTED" THEN 1 ELSE 0)
    BY DEF OneLeaseEach
  <2>1. CASE owner[a] = "nobody"
    BY <2>1 DEF IInv, TypeOK, Unborn
  <2>2. CASE owner[a] \in Applicants
    BY <2>2 DEF IInv, SoundFor, Of
  <2> QED  BY <2>1, <2>2 DEF IInv, TypeOK
<1> QED  BY <1>1, InvAlways, PTL

\* For the same applicants, what the staff decides on is their only application, with its
\* card, and a score that is the one of its file.
THEOREM SoundInProgress == Spec => []InProgressIsSound
<1>1. IInv => InProgressIsSound
  <2> SUFFICES ASSUME IInv, NEW a \in Apps, status[a] \in InProgress, Undisturbed(owner[a])
               PROVE  /\ \A b \in Apps : owner[b] = owner[a] /\ status[b] \in Active => b = a
                      /\ card[a] > 0
                      /\ status[a] = "AI_SCORED" => score[a] = file[a]
    BY DEF InProgressIsSound, Active
  <2>1. owner[a] \in Applicants
    BY DEF IInv, TypeOK, InProgress
  <2>2. SoundFor(owner[a]) /\ a \in Of(owner[a]) /\ status[a] \in Active
    BY <2>1 DEF IInv, Of, Active
  <2> QED  BY <2>2 DEF SoundFor, Of
<1> QED  BY <1>1, InvAlways, PTL

=============================================================================
