---------------------------- MODULE Applications ----------------------------
(***************************************************************************)
(* The rental applications for one apartment (ApplicationService,          *)
(* ApplicationDocumentService): drafts, documents, submission with its      *)
(* scoring, review, withdrawal.  Every operation reads the application,     *)
(* checks its status and then writes it by id, and the writes do not look  *)
(* at the status again; between the two anything may happen.  Whether what *)
(* a request had checked is still so when it writes is kept as history.    *)
(*                                                                         *)
(* A file (form and documents) is a number of changes; of the documents    *)
(* only the identity card is told apart.  The search and the removal of     *)
(* the card an upload replaces are one step.  What review(accept) does to   *)
(* the leases of the apartment is followed in Occupancy.                    *)
(* Bounds: MaxApps, MaxEdits, MaxStops, MaxDisturbed.                      *)
(***************************************************************************)
EXTENDS Naturals, FiniteSets, Functions

CONSTANTS
  Handlers,     \* requests being served
  Applicants,
  MaxApps,      \* applications created
  MaxEdits,     \* no change begins when the files had that many
  MaxStops,     \* requests that fail half-way
  MaxDisturbed  \* no request begins or fails when more applicants are disturbed

ASSUME ApplicationsAssumption ==
  /\ "nobody" \notin Applicants
  /\ MaxApps \in Nat /\ MaxEdits \in Nat
  /\ MaxStops \in Nat /\ MaxDisturbed \in Nat

Apps == 1..MaxApps

VARIABLES
  status,    \* status of each application, or "NONE"
  owner,     \* its applicant
  file,      \* changes of the file
  card,      \* identity cards among its documents
  score,     \* the file the stored score was computed on
  leases,    \* history: leases its acceptances created (2: several)
  listed,    \* the apartment is published and AVAILABLE
  call,      \* requests in progress
  stale,     \* history: applicants of whom a request wrote an application
             \* when what it had checked was no longer so
  misscored, \* history: applicants of whom an application not in progress was scored
  stops      \* history: applications of the requests that failed half-way

vars == <<status, owner, file, card, score, leases, listed, call, stale, misscored, stops>>
dossier == <<file, card, score>>

InProgress == {"PENDING", "UNDER_REVIEW", "AI_SCORED"}
Decided    == {"ACCEPTED", "REJECTED"}
Statuses   == {"DRAFT", "WITHDRAWN"} \cup InProgress \cup Decided

Places == {"idle", "draft", "create", "save", "upload", "store", "remove", "submit",
           "announce", "score", "grade", "review", "withdraw"}

\* A request: its step, the applicant and the application it is about, the
\* file it read, and (history) whether what it must check was so when it began.
Idle == [at |-> "idle", who |-> "nobody", app |-> 0, seen |-> 0, held |-> TRUE]

Init ==
  /\ status = [a \in Apps |-> "NONE"]
  /\ owner = [a \in Apps |-> "nobody"]
  /\ file = [a \in Apps |-> 0]
  /\ card = [a \in Apps |-> 0]
  /\ score = [a \in Apps |-> 0]
  /\ leases = [a \in Apps |-> 0]
  /\ listed = TRUE
  /\ call = [h \in Handlers |-> Idle]
  /\ stale = {} /\ misscored = {} /\ stops = {}

At(h, place) == call[h].at = place
Go(h, next)  == call' = [call EXCEPT ![h] = next]
Return(h)    == Go(h, Idle)
Of(p)        == {a \in Apps : owner[a] = p}

\* Bound: few applicants have been disturbed.
Calm == Cardinality(stale \cup misscored) <= MaxDisturbed

\* What must be so for the request c to write.
Holds(c) ==
  CASE c.at = "draft" -> \A a \in Of(c.who) : status[a] \notin InProgress
    [] c.at = "create" -> \A a \in Of(c.who) : status[a] \notin {"DRAFT"} \cup InProgress
    [] c.at \in {"save", "upload", "store", "remove"} -> status[c.app] = "DRAFT"
    [] c.at = "submit" -> status[c.app] = "DRAFT" /\ card[c.app] > 0
    [] c.at = "announce" -> status[c.app] = "PENDING"
    [] c.at = "grade" -> c.seen = file[c.app]
    [] c.at = "review" -> status[c.app] \notin Decided
    [] c.at = "withdraw" -> status[c.app] \notin Decided \cup {"WITHDRAWN"}
    [] OTHER -> TRUE

\* The request h begins as c.
Start(h, c) ==
  /\ At(h, "idle")
  /\ Go(h, [c EXCEPT !.held = Holds(c)])

\* It begins with reading the application a.
Read(h, a, place) ==
  Start(h, [Idle EXCEPT !.at = place, !.who = owner[a], !.app = a])

\* The request h writes an application of its applicant and goes on as next.
\* It has been overtaken if what was so when it began no longer is.
Write(h, next) ==
  /\ Go(h, next)
  /\ stale' = IF call[h].held /\ ~Holds(call[h]) THEN stale \cup {call[h].who} ELSE stale

-----------------------------------------------------------------------------
(* Drafts and documents. *)

\* getOrCreateDraft: the apartment must be on offer, and the applicant must
\* have no application in progress.  Bound: while there is an application left.
Open(h, p) ==
  /\ listed /\ \E a \in Apps : status[a] = "NONE"
  /\ \A a \in Of(p) : status[a] \notin InProgress
  /\ Start(h, [Idle EXCEPT !.at = "draft", !.who = p])
  /\ UNCHANGED <<status, owner, dossier, leases, listed, stale, misscored, stops>>

\* A draft of the applicant is used again.
FindDraft(h) ==
  /\ At(h, "draft")
  /\ IF \E a \in Of(call[h].who) : status[a] = "DRAFT"
       THEN Return(h) ELSE Go(h, [call[h] EXCEPT !.at = "create"])
  /\ UNCHANGED <<status, owner, dossier, leases, listed, stale, misscored, stops>>

\* When MaxApps applications exist the request ends.
CreateDraft(h) ==
  /\ At(h, "create")
  /\ \/ \E a \in Apps :
          /\ status[a] = "NONE" /\ \A b \in 1..(a - 1) : status[b] # "NONE"
          /\ status' = [status EXCEPT ![a] = "DRAFT"]
          /\ owner' = [owner EXCEPT ![a] = call[h].who]
          /\ Write(h, Idle)
     \/ /\ \A a \in Apps : status[a] # "NONE"
        /\ Return(h) /\ UNCHANGED <<status, owner, stale>>
  /\ UNCHANGED <<dossier, leases, listed, misscored, stops>>

\* Changes of all the files.
Changes == FoldFunction(LAMBDA x, y : x + y, 0, file)

\* Mutant: a file may be changed until the decision.
EditsLate(h, a, place) ==
  /\ Read(h, a, place)
  /\ status[a] \in {"DRAFT"} \cup InProgress /\ Changes < MaxEdits
  /\ UNCHANGED <<status, owner, dossier, leases, listed, stale, misscored, stops>>

\* saveDraft, upload and delete of a document all begin with a draft.
Edit(h, a, place) ==
  /\ Read(h, a, place)
  /\ status[a] = "DRAFT" /\ Changes < MaxEdits
  /\ UNCHANGED <<status, owner, dossier, leases, listed, stale, misscored, stops>>

\* The form, or a document other than the card.
Save(h) ==
  /\ At(h, "save")
  /\ file' = [file EXCEPT ![call[h].app] = @ + 1]
  /\ Write(h, Idle)
  /\ UNCHANGED <<status, owner, card, score, leases, listed, misscored, stops>>

\* upload: the card it replaces, if there is one, is deleted before the new
\* one is stored.
Upload(h) ==
  LET a == call[h].app
      next == [call[h] EXCEPT !.at = "store"] IN
  /\ At(h, "upload")
  /\ \/ /\ card[a] > 0
        /\ card' = [card EXCEPT ![a] = @ - 1]
        /\ file' = [file EXCEPT ![a] = @ + 1]
        /\ Write(h, next)
     \/ card[a] = 0 /\ Go(h, next) /\ UNCHANGED <<card, file, stale>>
  /\ UNCHANGED <<status, owner, score, leases, listed, misscored, stops>>

Store(h) ==
  LET a == call[h].app IN
  /\ At(h, "store")
  /\ card' = [card EXCEPT ![a] = @ + 1]
  /\ file' = [file EXCEPT ![a] = @ + 1]
  /\ Write(h, Idle)
  /\ UNCHANGED <<status, owner, score, leases, listed, misscored, stops>>

Remove(h) ==
  LET a == call[h].app IN
  /\ At(h, "remove")
  /\ \/ /\ card[a] > 0
        /\ card' = [card EXCEPT ![a] = @ - 1]
        /\ file' = [file EXCEPT ![a] = @ + 1]
        /\ Write(h, Idle)
     \/ card[a] = 0 /\ Return(h) /\ UNCHANGED <<card, file, stale>>
  /\ UNCHANGED <<status, owner, score, leases, listed, misscored, stops>>

-----------------------------------------------------------------------------
(* Submission and scoring. *)

\* submit reads a draft; validateForSubmit asks for an identity card.
Submit(h, a) ==
  /\ status[a] = "DRAFT" /\ card[a] > 0
  /\ Read(h, a, "submit")
  /\ UNCHANGED <<status, owner, dossier, leases, listed, stale, misscored, stops>>

Send(h) ==
  /\ At(h, "submit")
  /\ status' = [status EXCEPT ![call[h].app] = "PENDING"]
  /\ Write(h, [call[h] EXCEPT !.at = "announce"])
  /\ UNCHANGED <<owner, dossier, leases, listed, misscored, stops>>

\* Mutant: the scoring is left to the staff.
AnnounceOnly(h) ==
  /\ At(h, "announce")
  /\ status' = [status EXCEPT ![call[h].app] = "UNDER_REVIEW"]
  /\ Write(h, Idle)
  /\ UNCHANGED <<owner, dossier, leases, listed, misscored, stops>>

\* The staff is told, then the application is under review.
Announce(h) ==
  /\ At(h, "announce")
  /\ status' = [status EXCEPT ![call[h].app] = "UNDER_REVIEW"]
  /\ Write(h, [call[h] EXCEPT !.at = "score"])
  /\ UNCHANGED <<owner, dossier, leases, listed, misscored, stops>>

\* runAiScoring, on demand of the staff: any application.
Rescore(h, a) ==
  /\ status[a] # "NONE"
  /\ Read(h, a, "score")
  /\ UNCHANGED <<status, owner, dossier, leases, listed, stale, misscored, stops>>

Score(h) ==
  /\ At(h, "score")
  /\ Go(h, [call[h] EXCEPT !.at = "grade", !.seen = file[call[h].app]])
  /\ UNCHANGED <<status, owner, dossier, leases, listed, stale, misscored, stops>>

\* AI_SCORED is written whatever the status.
Grade(h) ==
  LET a == call[h].app IN
  /\ At(h, "grade")
  /\ status' = [status EXCEPT ![a] = "AI_SCORED"]
  /\ score' = [score EXCEPT ![a] = call[h].seen]
  /\ misscored' = IF status[a] \in InProgress THEN misscored
                                              ELSE misscored \cup {owner[a]}
  /\ Write(h, Idle)
  /\ UNCHANGED <<owner, file, card, leases, listed, stops>>

-----------------------------------------------------------------------------
(* Review and withdrawal. *)

\* Mutant: only a refused application is not reviewed again.
ReviewUnlessRejected(h, a) ==
  /\ status[a] \notin {"NONE", "REJECTED"}
  /\ Read(h, a, "review")
  /\ UNCHANGED <<status, owner, dossier, leases, listed, stale, misscored, stops>>

\* A draft or a withdrawn application may be reviewed as well.
Review(h, a) ==
  /\ status[a] \notin Decided \cup {"NONE"}
  /\ Read(h, a, "review")
  /\ UNCHANGED <<status, owner, dossier, leases, listed, stale, misscored, stops>>

Reject(h) ==
  /\ At(h, "review")
  /\ status' = [status EXCEPT ![call[h].app] = "REJECTED"]
  /\ Write(h, Idle)
  /\ UNCHANGED <<owner, dossier, leases, listed, misscored, stops>>

\* One transaction: a draft lease, the apartment OCCUPIED and unpublished, the
\* application ACCEPTED.  It fails when the applicant is another tenant already.
Accept(h) ==
  /\ At(h, "review")
  /\ \/ /\ status' = [status EXCEPT ![call[h].app] = "ACCEPTED"]
        /\ leases' = [leases EXCEPT ![call[h].app] = IF @ = 2 THEN 2 ELSE @ + 1]
        /\ listed' = FALSE
        /\ Write(h, Idle)
     \/ Return(h) /\ UNCHANGED <<status, leases, listed, stale>>
  /\ UNCHANGED <<owner, dossier, misscored, stops>>

Withdraw(h, a) ==
  /\ status[a] \notin Decided \cup {"WITHDRAWN", "NONE"}
  /\ Read(h, a, "withdraw")
  /\ UNCHANGED <<status, owner, dossier, leases, listed, stale, misscored, stops>>

WithdrawWrite(h) ==
  /\ At(h, "withdraw")
  /\ status' = [status EXCEPT ![call[h].app] = "WITHDRAWN"]
  /\ Write(h, Idle)
  /\ UNCHANGED <<owner, dossier, leases, listed, misscored, stops>>

-----------------------------------------------------------------------------
(* Surroundings. *)

\* The staff publishes the apartment again.
Relist ==
  /\ ~listed /\ listed' = TRUE
  /\ UNCHANGED <<status, owner, dossier, leases, call, stale, misscored, stops>>

\* A request fails half-way: an upload fails, a notice fails, the server dies.
\* One that fails before its first write is as if it had not begun; of the
\* others, those that leave an application without its score are counted.
Stop(h) ==
  LET a == call[h].app IN
  /\ Calm
  /\ \/ At(h, "store") /\ UNCHANGED stops
     \/ /\ call[h].at \in {"announce", "score", "grade"}
        /\ status[a] \in {"PENDING", "UNDER_REVIEW"}
        /\ Cardinality(stops) < MaxStops
        /\ stops' = stops \cup {a}
  /\ Return(h)
  /\ UNCHANGED <<status, owner, dossier, leases, listed, stale, misscored>>

Serve(h) ==
  \/ FindDraft(h) \/ CreateDraft(h) \/ Save(h) \/ Upload(h) \/ Store(h) \/ Remove(h)
  \/ Send(h) \/ Announce(h) \/ Score(h) \/ Grade(h)
  \/ Reject(h) \/ Accept(h) \/ WithdrawWrite(h)

Begin(h) ==
  /\ Calm
  /\ \/ \E p \in Applicants : Open(h, p)
     \/ \E a \in Apps :
          \/ \E place \in {"save", "upload", "remove"} : Edit(h, a, place)
          \/ Submit(h, a) \/ Rescore(h, a) \/ Review(h, a) \/ Withdraw(h, a)

Next == Relist \/ \E h \in Handlers : Begin(h) \/ Serve(h) \/ Stop(h)

Spec == Init /\ [][Next]_vars

\* A request that has begun goes on.
FairSpec == Spec /\ \A h \in Handlers : WF_vars(Serve(h))

-----------------------------------------------------------------------------
(* What must hold. *)

\* Type invariant.
TypeOK ==
  /\ status \in [Apps -> Statuses \cup {"NONE"}]
  /\ owner \in [Apps -> Applicants \cup {"nobody"}]
  /\ \A a \in Apps : status[a] = "NONE" <=> owner[a] = "nobody"
  /\ file \in [Apps -> Nat] /\ card \in [Apps -> Nat] /\ score \in [Apps -> Nat]
  /\ leases \in [Apps -> 0..2]
  /\ listed \in BOOLEAN
  /\ call \in [Handlers -> [at : Places, who : Applicants \cup {"nobody"},
                            app : 0..MaxApps, seen : Nat, held : BOOLEAN]]
  /\ stale \subseteq Applicants /\ misscored \subseteq Applicants
  /\ stops \subseteq Apps

\* No request wrote an application of p after others had undone what it had
\* checked, and none was scored when it was not in progress.  In both cases the
\* code writes all the same, anything may become of p's applications, and the
\* two properties below say nothing of them.
Undisturbed(p) == p \notin stale \cup misscored

\* "Cette demande a deja ete traitee" (review), for an undisturbed applicant:
\* an application has a lease if and only if it is accepted, and one, through
\* the editions, submissions, scorings, reviews and withdrawals of any of his
\* applications.
OneLeaseEach ==
  \A a \in Apps : Undisturbed(owner[a]) =>
    leases[a] = (IF status[a] = "ACCEPTED" THEN 1 ELSE 0)

\* What the staff decides on is sound, for an undisturbed applicant: the
\* application is the only one of its applicant ("Vous avez deja une candidature
\* en cours pour ce logement", getOrCreateDraft), it has its identity card
\* (validateForSubmit), and its score is that of the file (runAiScoring).  Each
\* comes from a check made by another request, several steps earlier.
InProgressIsSound ==
  \A a \in Apps : status[a] \in InProgress /\ Undisturbed(owner[a]) =>
    /\ \A b \in Apps : owner[b] = owner[a] /\ status[b] \in InProgress \cup {"DRAFT"} => b = a
    /\ card[a] > 0
    /\ status[a] = "AI_SCORED" => score[a] = file[a]

\* A submitted application gets its score, unless its submission fails half-way
\* (submit cannot be repeated) or the application is decided or withdrawn first.
Scored ==
  \A a \in Apps :
    status[a] = "PENDING" ~> (status[a] \notin {"PENDING", "UNDER_REVIEW"} \/ a \in stops)

=============================================================================
