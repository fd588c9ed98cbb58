---------------------------- MODULE TrialClaims ----------------------------
(***************************************************************************)
(* One free trial per e-mail and per telephone: SubscriptionService.       *)
(* startTrial, run inside the transaction that creates an account, while   *)
(* other accounts are being created.  The transaction looks for a claim    *)
(* on its keys, and if it sees none inserts its own, skipping duplicates;  *)
(* the trial is granted when every key could be inserted.                  *)
(*                                                                         *)
(* The database (external) runs at READ COMMITTED: a query sees committed  *)
(* rows only; an insert that meets a row another transaction has not yet   *)
(* committed waits for that transaction to end, and the rows of one        *)
(* createMany are inserted in order, the e-mail first.  Keys are already   *)
(* normalised and hashed; an account may have no telephone.                *)
(***************************************************************************)
EXTENDS FiniteSets

CONSTANTS Signups, Mails, Phones, NoPhone, Nobody

ASSUME ClaimsAssumption ==
  /\ NoPhone \notin Mails \cup Phones
  /\ Nobody \notin Signups

Keys == Mails \cup Phones

VARIABLES
  email, phone,  \* keys of each sign-up
  pc,            \* place of each transaction
  missed,        \* sign-ups that found a key taken
  claims         \* owner of the claim on each key, committed or not

trialVars == <<email, phone, pc, missed, claims>>

KeysOf(s) == {email[s], phone[s]} \ {NoPhone}

Committed == {"trial", "refused"}
Ended == Committed \cup {"aborted"}

---------------------------------------------------------------------------

TrialInit ==
  /\ email \in [Signups -> Mails]
  /\ phone \in [Signups -> Phones \cup {NoPhone}]
  /\ pc = [s \in Signups |-> "look"]
  /\ missed = {}
  /\ claims = [k \in Keys |-> Nobody]

Goto(s, from, to) == pc[s] = from /\ pc' = [pc EXCEPT ![s] = to]

\* Mutant: only the claims of trials are seen.
VisibleOfTrials(k) == claims[k] # Nobody /\ pc[claims[k]] = "trial"

\* The claim on k is there for every transaction to see.
Visible(k) == claims[k] # Nobody /\ pc[claims[k]] \in Committed

\* findFirst: an account whose keys have served is created without a trial.
LookUp(s) ==
  /\ LET used == \E k \in KeysOf(s) : Visible(k)
     IN  /\ Goto(s, "look", IF used THEN "decided" ELSE "email")
         /\ missed' = IF used THEN missed \cup {s} ELSE missed
  /\ UNCHANGED <<email, phone, claims>>

\* Mutant: the rows skipped are not missed.
InsertUncounted(s, k) ==
  \/ claims[k] = Nobody /\ claims' = [claims EXCEPT ![k] = s] /\ UNCHANGED missed
  \/ Visible(k) /\ UNCHANGED <<claims, missed>>

\* createMany, one row: inserted, skipped if the key is taken, and waiting
\* (disabled) while the row that holds the key is not committed.
Insert(s, k) ==
  \/ claims[k] = Nobody /\ claims' = [claims EXCEPT ![k] = s] /\ UNCHANGED missed
  \/ Visible(k) /\ missed' = missed \cup {s} /\ UNCHANGED claims

ClaimEmail(s) ==
  /\ Goto(s, "email", IF phone[s] = NoPhone THEN "decided" ELSE "phone")
  /\ Insert(s, email[s])
  /\ UNCHANGED <<email, phone>>

ClaimPhone(s) ==
  /\ Goto(s, "phone", "decided")
  /\ Insert(s, phone[s])
  /\ UNCHANGED <<email, phone>>

\* The account, its subscription and its claims are committed.
Commit(s) ==
  /\ Goto(s, "decided", IF s \in missed THEN "refused" ELSE "trial")
  /\ UNCHANGED <<email, phone, missed, claims>>

\* The account cannot be created: its claims go with the transaction.
Abort(s) ==
  /\ pc[s] \notin Ended
  /\ pc' = [pc EXCEPT ![s] = "aborted"]
  /\ claims' = [k \in Keys |-> IF claims[k] = s THEN Nobody ELSE claims[k]]
  /\ UNCHANGED <<email, phone, missed>>

Advance(s) == LookUp(s) \/ ClaimEmail(s) \/ ClaimPhone(s) \/ Commit(s)

TrialNext == \E s \in Signups : Advance(s) \/ Abort(s)

TrialSpec == TrialInit /\ [][TrialNext]_trialVars

\* A transaction goes on as long as the database does not make it wait.
FairTrialSpec == TrialSpec /\ \A s \in Signups : WF_trialVars(Advance(s))

---------------------------------------------------------------------------
\* Properties.

TrialTypeOK ==
  /\ email \in [Signups -> Mails]
  /\ phone \in [Signups -> Phones \cup {NoPhone}]
  /\ pc \in [Signups -> {"look", "email", "phone", "decided"} \cup Ended]
  /\ missed \subseteq Signups
  /\ claims \in [Keys -> Signups \cup {Nobody}]

\* Two accounts that share an e-mail or a telephone never both have a trial,
\* however their creations interleave.
OneTrialPerKey ==
  \A s, t \in Signups :
    s # t /\ pc[s] = "trial" /\ pc[t] = "trial" => KeysOf(s) \cap KeysOf(t) = {}

\* A trial is refused only because another account, which exists, claimed one
\* of the keys; an account that was never created refuses nobody.
RefusedForCause ==
  \A s \in Signups : pc[s] = "refused" =>
    \E k \in KeysOf(s) : claims[k] # s /\ Visible(k)

\* Transactions that wait for each other's keys all end: there is no circular wait.
EverySignupEnds == \A s \in Signups : <>(pc[s] \in Ended)

=============================================================================
