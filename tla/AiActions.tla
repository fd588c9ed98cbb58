----------------------------- MODULE AiActions -----------------------------
(***************************************************************************)
(* What the assistant proposes and what it then does: the rows of          *)
(* ai_pending_actions (ai.pending-actions.ts), their confirmation and      *)
(* cancellation (AiService), and the automation runs of AiAutomationService *)
(* which a confirmation executes.  An action about an automation is the     *)
(* approval of the run of that key (one run per kind and day); a           *)
(* "single" stands for every action with one effect (messages, batches,    *)
(* tickets, assignments, documents); a "lease" is created, may be activated *)
(* and is then offered as a document.                                      *)
(*                                                                         *)
(* Every query is a step of its own, except that the purge of expired rows *)
(* is one with the query that follows it.  Requests about an action of     *)
(* another user are refused and change nothing: they are left out.         *)
(* Bounds: MaxIds, MaxCrashes.                                             *)
(***************************************************************************)
EXTENDS Naturals, FiniteSets

CONSTANTS
  Handlers,     \* requests being served
  Keys,         \* idempotency keys of automation runs
  Drafts,       \* number of drafts of a run's proposal
  MaxIds,       \* pending actions created
  MaxCrashes    \* requests that die half-way

ASSUME ActionsAssumption ==
  /\ IsFiniteSet(Handlers) /\ Drafts \in Nat
  /\ Keys \cap {"single", "lease", "none"} = {}
  /\ MaxIds \in Nat /\ MaxCrashes \in Nat

Ids      == 1..MaxIds
Batch    == 1..Drafts
Direct   == {"single", "lease"}
Subjects == Keys \cup Direct

VARIABLES
  row,       \* ai_pending_actions: "free", "live", "expired" or "deleted"
  subject,   \* what the action is about
  fate,      \* history: how the action ended
  run,       \* ai_automation_runs: status of the run of each key, or "NONE"
  call,      \* requests in progress
  sent,      \* history: times each draft of a run left
  done,      \* history: times the effect of a direct action happened
  told,      \* what the user was told of a lease
  calm,      \* history: FALSE once an execution of the run was disturbed
  ruled,     \* history: executions of the run a rule with autoExecute asked for
  crashes

vars    == <<row, subject, fate, run, call, sent, done, told, calm, ruled, crashes>>
pending == <<row, subject, fate>>
runs    == <<run, sent, calm, ruled>>
effects == <<done, told>>

Places == {"idle", "write", "offer", "delete", "cancel", "act",
           "activate", "pdf", "approve", "mark", "send"}

\* A request: its step, the action and the key it is about, the status of the
\* run it read, and of executeRun the next draft and the counts.
Idle == [at |-> "idle", id |-> 0, key |-> "none", seen |-> "NONE",
         next |-> 1, ok |-> 0, bad |-> 0]

Init ==
  /\ row = [i \in Ids |-> "free"]
  /\ subject = [i \in Ids |-> "none"]
  /\ fate = [i \in Ids |-> "unborn"]
  /\ run = [k \in Keys |-> "NONE"]
  /\ call = [h \in Handlers |-> Idle]
  /\ sent = [k \in Keys |-> [d \in Batch |-> 0]]
  /\ done = [i \in Ids |-> 0]
  /\ told = [i \in Ids |-> "nothing"]
  /\ calm = [k \in Keys |-> TRUE]
  /\ ruled = [k \in Keys |-> 0]
  /\ crashes = 0

At(h, place) == call[h].at = place
Go(h, next)  == call' = [call EXCEPT ![h] = next]
Return(h)    == Go(h, Idle)

-----------------------------------------------------------------------------
(* Pending actions. *)

\* The row's time to live ends.
Expire(i) ==
  /\ row[i] = "live"
  /\ row' = [row EXCEPT ![i] = "expired"]
  /\ UNCHANGED <<subject, fate, runs, call, effects, crashes>>

Purged     == [i \in Ids |-> IF row[i] = "expired" THEN "deleted" ELSE row[i]]
PurgedFate == [i \in Ids |-> IF row[i] = "expired" THEN "lapsed" ELSE fate[i]]

Purge == row' = Purged /\ fate' = PurgedFate /\ UNCHANGED subject

\* A request that finds nothing to confirm or cancel has purged all the same.
Look ==
  /\ \E i \in Ids : row[i] = "expired"
  /\ Purge
  /\ UNCHANGED <<runs, call, effects, crashes>>

\* purgeExpired, then the new row.
Create(i, s) ==
  /\ row[i] = "free" /\ \A j \in 1..(i - 1) : row[j] # "free"
  /\ row' = [Purged EXCEPT ![i] = "live"]
  /\ fate' = [PurgedFate EXCEPT ![i] = "open"]
  /\ subject' = [subject EXCEPT ![i] = s]

\* Mutant: deleting a row that is gone is no error.
DropQuietly(i, end) ==
  /\ row' = [row EXCEPT ![i] = "deleted"]
  /\ fate' = [fate EXCEPT ![i] = end]
  /\ UNCHANGED subject

\* The delete of a row that was read before: it throws when the row is gone.
Drop(i, end) ==
  /\ row[i] \in {"live", "expired"}
  /\ row' = [row EXCEPT ![i] = "deleted"]
  /\ fate' = [fate EXCEPT ![i] = end]
  /\ UNCHANGED subject

\* A tool of the assistant proposes an action.
Ask(h, s) ==
  /\ At(h, "idle") /\ s \in Direct
  /\ \E i \in Ids : Create(i, s)
  /\ UNCHANGED <<runs, call, effects, crashes>>

-----------------------------------------------------------------------------
(* Proposal of an automation run: propose. *)

Done == {"SUCCEEDED", "PARTIAL"}

\* detect and the look-up of the run of the day.  With nothing detected, a run
\* that is done or one that is executing (ensurePendingForRun gives it no
\* action), the answer proposes nothing.
Propose(h, k) ==
  /\ At(h, "idle")
  /\ \/ /\ run[k] = "PROPOSED"
        /\ Go(h, [Idle EXCEPT !.at = "offer", !.key = k, !.seen = "PROPOSED"])
     \/ /\ run[k] \notin Done \cup {"PROPOSED", "EXECUTING"}
        /\ Go(h, [Idle EXCEPT !.at = "write", !.key = k, !.seen = run[k]])
     \/ UNCHANGED call
  /\ UNCHANGED <<pending, runs, effects, crashes>>

\* The insert fails when the key has a run by now; the update of a failed run
\* does not look at what the run has become.
ProposeWrite(h) ==
  LET k == call[h].key IN
  /\ At(h, "write")
  /\ \/ /\ call[h].seen = "NONE" /\ run[k] # "NONE"
        /\ Return(h) /\ UNCHANGED <<run, calm>>
     \/ /\ call[h].seen = "NONE" => run[k] = "NONE"
        /\ Go(h, [call[h] EXCEPT !.at = "offer"])
        /\ run' = [run EXCEPT ![k] = "PROPOSED"]
        /\ calm' = [calm EXCEPT ![k] = @ /\ run[k] = call[h].seen]
  /\ UNCHANGED <<pending, sent, ruled, effects, crashes>>

\* The pending action.  The insert may fail.  When a rule with autoExecute is
\* enabled at that moment a new proposal is executed at once, and its pending
\* action stays.
ProposeOffer(h) ==
  LET k == call[h].key IN
  /\ At(h, "offer")
  /\ \/ Return(h) /\ UNCHANGED <<pending, ruled>>
     \/ /\ \E i \in Ids : Create(i, k)
        /\ Return(h) /\ UNCHANGED ruled
     \/ /\ call[h].seen # "PROPOSED"
        /\ \E i \in Ids : Create(i, k)
        /\ ruled' = [ruled EXCEPT ![k] = @ + 1]
        /\ Go(h, [Idle EXCEPT !.at = "approve", !.key = k])
  /\ UNCHANGED <<run, sent, calm, effects, crashes>>

-----------------------------------------------------------------------------
(* Confirmation and cancellation. *)

\* confirmAction peeks (purge, owner, expiry) and checks the permission; then
\* consumePendingAction reads the row again in the same way.  A request refused
\* at either is a Look, so this is the second read.
Confirm(h, i) ==
  /\ At(h, "idle") /\ row[i] = "live"
  /\ Purge
  /\ Go(h, [Idle EXCEPT !.at = "delete", !.id = i])
  /\ UNCHANGED <<runs, effects, crashes>>

\* Deleting the row decides between two confirmations.
ConsumeDelete(h) ==
  LET i == call[h].id s == subject[i] IN
  /\ At(h, "delete")
  /\ Drop(i, "confirmed")
  /\ IF s \in Keys THEN Go(h, [Idle EXCEPT !.at = "approve", !.key = s])
                   ELSE Go(h, [call[h] EXCEPT !.at = "act"])
  /\ UNCHANGED <<runs, effects, crashes>>

CancelRead(h, i) ==
  /\ At(h, "idle") /\ row[i] = "live"
  /\ Purge
  /\ Go(h, [Idle EXCEPT !.at = "cancel", !.id = i])
  /\ UNCHANGED <<runs, effects, crashes>>

CancelDelete(h) ==
  /\ At(h, "cancel")
  /\ Drop(call[h].id, "cancelled")
  /\ Return(h)
  /\ UNCHANGED <<runs, effects, crashes>>

\* The delete of either request finds no row: an error, nothing is done.
DeleteFails(h) ==
  /\ call[h].at \in {"delete", "cancel"} /\ row[call[h].id] = "deleted"
  /\ Return(h)
  /\ UNCHANGED <<pending, runs, effects, crashes>>

-----------------------------------------------------------------------------
(* Direct actions: what was consumed is tried once. *)

Act(h) ==
  LET i == call[h].id IN
  /\ At(h, "act") /\ subject[i] = "single"
  /\ \/ done' = [done EXCEPT ![i] = @ + 1]
     \/ UNCHANGED done                     \* the service refuses or fails
  /\ Return(h)
  /\ UNCHANGED <<pending, runs, told, crashes>>

\* executeCreateLease: every failure, after the lease is created too, is told
\* as a lease that could not be created.
CreateLease(h) ==
  LET i == call[h].id IN
  /\ At(h, "act") /\ subject[i] = "lease"
  /\ \/ /\ done' = [done EXCEPT ![i] = @ + 1]
        /\ \E next \in {"activate", "pdf"} : Go(h, [call[h] EXCEPT !.at = next])
        /\ UNCHANGED told
     \/ /\ told' = [told EXCEPT ![i] = "impossible"]
        /\ Return(h) /\ UNCHANGED done
  /\ UNCHANGED <<pending, runs, crashes>>

ActivateLease(h) ==
  /\ At(h, "activate")
  /\ \/ Go(h, [call[h] EXCEPT !.at = "pdf"]) /\ UNCHANGED told
     \/ /\ told' = [told EXCEPT ![call[h].id] = "impossible"]
        /\ Return(h)
  /\ UNCHANGED <<pending, runs, done, crashes>>

OfferPdf(h) ==
  /\ At(h, "pdf")
  /\ \/ /\ \E i \in Ids : Create(i, "single")
        /\ told' = [told EXCEPT ![call[h].id] = "created"]
     \/ /\ told' = [told EXCEPT ![call[h].id] = "impossible"]
        /\ UNCHANGED pending
  /\ Return(h)
  /\ UNCHANGED <<runs, done, crashes>>

-----------------------------------------------------------------------------
(* Execution of a run: approveAndExecute, executeRun. *)

\* A run that succeeded, also in part, is reported as done; the permission is
\* checked again and may have been withdrawn.
ApproveRead(h) ==
  /\ At(h, "approve")
  /\ \/ Return(h)
     \/ /\ run[call[h].key] \notin Done
        /\ Go(h, [call[h] EXCEPT !.at = "mark"])
  /\ UNCHANGED <<pending, runs, effects, crashes>>

\* EXECUTING is written whatever the run has become.
ApproveMark(h) ==
  LET k == call[h].key IN
  /\ At(h, "mark")
  /\ run' = [run EXCEPT ![k] = "EXECUTING"]
  /\ calm' = [calm EXCEPT ![k] = @ /\ run[k] \in {"PROPOSED", "FAILED"}]
  /\ Go(h, [call[h] EXCEPT !.at = "send"])
  /\ UNCHANGED <<pending, sent, ruled, effects, crashes>>

\* One draft: done and verified; failed; skipped (a navigation); or done but
\* counted as failed, when what follows the sending fails.
SendDraft(h) ==
  LET k == call[h].key  d == call[h].next  left == [call[h] EXCEPT !.next = @ + 1] IN
  /\ At(h, "send") /\ d <= Drafts
  /\ \/ /\ sent' = [sent EXCEPT ![k][d] = @ + 1]
        /\ Go(h, [left EXCEPT !.ok = @ + 1])
        /\ UNCHANGED calm
     \/ Go(h, [left EXCEPT !.bad = @ + 1]) /\ UNCHANGED <<sent, calm>>
     \/ Go(h, left) /\ UNCHANGED <<sent, calm>>
     \/ /\ sent' = [sent EXCEPT ![k][d] = @ + 1]
        /\ Go(h, [left EXCEPT !.bad = @ + 1])
        /\ calm' = [calm EXCEPT ![k] = FALSE]
  /\ UNCHANGED <<pending, run, ruled, effects, crashes>>

\* Mutant: no failure is a success, also when nothing was sent.
OutcomeKind(ok, bad) == IF bad = 0 THEN "SUCCEEDED" ELSE IF ok = 0 THEN "FAILED" ELSE "PARTIAL"

Outcome(ok, bad) ==
  IF ok = 0 THEN "FAILED" ELSE IF bad = 0 THEN "SUCCEEDED" ELSE "PARTIAL"

\* Mutant: a run in which nothing succeeded is left as it is.
FinishSome(h) ==
  LET k == call[h].key IN
  /\ At(h, "send") /\ call[h].next > Drafts
  /\ run' = IF call[h].ok = 0 THEN run ELSE [run EXCEPT ![k] = "SUCCEEDED"]
  /\ Return(h)
  /\ UNCHANGED <<pending, sent, calm, ruled, effects, crashes>>

Finish(h) ==
  LET k == call[h].key IN
  /\ At(h, "send") /\ call[h].next > Drafts
  /\ run' = [run EXCEPT ![k] = Outcome(call[h].ok, call[h].bad)]
  /\ Return(h)
  /\ UNCHANGED <<pending, sent, calm, ruled, effects, crashes>>

\* The result cannot be recorded, and the handler of the exception records a
\* failure.
FinishFails(h) ==
  LET k == call[h].key IN
  /\ At(h, "send") /\ call[h].next > Drafts
  /\ run' = [run EXCEPT ![k] = "FAILED"]
  /\ calm' = [calm EXCEPT ![k] = FALSE]
  /\ Return(h)
  /\ UNCHANGED <<pending, sent, ruled, effects, crashes>>

\* The server dies, or a query fails: the request stops where it is, and a
\* run it was executing stays EXECUTING.
Crash(h) ==
  /\ crashes < MaxCrashes /\ ~At(h, "idle")
  /\ crashes' = crashes + 1
  /\ Return(h)
  /\ calm' = IF At(h, "send") THEN [calm EXCEPT ![call[h].key] = FALSE] ELSE calm
  /\ UNCHANGED <<pending, run, sent, ruled, effects>>

-----------------------------------------------------------------------------

Serve(h) ==
  \/ ProposeWrite(h) \/ ProposeOffer(h)
  \/ ConsumeDelete(h) \/ CancelDelete(h) \/ DeleteFails(h)
  \/ Act(h) \/ CreateLease(h) \/ ActivateLease(h) \/ OfferPdf(h)
  \/ ApproveRead(h) \/ ApproveMark(h)
  \/ SendDraft(h) \/ Finish(h) \/ FinishFails(h)

Next ==
  \/ Look
  \/ \E i \in Ids : Expire(i)
  \/ \E h \in Handlers :
       \/ \E s \in Subjects : Ask(h, s)
       \/ \E k \in Keys : Propose(h, k)
       \/ \E i \in Ids : Confirm(h, i) \/ CancelRead(h, i)
       \/ Serve(h) \/ Crash(h)

Spec == Init /\ [][Next]_vars

\* A request that is being served goes on.
FairSpec == Spec /\ \A h \in Handlers : WF_vars(Serve(h))

-----------------------------------------------------------------------------
(* What must hold. *)

Handling == [at : Places, id : 0..MaxIds, key : Keys \cup {"none"},
             seen : {"NONE", "PROPOSED", "FAILED"}, next : 1..(Drafts + 1),
             ok : Nat, bad : Nat]

\* Type invariant.
TypeOK ==
  /\ row \in [Ids -> {"free", "live", "expired", "deleted"}]
  /\ subject \in [Ids -> Subjects \cup {"none"}]
  /\ fate \in [Ids -> {"unborn", "open", "confirmed", "cancelled", "lapsed"}]
  /\ run \in [Keys -> {"NONE", "PROPOSED", "EXECUTING", "FAILED"} \cup Done]
  /\ call \in [Handlers -> Handling]
  /\ sent \in [Keys -> [Batch -> Nat]]
  /\ done \in [Ids -> Nat]
  /\ told \in [Ids -> {"nothing", "created", "impossible"}]
  /\ calm \in [Keys -> BOOLEAN] /\ ruled \in [Keys -> Nat]
  /\ crashes \in 0..MaxCrashes

\* However the confirmations, the cancellations and the purges of several
\* requests interleave, a proposed action ends once (consumePendingAction).
O == INSTANCE OneShot
EndsOnce == O!Spec

Confirmed(k) == {i \in Ids : subject[i] = k /\ fate[i] = "confirmed"}

\* "Never silent-sends unless an enabled rule has autoExecute=true"
\* (detectAndPropose): a draft leaves at most once for each confirmation of its
\* run and each execution a rule asked for, and a direct action takes effect at
\* most once, after its confirmation.
NeverSilent ==
  /\ \A k \in Keys, d \in Batch : sent[k][d] <= Cardinality(Confirmed(k)) + ruled[k]
  /\ \A i \in Ids : done[i] > 0 => done[i] = 1 /\ fate[i] = "confirmed"

\* Until an execution is disturbed (overlapped by another one, stopped
\* half-way, unable to record its end, or unsure of what it sent) a draft is
\* sent at most once, however often the run is proposed and approved, and the
\* recorded status tells what was sent (approveAndExecute): a failed run may be
\* proposed again because nothing left, a partial or succeeded one may not
\* because something did.
StatusTellsWhatLeft ==
  \A k \in Keys : calm[k] =>
    /\ \A d \in Batch : sent[k][d] <= 1
    /\ run[k] \in {"NONE", "PROPOSED", "FAILED"} => \A d \in Batch : sent[k][d] = 0
    /\ run[k] \in Done => \E d \in Batch : sent[k][d] = 1

\* An execution that is not disturbed ends with a recorded result.
ExecutionEnds ==
  \A k \in Keys : run[k] = "EXECUTING" ~> (run[k] # "EXECUTING" \/ ~calm[k])

\* "Contrat créé" (executeCreateLease): the user who is told so, two steps after
\* the creation, has one new lease. (Who is told "Impossible de créer le
\* contrat" may have one too, as a draft.)
CreatedMeansLease == \A i \in Ids : told[i] = "created" => done[i] = 1

=============================================================================
