-------------------------- MODULE AiActions_proofs --------------------------
(***************************************************************************)
(* What TLAPS proves of AiActions, for any number of requests, automation  *)
(* runs, drafts and pending actions: a proposed action ends once           *)
(* (refinement of OneShot), nothing is done or sent without having been    *)
(* asked for, and an execution that is not disturbed sends a draft once    *)
(* and records what it sent.  Then, of the quota those requests draw on    *)
(* (AiQuota): the use of a month is counted and stays within its limit.    *)
(***************************************************************************)
EXTENDS AiActions, AiQuota, FiniteSetTheorems, TLAPS

AboutRun == {"write", "offer", "approve", "mark", "send"}
AboutRow == {"delete", "cancel", "act", "activate", "pdf"}

\* A request is about the run or the action its step needs.
Placed ==
  \A h \in Handlers :
    /\ call[h].at \in AboutRun => call[h].key \in Keys
    /\ call[h].at \in AboutRow => call[h].id \in Ids /\ subject[call[h].id] \in Subjects

\* Each state of a row has its fates.
RowFate ==
  \A i \in Ids :
    /\ row[i] = "free" <=> fate[i] = "unborn"
    /\ row[i] \in {"live", "expired"} <=> fate[i] = "open"
    /\ row[i] # "free" => subject[i] \in Subjects

\* One request acts on a confirmed action, and before it nothing was done.
Acting ==
  \A h \in Handlers : At(h, "act") =>
    /\ fate[call[h].id] = "confirmed"
    /\ done[call[h].id] = 0
    /\ \A g \in Handlers : At(g, "act") /\ call[g].id = call[h].id => g = h

DirectOnce == \A i \in Ids : done[i] > 0 => done[i] = 1 /\ fate[i] = "confirmed"

Executing(h, k) == At(h, "send") /\ call[h].key = k

Unsent(k) == \A d \in Batch : sent[k][d] = 0

\* What an execution that is not disturbed knows of what it sent.
Execution(h, k) ==
  /\ run[k] = "EXECUTING"
  /\ \A d \in Batch : d >= call[h].next => sent[k][d] = 0
  /\ call[h].ok = 0 => Unsent(k)
  /\ call[h].ok > 0 => \E d \in Batch : sent[k][d] = 1
  /\ \A g \in Handlers : Executing(g, k) => g = h

RunTold(k) ==
  calm[k] =>
    /\ \A d \in Batch : sent[k][d] <= 1
    /\ run[k] \in {"NONE", "PROPOSED", "FAILED"} => Unsent(k)
    /\ run[k] \in Done => \E d \in Batch : sent[k][d] = 1
    /\ \A h \in Handlers : Executing(h, k) => Execution(h, k)

\* An execution begins with nothing counted.
Fresh == \A h \in Handlers : call[h].at \in {"approve", "mark"} => call[h].ok = 0

Undisturbed == Fresh /\ \A k \in Keys : RunTold(k)

\* Requests that may still send draft d of the run of k.
Senders(k, d) ==
  {h \in Handlers : /\ call[h].key = k
                    /\ \/ call[h].at \in {"approve", "mark"}
                       \/ At(h, "send") /\ call[h].next <= d}

\* Every sending, past or to come, has been asked for.
AskedFor(k, d) ==
  sent[k][d] + Cardinality(Senders(k, d)) <= Cardinality(Confirmed(k)) + ruled[k]

Asked == \A k \in Keys, d \in Batch : AskedFor(k, d)

Rows  == TypeOK /\ Placed /\ RowFate
\* Between the creation of a lease and the answer, the lease exists.
ToldOfLease ==
  /\ \A h \in Handlers : call[h].at \in {"activate", "pdf"} => done[call[h].id] = 1
  /\ CreatedMeansLease

IInv  == Rows /\ Acting /\ DirectOnce /\ ToldOfLease /\ Undisturbed /\ Asked

-----------------------------------------------------------------------------
(* Types, and the rows with their fates. *)

LEMMA RowsInit == Init => Rows
<1> SUFFICES ASSUME Init PROVE Rows
  OBVIOUS
<1> USE ActionsAssumption
<1>1. Idle \in Handling /\ Idle.at = "idle"
  BY DEF Idle, Handling, Places
<1>2. TypeOK
  BY <1>1 DEF Init, TypeOK, Done
<1>3. Placed
  BY <1>1 DEF Init, Placed, AboutRun, AboutRow
<1>4. RowFate
  BY DEF Init, RowFate
<1> QED  BY <1>2, <1>3, <1>4 DEF Rows

\* What a request of the assistant leaves of the rows.
LEMMA PurgeRows ==
  ASSUME Rows, Purge
  PROVE  /\ row' \in [Ids -> {"free", "live", "expired", "deleted"}]
         /\ fate' \in [Ids -> {"unborn", "open", "confirmed", "cancelled", "lapsed"}]
         /\ RowFate'
  BY DEF Rows, TypeOK, Purge, Purged, PurgedFate, RowFate

LEMMA CreateRows ==
  ASSUME Rows, NEW i \in Ids, NEW s \in Subjects, Create(i, s)
  PROVE  /\ row' \in [Ids -> {"free", "live", "expired", "deleted"}]
         /\ fate' \in [Ids -> {"unborn", "open", "confirmed", "cancelled", "lapsed"}]
         /\ subject' \in [Ids -> Subjects \cup {"none"}]
         /\ RowFate'
         /\ \A j \in Ids : subject[j] \in Subjects => subject'[j] \in Subjects
  BY DEF Rows, TypeOK, Create, Purged, PurgedFate, RowFate

LEMMA DropRows ==
  ASSUME Rows, NEW i \in Ids, NEW end \in {"confirmed", "cancelled"}, Drop(i, end)
  PROVE  /\ row' \in [Ids -> {"free", "live", "expired", "deleted"}]
         /\ fate' \in [Ids -> {"unborn", "open", "confirmed", "cancelled", "lapsed"}]
         /\ RowFate'
  BY DEF Rows, TypeOK, Drop, RowFate

\* A request that moves on, and changes neither the rows nor what they are
\* about, keeps the other requests where they are.
LEMMA GoPlaced ==
  ASSUME Rows, NEW h \in Handlers, NEW next \in Handling, Go(h, next),
         next.at \in AboutRun => next.key \in Keys,
         next.at \in AboutRow => next.id \in Ids /\ subject'[next.id] \in Subjects,
         \A i \in Ids : subject[i] \in Subjects => subject'[i] \in Subjects
  PROVE  call' \in [Handlers -> Handling] /\ Placed'
<1>1. call' \in [Handlers -> Handling]
  BY DEF Rows, TypeOK, Go
<1>2. ASSUME NEW g \in Handlers, g # h PROVE call'[g] = call[g]
  BY <1>2 DEF Rows, TypeOK, Go
<1>3. call'[h] = next
  BY DEF Rows, TypeOK, Go
<1> QED  BY <1>1, <1>2, <1>3 DEF Rows, Placed

LEMMA ReturnPlaced ==
  ASSUME Rows, NEW h \in Handlers, Return(h),
         \A i \in Ids : subject[i] \in Subjects => subject'[i] \in Subjects
  PROVE  call' \in [Handlers -> Handling] /\ Placed'
<1>1. /\ Idle \in Handling /\ Idle.at = "idle"
  BY ActionsAssumption DEF Idle, Handling, Places
<1> QED  BY <1>1, GoPlaced DEF Return, AboutRun, AboutRow

LEMMA RowsServe ==
  ASSUME Rows, NEW h \in Handlers, Serve(h)
  PROVE  Rows'
<1> USE ActionsAssumption
<1> USE DEF pending, runs, effects
<1>t. TypeOK /\ Placed /\ RowFate
  BY DEF Rows
<1>h. call[h] \in Handling
  BY <1>t DEF TypeOK
<1>i. Idle \in Handling /\ Idle.at = "idle" /\ Idle.seen = "NONE"
  BY DEF Idle, Handling, Places
<1>k. /\ At(h, "write") => call[h].key \in Keys
      /\ At(h, "offer") => call[h].key \in Keys
      /\ At(h, "approve") => call[h].key \in Keys
      /\ At(h, "mark") => call[h].key \in Keys
      /\ At(h, "send") => call[h].key \in Keys
      /\ At(h, "delete") => call[h].id \in Ids /\ subject[call[h].id] \in Subjects
      /\ At(h, "cancel") => call[h].id \in Ids
      /\ At(h, "act") => call[h].id \in Ids /\ subject[call[h].id] \in Subjects
      /\ At(h, "activate") => call[h].id \in Ids /\ subject[call[h].id] \in Subjects
      /\ At(h, "pdf") => call[h].id \in Ids
  BY <1>t DEF Placed, At, AboutRun, AboutRow
<1>r. UNCHANGED pending => RowFate'
  BY <1>t DEF RowFate
<1>1. CASE ProposeWrite(h)
  <2>1. CASE Return(h) /\ UNCHANGED <<run, calm>>
    BY <1>t, <1>r, <1>1, <2>1, ReturnPlaced DEF ProposeWrite, Rows, TypeOK
  <2>2. CASE ~(Return(h) /\ UNCHANGED <<run, calm>>)
    <3> DEFINE next == [call[h] EXCEPT !.at = "offer"]
    <3>1. Go(h, next)
      BY <1>1, <2>2 DEF ProposeWrite
    <3>2. next \in Handling /\ next.at = "offer" /\ next.key \in Keys
      BY <1>1, <1>h, <1>k DEF Handling, Places, ProposeWrite
    <3>3. call' \in [Handlers -> Handling] /\ Placed'
      <4> HIDE DEF next
      <4> QED  BY <1>1, <3>1, <3>2, GoPlaced DEF ProposeWrite, AboutRow
    <3>4. run' \in [Keys -> {"NONE", "PROPOSED", "EXECUTING", "FAILED"} \cup Done]
      BY <1>1, <1>t, <2>2 DEF ProposeWrite, TypeOK
    <3>5. calm' \in [Keys -> BOOLEAN]
      <4> DEFINE same == calm[call[h].key] /\ run[call[h].key] = call[h].seen
      <4>1. calm' = [calm EXCEPT ![call[h].key] = same]
        BY <1>1, <2>2, Zenon DEF ProposeWrite
      <4>2. same \in BOOLEAN
        BY Zenon
      <4> HIDE DEF same
      <4> QED  BY <1>t, <4>1, <4>2 DEF TypeOK
    <3> QED  BY <1>t, <1>r, <1>1, <3>3, <3>4, <3>5 DEF ProposeWrite, Rows, TypeOK
  <2> QED  BY <2>1, <2>2
<1>2. CASE ProposeOffer(h)
  <2>k. call[h].key \in Keys /\ call[h].key \in Subjects
    BY <1>2, <1>k DEF ProposeOffer, Subjects
  <2>1. CASE Return(h) /\ UNCHANGED <<pending, ruled>>
    BY <1>t, <1>r, <1>2, <2>1, ReturnPlaced DEF ProposeOffer, Rows, TypeOK
  <2>2. CASE (\E i \in Ids : Create(i, call[h].key)) /\ Return(h) /\ UNCHANGED ruled
    <3>1. PICK i \in Ids : Create(i, call[h].key)
      BY <2>2
    <3>c. /\ row' \in [Ids -> {"free", "live", "expired", "deleted"}]
          /\ fate' \in [Ids -> {"unborn", "open", "confirmed", "cancelled", "lapsed"}]
          /\ subject' \in [Ids -> Subjects \cup {"none"}]
          /\ RowFate'
          /\ \A j \in Ids : subject[j] \in Subjects => subject'[j] \in Subjects
      BY <2>k, <3>1, CreateRows
    <3>2. call' \in [Handlers -> Handling] /\ Placed'
      BY <2>2, <3>c, ReturnPlaced
    <3>3. UNCHANGED <<run, sent, calm, ruled, effects, crashes>>
      BY <1>2, <2>2 DEF ProposeOffer
    <3> QED  BY <1>t, <3>c, <3>2, <3>3 DEF Rows, TypeOK
  <2>3. CASE /\ \E i \in Ids : Create(i, call[h].key)
             /\ ruled' = [ruled EXCEPT ![call[h].key] = @ + 1]
             /\ Go(h, [Idle EXCEPT !.at = "approve", !.key = call[h].key])
    <3> DEFINE next == [Idle EXCEPT !.at = "approve", !.key = call[h].key]
    <3>1. PICK i \in Ids : Create(i, call[h].key)
      BY <2>3
    <3>2. next \in Handling /\ next.at = "approve" /\ next.key \in Keys
      BY <1>i, <2>k DEF Handling, Places
    <3>3. call' \in [Handlers -> Handling] /\ Placed'
      <4>1. Go(h, next)
        BY <2>3
      <4> HIDE DEF next
      <4>2. \A j \in Ids : subject[j] \in Subjects => subject'[j] \in Subjects
        BY <3>1, <2>k, CreateRows
      <4> QED  BY <3>2, <4>1, <4>2, GoPlaced DEF AboutRow
    <3>4. ruled' \in [Keys -> Nat]
      BY <1>t, <2>3, <2>k DEF TypeOK
    <3>5. UNCHANGED <<run, sent, calm, effects, crashes>>
      BY <1>2 DEF ProposeOffer
    <3> QED  BY <1>t, <2>k, <3>1, <3>3, <3>4, <3>5, CreateRows DEF Rows, TypeOK
  <2> QED  BY <1>2, <2>1, <2>2, <2>3 DEF ProposeOffer
<1>3. CASE ConsumeDelete(h)
  <2>k. call[h].id \in Ids /\ subject[call[h].id] \in Subjects
    BY <1>3, <1>k DEF ConsumeDelete
  <2>d. Drop(call[h].id, "confirmed") /\ UNCHANGED <<subject, runs, effects, crashes>>
    BY <1>3 DEF ConsumeDelete, Drop
  <2>1. call' \in [Handlers -> Handling] /\ Placed'
    <3>1. CASE subject[call[h].id] \in Keys
      <4> DEFINE next == [Idle EXCEPT !.at = "approve", !.key = subject[call[h].id]]
      <4>1. next \in Handling /\ next.at = "approve" /\ next.key \in Keys
        BY <1>i, <3>1 DEF Handling, Places
      <4>2. Go(h, next)
        BY <1>3, <3>1 DEF ConsumeDelete
      <4> HIDE DEF next
      <4> QED  BY <2>d, <4>1, <4>2, GoPlaced DEF AboutRow
    <3>2. CASE subject[call[h].id] \notin Keys
      <4> DEFINE next == [call[h] EXCEPT !.at = "act"]
      <4>1. next \in Handling /\ next.at = "act" /\ next.id = call[h].id
        BY <1>h DEF Handling, Places
      <4>2. Go(h, next)
        BY <1>3, <3>2 DEF ConsumeDelete
      <4> HIDE DEF next
      <4> QED  BY <2>d, <2>k, <4>1, <4>2, GoPlaced DEF AboutRun
    <3> QED  BY <3>1, <3>2
  <2> QED  BY <1>t, <2>d, <2>k, <2>1, DropRows DEF Rows, TypeOK
<1>4. CASE CancelDelete(h)
  <2>1. Drop(call[h].id, "cancelled") /\ call[h].id \in Ids /\ UNCHANGED subject
    BY <1>4, <1>k DEF CancelDelete, Drop
  <2>2. call' \in [Handlers -> Handling] /\ Placed'
    BY <1>4, <2>1, ReturnPlaced DEF CancelDelete
  <2> QED  BY <1>4, <1>t, <2>1, <2>2, DropRows DEF CancelDelete, Rows, TypeOK
<1>5. CASE DeleteFails(h) \/ Act(h)
  <2>1. Return(h) /\ UNCHANGED pending
    BY <1>5 DEF DeleteFails, Act
  <2>2. done' \in [Ids -> Nat] /\ UNCHANGED <<runs, told, crashes>>
    BY <1>5, <1>t, <1>k DEF DeleteFails, Act, TypeOK
  <2> QED  BY <1>t, <1>r, <2>1, <2>2, ReturnPlaced DEF Rows, TypeOK
<1>6. CASE CreateLease(h)
  <2>k. call[h].id \in Ids /\ subject[call[h].id] \in Subjects
    BY <1>6, <1>k DEF CreateLease
  <2>1. call' \in [Handlers -> Handling] /\ Placed'
    <3>1. ASSUME NEW place \in {"activate", "pdf"}, Go(h, [call[h] EXCEPT !.at = place])
          PROVE  call' \in [Handlers -> Handling] /\ Placed'
      <4> DEFINE next == [call[h] EXCEPT !.at = place]
      <4>1. next \in Handling /\ next.at = place /\ next.id = call[h].id
        BY <1>h DEF Handling, Places
      <4> HIDE DEF next
      <4> QED  BY <1>6, <2>k, <3>1, <4>1, GoPlaced DEF AboutRun, CreateLease, next
    <3> QED  BY <1>6, <3>1, ReturnPlaced DEF CreateLease
  <2>2. done' \in [Ids -> Nat] /\ told' \in [Ids -> {"nothing", "created", "impossible"}]
    <3>1. done' = [done EXCEPT ![call[h].id] = @ + 1] \/ done' = done
      BY <1>6 DEF CreateLease
    <3>2. told' = [told EXCEPT ![call[h].id] = "impossible"] \/ told' = told
      BY <1>6 DEF CreateLease
    <3>3. done \in [Ids -> Nat] /\ told \in [Ids -> {"nothing", "created", "impossible"}]
      BY <1>t DEF TypeOK
    <3>4. done' \in [Ids -> Nat]
      BY <2>k, <3>1, <3>3
    <3>5. told' \in [Ids -> {"nothing", "created", "impossible"}]
      BY <3>2, <3>3
    <3> QED  BY <3>4, <3>5
  <2>3. UNCHANGED <<pending, runs, crashes>>
    BY <1>6 DEF CreateLease
  <2> QED  BY <1>t, <1>r, <2>1, <2>2, <2>3 DEF Rows, TypeOK
<1>7. CASE ActivateLease(h)
  <2>k. call[h].id \in Ids /\ subject[call[h].id] \in Subjects
    BY <1>7, <1>k DEF ActivateLease
  <2>1. call' \in [Handlers -> Handling] /\ Placed'
    <3> DEFINE next == [call[h] EXCEPT !.at = "pdf"]
    <3>1. next \in Handling /\ next.at = "pdf" /\ next.id = call[h].id
      BY <1>h DEF Handling, Places
    <3>2. Go(h, next) \/ Return(h)
      BY <1>7 DEF ActivateLease
    <3> HIDE DEF next
    <3> QED  BY <1>7, <2>k, <3>1, <3>2, GoPlaced, ReturnPlaced DEF AboutRun, ActivateLease
  <2>2. told' \in [Ids -> {"nothing", "created", "impossible"}]
    BY <1>7, <1>t, <2>k DEF ActivateLease, TypeOK
  <2> QED  BY <1>7, <1>t, <1>r, <2>1, <2>2 DEF ActivateLease, Rows, TypeOK
<1>8. CASE OfferPdf(h)
  <2>1. told' \in [Ids -> {"nothing", "created", "impossible"}] /\ Return(h)
    BY <1>8, <1>t, <1>k DEF OfferPdf, TypeOK
  <2>2. CASE UNCHANGED pending
    BY <1>8, <1>t, <1>r, <2>1, <2>2, ReturnPlaced DEF OfferPdf, Rows, TypeOK
  <2>3. CASE \E i \in Ids : Create(i, "single")
    <3>1. PICK i \in Ids : Create(i, "single")
      BY <2>3
    <3>2. "single" \in Subjects
      BY DEF Subjects, Direct
    <3> QED  BY <1>8, <1>t, <2>1, <3>1, <3>2, CreateRows, ReturnPlaced DEF OfferPdf, Rows, TypeOK
  <2> QED  BY <1>8, <2>2, <2>3 DEF OfferPdf
<1>9. CASE ApproveRead(h)
  <2> DEFINE next == [call[h] EXCEPT !.at = "mark"]
  <2>1. next \in Handling /\ next.at = "mark" /\ next.key \in Keys
    BY <1>9, <1>h, <1>k DEF Handling, Places, ApproveRead
  <2>2. Go(h, next) \/ Return(h)
    BY <1>9 DEF ApproveRead
  <2>3. call' \in [Handlers -> Handling] /\ Placed'
    <3> HIDE DEF next
    <3> QED  BY <1>9, <2>1, <2>2, GoPlaced, ReturnPlaced DEF AboutRow, ApproveRead
  <2> QED  BY <1>9, <1>t, <1>r, <2>3 DEF ApproveRead, Rows, TypeOK
<1>10. CASE ApproveMark(h)
  <2> DEFINE next == [call[h] EXCEPT !.at = "send"]
  <2>1. next \in Handling /\ next.at = "send" /\ next.key \in Keys /\ Go(h, next)
    BY <1>10, <1>h, <1>k DEF Handling, Places, ApproveMark
  <2>2. call' \in [Handlers -> Handling] /\ Placed'
    <3> HIDE DEF next
    <3> QED  BY <1>10, <2>1, GoPlaced DEF AboutRow, ApproveMark
  <2>3. run' \in [Keys -> {"NONE", "PROPOSED", "EXECUTING", "FAILED"} \cup Done]
        /\ calm' \in [Keys -> BOOLEAN]
    BY <1>10, <1>t DEF ApproveMark, TypeOK
  <2> QED  BY <1>10, <1>t, <1>r, <2>2, <2>3 DEF ApproveMark, Rows, TypeOK
<1>11. CASE SendDraft(h)
  <2>k. call[h].key \in Keys /\ call[h].next \in Batch
    BY <1>11, <1>h, <1>k DEF SendDraft, Handling, Batch
  <2>1. call' \in [Handlers -> Handling] /\ Placed'
    <3>1. ASSUME NEW next \in Handling, next.at = "send", next.key = call[h].key, Go(h, next)
          PROVE  call' \in [Handlers -> Handling] /\ Placed'
      BY <1>11, <2>k, <3>1, GoPlaced DEF AboutRow, SendDraft
    <3> DEFINE left == [call[h] EXCEPT !.next = @ + 1]
               good == [left EXCEPT !.ok = @ + 1]
               poor == [left EXCEPT !.bad = @ + 1]
    <3>2. left \in Handling /\ left.at = "send" /\ left.key = call[h].key
      BY <1>11, <1>h, <2>k DEF SendDraft, At, Handling, Batch
    <3> HIDE DEF left
    <3>3. good \in Handling /\ good.at = "send" /\ good.key = call[h].key
      BY <3>2 DEF Handling
    <3>4. poor \in Handling /\ poor.at = "send" /\ poor.key = call[h].key
      BY <3>2 DEF Handling
    <3>5. Go(h, left) \/ Go(h, good) \/ Go(h, poor)
      BY <1>11 DEF SendDraft, left
    <3> HIDE DEF good, poor
    <3> QED  BY <3>1, <3>2, <3>3, <3>4, <3>5
  <2>2. calm' \in [Keys -> BOOLEAN]
    BY <1>11, <1>t DEF SendDraft, TypeOK
  <2>3. UNCHANGED <<pending, run, ruled, effects, crashes>>
    BY <1>11 DEF SendDraft
  <2>4. sent' \in [Keys -> [Batch -> Nat]]
    <3>1. sent[call[h].key] \in [Batch -> Nat]
      BY <1>t, <2>k DEF TypeOK
    <3>2. sent[call[h].key][call[h].next] + 1 \in Nat
      BY <2>k, <3>1
    <3>3. [sent[call[h].key] EXCEPT ![call[h].next] = @ + 1] \in [Batch -> Nat]
      BY <3>1, <3>2
    <3> QED  BY <1>11, <1>t, <3>3 DEF SendDraft, TypeOK
  <2> QED  BY <1>t, <1>r, <2>1, <2>2, <2>3, <2>4 DEF Rows, TypeOK
<1>12. CASE Finish(h) \/ FinishFails(h)
  <2>1. Return(h) /\ UNCHANGED <<pending, sent, ruled, effects, crashes>>
    BY <1>12 DEF Finish, FinishFails
  <2>2. run' \in [Keys -> {"NONE", "PROPOSED", "EXECUTING", "FAILED"} \cup Done]
        /\ calm' \in [Keys -> BOOLEAN]
    BY <1>12, <1>t DEF Finish, FinishFails, TypeOK, Outcome, Done
  <2> QED  BY <1>t, <1>r, <2>1, <2>2, ReturnPlaced DEF Rows, TypeOK
<1> QED  BY <1>1, <1>2, <1>3, <1>4, <1>5, <1>6, <1>7, <1>8, <1>9, <1>10, <1>11, <1>12 DEF Serve

\* The steps that are not those of a request being served.
Arrive(h) ==
  \/ \E s \in Subjects : Ask(h, s)
  \/ \E k \in Keys : Propose(h, k)
  \/ \E i \in Ids : Confirm(h, i) \/ CancelRead(h, i)

LEMMA NextCases ==
  ASSUME [Next]_vars
  PROVE  \/ Look \/ (\E i \in Ids : Expire(i))
         \/ \E h \in Handlers : Arrive(h) \/ Serve(h) \/ Crash(h)
         \/ UNCHANGED vars
  BY DEF Next, Arrive

LEMMA RowsArrive ==
  ASSUME Rows, NEW h \in Handlers, Arrive(h)
  PROVE  Rows'
<1> USE ActionsAssumption
<1> USE DEF pending, runs, effects
<1>t. TypeOK /\ Placed /\ RowFate
  BY DEF Rows
<1>i. Idle \in Handling
  BY DEF Idle, Handling, Places
<1>1. ASSUME NEW s \in Subjects, Ask(h, s) PROVE Rows'
  <2>1. PICK i \in Ids : Create(i, s)
    BY <1>1 DEF Ask
  <2>2. Placed'
    BY <1>t, <1>1, <2>1, CreateRows DEF Placed, Ask
  <2> QED  BY <1>t, <1>1, <2>1, <2>2, CreateRows DEF Ask, Rows, TypeOK
<1>2. ASSUME NEW k \in Keys, Propose(h, k) PROVE Rows'
  <2>r. RowFate'
    BY <1>t, <1>2 DEF Propose, RowFate
  <2> DEFINE offer == [Idle EXCEPT !.at = "offer", !.key = k, !.seen = "PROPOSED"]
             write == [Idle EXCEPT !.at = "write", !.key = k, !.seen = run[k]]
  <2>1. CASE UNCHANGED call
    BY <1>t, <1>2, <2>r, <2>1 DEF Propose, Rows, TypeOK, Placed
  <2>2. CASE Go(h, offer)
    <3>1. offer \in Handling /\ offer.at = "offer" /\ offer.key \in Keys
      BY <1>i DEF Handling, Places
    <3>2. call' \in [Handlers -> Handling] /\ Placed'
      <4> HIDE DEF offer
      <4> QED  BY <1>2, <2>2, <3>1, GoPlaced DEF Propose, AboutRow
    <3> QED  BY <1>t, <1>2, <2>r, <3>2 DEF Propose, Rows, TypeOK
  <2>3. CASE run[k] \notin Done \cup {"PROPOSED", "EXECUTING"} /\ Go(h, write)
    <3>1. run[k] \in {"NONE", "FAILED"}
      BY <1>t, <2>3 DEF TypeOK
    <3>2. write \in Handling /\ write.at = "write" /\ write.key \in Keys
      BY <1>i, <3>1 DEF Handling, Places
    <3>3. call' \in [Handlers -> Handling] /\ Placed'
      <4> HIDE DEF write
      <4> QED  BY <1>2, <2>3, <3>2, GoPlaced DEF Propose, AboutRow
    <3> QED  BY <1>t, <1>2, <2>r, <3>3 DEF Propose, Rows, TypeOK
  <2> QED  BY <1>2, <2>1, <2>2, <2>3 DEF Propose
<1>3. ASSUME NEW i \in Ids, Confirm(h, i) \/ CancelRead(h, i) PROVE Rows'
  <2>1. ASSUME NEW place \in {"delete", "cancel"}, Go(h, [Idle EXCEPT !.at = place, !.id = i])
        PROVE  call' \in [Handlers -> Handling] /\ Placed'
    <3> DEFINE next == [Idle EXCEPT !.at = place, !.id = i]
    <3>0. i \in 0..MaxIds
      BY DEF Ids
    <3>1. next \in Handling /\ next.at = place /\ next.id = i
      BY <1>i, <2>1, <3>0 DEF Handling, Places
    <3>2. subject[i] \in Subjects /\ UNCHANGED subject
      BY <1>t, <1>3 DEF RowFate, Confirm, CancelRead, Purge
    <3> HIDE DEF next
    <3> QED  BY <2>1, <3>1, <3>2, GoPlaced DEF AboutRun, next
  <2>2. Purge /\ UNCHANGED <<runs, effects, crashes>>
    BY <1>3 DEF Confirm, CancelRead
  <2>3. call' \in [Handlers -> Handling] /\ Placed'
    BY <1>3, <2>1 DEF Confirm, CancelRead
  <2> QED  BY <1>t, <2>2, <2>3, PurgeRows DEF Rows, TypeOK, Purge
<1> QED  BY <1>1, <1>2, <1>3 DEF Arrive

LEMMA RowsNext ==
  ASSUME Rows, [Next]_vars
  PROVE  Rows'
<1> USE ActionsAssumption
<1> USE DEF pending, runs, effects
<1>t. TypeOK /\ Placed /\ RowFate
  BY DEF Rows
<1>1. CASE Look
  BY <1>t, <1>1, PurgeRows DEF Look, Purge, Rows, TypeOK, Placed
<1>2. ASSUME NEW i \in Ids, Expire(i) PROVE Rows'
  BY <1>t, <1>2 DEF Expire, Rows, TypeOK, Placed, RowFate
<1>3. ASSUME NEW h \in Handlers, Crash(h) PROVE Rows'
  <2>1. call' \in [Handlers -> Handling] /\ Placed'
    BY <1>3, ReturnPlaced DEF Crash
  <2>2. crashes' \in 0..MaxCrashes
    BY <1>t, <1>3 DEF Crash, TypeOK
  <2>3. calm' \in [Keys -> BOOLEAN]
    BY <1>t, <1>3 DEF Crash, TypeOK
  <2>4. RowFate'
    BY <1>t, <1>3 DEF Crash, RowFate
  <2> QED  BY <1>t, <1>3, <2>1, <2>2, <2>3, <2>4 DEF Crash, Rows, TypeOK
<1>4. CASE UNCHANGED vars
  BY <1>t, <1>4 DEF vars, Rows, TypeOK, Placed, RowFate
<1> QED  BY <1>1, <1>2, <1>3, <1>4, NextCases, RowsArrive, RowsServe

\* Type correctness of the assistant's actions.
THEOREM TypeCorrect == Spec => []TypeOK
<1>1. Rows => TypeOK
  BY DEF Rows
<1> QED  BY <1>1, RowsInit, RowsNext, PTL DEF Spec

-----------------------------------------------------------------------------
(* A proposed action ends once. *)

LEMMA RefineInit == Init => O!Init
  BY DEF Init, O!Init

LEMMA PurgeRefines ==
  ASSUME Rows, Purge
  PROVE  O!Lapse
<1> DEFINE gone == {i \in Ids : row[i] = "expired"}
<1>1. gone \in SUBSET {i \in Ids : fate[i] = "open"}
  BY DEF Rows, RowFate
<1>2. fate' = [i \in Ids |-> IF i \in gone THEN "lapsed" ELSE IF i \in {} THEN "open" ELSE fate[i]]
  BY DEF Purge, PurgedFate
<1>3. {} \in SUBSET {i \in Ids : fate[i] = "unborn"}
  OBVIOUS
<1> HIDE DEF gone
<1> QED  BY <1>1, <1>2, <1>3 DEF O!Lapse

LEMMA CreateRefines ==
  ASSUME Rows, NEW i \in Ids, NEW s \in Subjects, Create(i, s)
  PROVE  O!Lapse
<1> DEFINE gone == {j \in Ids : row[j] = "expired"}
<1>1. gone \in SUBSET {j \in Ids : fate[j] = "open"}
  BY DEF Rows, RowFate
<1>2. {i} \in SUBSET {j \in Ids : fate[j] = "unborn"} /\ i \notin gone
  BY DEF Rows, RowFate, Create
<1>3. fate' = [j \in Ids |-> IF j \in gone THEN "lapsed" ELSE IF j \in {i} THEN "open" ELSE fate[j]]
  BY <1>2 DEF Create, PurgedFate
<1> HIDE DEF gone
<1> QED  BY <1>1, <1>2, <1>3 DEF O!Lapse

LEMMA DropRefines ==
  ASSUME Rows, NEW i \in Ids, NEW end \in {"confirmed", "cancelled"}, Drop(i, end)
  PROVE  O!Settle(i, end)
  BY DEF Rows, RowFate, Drop, O!Settle

LEMMA RefineNext ==
  ASSUME Rows, [Next]_vars
  PROVE  [O!Next]_fate
<1> USE DEF pending
<1>k. ASSUME NEW h \in Handlers
      PROVE  /\ At(h, "offer") => call[h].key \in Subjects
             /\ At(h, "delete") \/ At(h, "cancel") => call[h].id \in Ids
  BY DEF Rows, Placed, At, AboutRun, AboutRow, Subjects
<1>1. CASE Look \/ \E i \in Ids : Expire(i)
  BY <1>1, PurgeRefines DEF Look, Expire, O!Next
<1>2. ASSUME NEW h \in Handlers, Arrive(h) PROVE [O!Next]_fate
  <2>1. CASE \E s \in Subjects : Ask(h, s)
    BY <2>1, CreateRefines DEF Ask, O!Next
  <2>2. CASE \E k \in Keys : Propose(h, k)
    BY <2>2 DEF Propose
  <2>3. CASE \E i \in Ids : Confirm(h, i) \/ CancelRead(h, i)
    BY <2>3, PurgeRefines DEF Confirm, CancelRead, O!Next
  <2> QED  BY <1>2, <2>1, <2>2, <2>3 DEF Arrive
<1>3. ASSUME NEW h \in Handlers, Serve(h) PROVE [O!Next]_fate
  <2>1. CASE ProposeOffer(h)
    BY <1>k, <2>1, CreateRefines DEF ProposeOffer, O!Next
  <2>2. CASE ConsumeDelete(h)
    <3>1. O!Settle(call[h].id, "confirmed") /\ call[h].id \in Ids
      BY <1>k, <2>2, DropRefines DEF ConsumeDelete
    <3> QED  BY <3>1 DEF O!Next
  <2>3. CASE CancelDelete(h)
    <3>1. O!Settle(call[h].id, "cancelled") /\ call[h].id \in Ids
      BY <1>k, <2>3, DropRefines DEF CancelDelete
    <3> QED  BY <3>1 DEF O!Next
  <2>4. CASE OfferPdf(h)
    BY <2>4, CreateRefines DEF OfferPdf, O!Next, Subjects, Direct
  <2>5. CASE ~(ProposeOffer(h) \/ ConsumeDelete(h) \/ CancelDelete(h) \/ OfferPdf(h))
    <3>1. UNCHANGED fate
      BY <1>3, <2>5
         DEF Serve, ProposeWrite, DeleteFails, Act, CreateLease, ActivateLease,
             ApproveRead, ApproveMark, SendDraft, Finish, FinishFails
    <3> QED  BY <3>1
  <2> QED  BY <2>1, <2>2, <2>3, <2>4, <2>5
<1>4. CASE (\E h \in Handlers : Crash(h)) \/ UNCHANGED vars
  BY <1>4 DEF Crash, vars
<1> QED  BY <1>1, <1>2, <1>3, <1>4, NextCases

\* However many requests confirm, cancel and purge, an action the assistant
\* proposed ends once (consumePendingAction, cancelPendingAction).
THEOREM ActionsEndOnce == Spec => EndsOnce
<1>1. Init /\ [][Next]_vars => []Rows
  BY RowsInit, RowsNext, PTL
<1> QED  BY <1>1, RefineInit, RefineNext, PTL DEF Spec, EndsOnce, O!Spec

-----------------------------------------------------------------------------
(* A direct action takes effect once, after its confirmation. *)

Step(h) == Arrive(h) \/ Serve(h) \/ Crash(h)

LEMMA OthersStay ==
  ASSUME Rows, NEW h \in Handlers, Step(h), NEW g \in Handlers, g # h
  PROVE  call'[g] = call[g]
<1>1. ASSUME NEW next, Go(h, next) PROVE call'[g] = call[g]
  BY <1>1 DEF Go, Rows, TypeOK
<1>2. CASE Arrive(h)
  BY <1>1, <1>2 DEF Arrive, Ask, Propose, Confirm, CancelRead
<1>3. CASE Serve(h)
  <2>1. CASE ProposeWrite(h) \/ ProposeOffer(h)
    BY <1>1, <2>1 DEF ProposeWrite, ProposeOffer, Return
  <2>2. CASE ConsumeDelete(h) \/ CancelDelete(h) \/ DeleteFails(h)
    BY <1>1, <2>2 DEF ConsumeDelete, CancelDelete, DeleteFails, Return
  <2>3. CASE Act(h) \/ CreateLease(h) \/ ActivateLease(h) \/ OfferPdf(h)
    BY <1>1, <2>3 DEF Act, CreateLease, ActivateLease, OfferPdf, Return
  <2>4. CASE ApproveRead(h) \/ ApproveMark(h)
    BY <1>1, <2>4 DEF ApproveRead, ApproveMark, Return
  <2>5. CASE SendDraft(h)
    BY <1>1, <2>5 DEF SendDraft
  <2>6. CASE Finish(h) \/ FinishFails(h)
    BY <1>1, <2>6 DEF Finish, FinishFails, Return
  <2> QED  BY <1>3, <2>1, <2>2, <2>3, <2>4, <2>5, <2>6 DEF Serve
<1>4. CASE Crash(h)
  BY <1>1, <1>4 DEF Crash, Return
<1> QED  BY <1>2, <1>3, <1>4 DEF Step

\* Where a step takes the request that makes it.
LEMMA Whereto ==
  ASSUME Rows, NEW h \in Handlers, Step(h)
  PROVE  /\ call'[h].at = "act" => ConsumeDelete(h) \/ UNCHANGED call
         /\ call'[h].at = "send" => ApproveMark(h) \/ SendDraft(h) \/ UNCHANGED call
         /\ call'[h].at = "mark" => ApproveRead(h) \/ UNCHANGED call
         /\ call'[h].at = "approve" => ConsumeDelete(h) \/ ProposeOffer(h) \/ UNCHANGED call
         /\ call'[h].at \in {"activate", "pdf"} => CreateLease(h) \/ ActivateLease(h) \/ UNCHANGED call
<1> DEFINE Busy == {"act", "send", "mark", "approve", "activate", "pdf"}
<1>1. ASSUME NEW next, Go(h, next) PROVE call'[h] = next
  BY <1>1 DEF Go, Rows, TypeOK
<1>2. Return(h) => call'[h].at \notin Busy
  BY <1>1 DEF Return, Idle
<1>3. ASSUME NEW place \in Places, Go(h, [call[h] EXCEPT !.at = place]) PROVE call'[h].at = place
  <2>1. [call[h] EXCEPT !.at = place].at = place
    BY DEF Rows, TypeOK, Handling
  <2> QED  BY <1>1, <1>3, <2>1
<1>4. CASE Arrive(h)
  <2>1. CASE (\E s \in Subjects : Ask(h, s)) \/ UNCHANGED call
    BY <2>1 DEF Ask
  <2>2. ASSUME NEW k \in Keys, Propose(h, k), ~UNCHANGED call PROVE call'[h].at \notin Busy
    BY <1>1, <2>2 DEF Propose, Idle
  <2>3. ASSUME NEW i \in Ids, Confirm(h, i) \/ CancelRead(h, i) PROVE call'[h].at \notin Busy
    BY <1>1, <2>3 DEF Confirm, CancelRead, Idle
  <2> QED  BY <1>4, <2>1, <2>2, <2>3 DEF Arrive
<1>5. CASE Serve(h)
  <2>1. CASE ProposeWrite(h)
    BY <1>2, <1>3, <2>1 DEF ProposeWrite, Places
  <2>2. CASE ProposeOffer(h)
    BY <1>1, <1>2, <2>2 DEF ProposeOffer, Idle
  <2>3. CASE ConsumeDelete(h)
    BY <1>1, <1>3, <2>3 DEF ConsumeDelete, Idle, Places
  <2>4. CASE CancelDelete(h) \/ DeleteFails(h) \/ Act(h) \/ OfferPdf(h) \/ Finish(h) \/ FinishFails(h)
    BY <1>2, <2>4 DEF CancelDelete, DeleteFails, Act, OfferPdf, Finish, FinishFails
  <2>5. CASE CreateLease(h)
    BY <1>2, <1>3, <2>5 DEF CreateLease, Places
  <2>6. CASE ActivateLease(h)
    BY <1>2, <1>3, <2>6 DEF ActivateLease, Places
  <2>7. CASE ApproveRead(h)
    BY <1>2, <1>3, <2>7 DEF ApproveRead, Places
  <2>8. CASE ApproveMark(h)
    BY <1>3, <2>8 DEF ApproveMark, Places
  <2>9. CASE SendDraft(h)
    <3> DEFINE left == [call[h] EXCEPT !.next = @ + 1]
    <3>1. /\ left.at = "send" /\ [left EXCEPT !.ok = @ + 1].at = "send"
          /\ [left EXCEPT !.bad = @ + 1].at = "send"
      BY <2>9 DEF SendDraft, At, Rows, TypeOK, Handling
    <3>2. \/ Go(h, left) \/ Go(h, [left EXCEPT !.ok = @ + 1]) \/ Go(h, [left EXCEPT !.bad = @ + 1])
      BY <2>9 DEF SendDraft
    <3> HIDE DEF left
    <3>3. call'[h].at = "send"
      BY <1>1, <3>1, <3>2
    <3> QED  BY <2>9, <3>3
  <2> QED  BY <1>5, <2>1, <2>2, <2>3, <2>4, <2>5, <2>6, <2>7, <2>8, <2>9 DEF Serve
<1>6. CASE Crash(h)
  BY <1>2, <1>6 DEF Crash
<1> QED  BY <1>4, <1>5, <1>6 DEF Step

LEMMA ConfirmedStays ==
  ASSUME Rows, [Next]_vars, NEW i \in Ids, fate[i] = "confirmed"
  PROVE  fate'[i] = "confirmed" /\ subject'[i] = subject[i]
<1> USE DEF pending
<1>0. row[i] = "deleted"
  BY DEF Rows, TypeOK, RowFate
<1>1. Purge => fate'[i] = "confirmed" /\ subject'[i] = subject[i]
  BY <1>0 DEF Purge, PurgedFate
<1>2. ASSUME NEW j \in Ids, NEW s, Create(j, s) PROVE fate'[i] = "confirmed" /\ subject'[i] = subject[i]
  BY <1>0, <1>2 DEF Create, PurgedFate, Rows, TypeOK
<1>3. ASSUME NEW j \in Ids, NEW end, Drop(j, end) PROVE fate'[i] = "confirmed" /\ subject'[i] = subject[i]
  BY <1>0, <1>3 DEF Drop, Rows, TypeOK
<1>4. CASE Look \/ (\E j \in Ids : Expire(j)) \/ UNCHANGED vars
  BY <1>1, <1>4 DEF Look, Expire, vars
<1>5. ASSUME NEW h \in Handlers, Arrive(h) PROVE fate'[i] = "confirmed" /\ subject'[i] = subject[i]
  BY <1>1, <1>2, <1>5 DEF Arrive, Ask, Propose, Confirm, CancelRead
<1>6. ASSUME NEW h \in Handlers, Serve(h) PROVE fate'[i] = "confirmed" /\ subject'[i] = subject[i]
  <2>k. At(h, "delete") \/ At(h, "cancel") => call[h].id \in Ids
    BY DEF Rows, Placed, At, AboutRow
  <2>1. CASE ProposeOffer(h) \/ OfferPdf(h)
    BY <1>2, <2>1 DEF ProposeOffer, OfferPdf
  <2>2. CASE ConsumeDelete(h) \/ CancelDelete(h)
    BY <1>3, <2>k, <2>2 DEF ConsumeDelete, CancelDelete
  <2>3. CASE ~(ProposeOffer(h) \/ OfferPdf(h) \/ ConsumeDelete(h) \/ CancelDelete(h))
    BY <1>6, <2>3
       DEF Serve, ProposeWrite, DeleteFails, Act, CreateLease, ActivateLease,
           ApproveRead, ApproveMark, SendDraft, Finish, FinishFails
  <2> QED  BY <2>1, <2>2, <2>3
<1>7. ASSUME NEW h \in Handlers, Crash(h) PROVE fate'[i] = "confirmed" /\ subject'[i] = subject[i]
  BY <1>7 DEF Crash
<1> QED  BY <1>4, <1>5, <1>6, <1>7, NextCases

Directly == Acting /\ DirectOnce

LEMMA DirectInit == Init => Directly
  BY DEF Init, Directly, Acting, DirectOnce, Idle, At

LEMMA DirectNext ==
  ASSUME Rows, Directly, [Next]_vars
  PROVE  Directly'
<1> USE DEF effects, pending
<1>d. Acting /\ DirectOnce
  BY DEF Directly
<1>t. done \in [Ids -> Nat] /\ call \in [Handlers -> Handling]
  BY DEF Rows, TypeOK
<1>f. ASSUME NEW i \in Ids, fate[i] = "confirmed" PROVE fate'[i] = "confirmed"
  BY <1>f, ConfirmedStays
\* Steps that leave what was done, and bring no request to the deed.
<1>s. ASSUME UNCHANGED done,
             \A h \in Handlers : call'[h].at = "act" => call'[h] = call[h]
      PROVE  Directly'
  <2>1. DirectOnce'
    BY <1>d, <1>f, <1>s DEF DirectOnce
  <2>2. \A h \in Handlers : At(h, "act")' => At(h, "act") /\ call[h].id \in Ids /\ call'[h] = call[h]
    BY <1>s DEF At, Rows, Placed, AboutRow
  <2>3. Acting'
    BY <1>d, <1>f, <1>s, <2>2 DEF Acting, At
  <2> QED  BY <2>1, <2>3 DEF Directly
<1>1. CASE Look \/ (\E i \in Ids : Expire(i)) \/ UNCHANGED vars
  BY <1>s, <1>1 DEF Look, Expire, vars
<1>2. ASSUME NEW h \in Handlers, Step(h), ~ConsumeDelete(h), UNCHANGED done PROVE Directly'
  BY <1>s, <1>2, OthersStay, Whereto
<1>3. ASSUME NEW h \in Handlers, Arrive(h) \/ Crash(h) PROVE Directly'
  <2>1. UNCHANGED done
    BY <1>3 DEF Arrive, Ask, Propose, Confirm, CancelRead, Crash
  <2>2. CASE ConsumeDelete(h)
    <3>1. At(h, "delete") /\ call[h].at # "idle"
      BY <2>2 DEF ConsumeDelete, At
    <3>2. call'[h].at # "act"
      BY <1>3, <1>t, <3>1 DEF Arrive, Ask, Propose, Confirm, CancelRead, Crash, Return, Go, At, Idle
    <3> QED  BY <1>s, <1>3, <2>1, <3>2, OthersStay DEF Step
  <2> QED  BY <1>2, <1>3, <2>1, <2>2 DEF Step
<1>4. ASSUME NEW h \in Handlers, ConsumeDelete(h) PROVE Directly'
  <2> DEFINE i == call[h].id
  <2>1. i \in Ids /\ UNCHANGED done
    BY <1>4 DEF ConsumeDelete, Rows, Placed, At, AboutRow
  <2>2. fate[i] = "open" /\ fate'[i] = "confirmed"
    BY <1>4, <2>1 DEF ConsumeDelete, Drop, Rows, TypeOK, RowFate
  <2>3. done[i] = 0
    BY <1>d, <1>t, <2>1, <2>2 DEF DirectOnce
  <2>4. DirectOnce'
    BY <1>d, <1>f, <2>1 DEF DirectOnce
  <2>5. \A g \in Handlers : g # h => call'[g] = call[g]
    BY <1>4, OthersStay DEF Step, Serve
  <2>6. \A g \in Handlers : At(g, "act") => call[g].id # i /\ call[g].id \in Ids
    BY <1>d, <2>2 DEF Acting, Rows, Placed, At, AboutRow
  <2>7. At(h, "act")' => call'[h].id = i
    <3>1. call'[h] = [call[h] EXCEPT !.at = "act"] \/ call'[h] = [Idle EXCEPT !.at = "approve", !.key = subject[i]]
      BY <1>4, <1>t DEF ConsumeDelete, Go
    <3>2. [call[h] EXCEPT !.at = "act"].id = i
      BY <1>t DEF Handling
    <3> QED  BY <3>1, <3>2 DEF At, Idle
  <2> HIDE DEF i
  <2>8. Acting'
    BY <1>d, <1>f, <2>1, <2>2, <2>3, <2>5, <2>6, <2>7 DEF Acting, At
  <2> QED  BY <2>4, <2>8 DEF Directly
<1>5. ASSUME NEW h \in Handlers, Act(h) \/ CreateLease(h) PROVE Directly'
  <2> DEFINE i == call[h].id
  <2>1. At(h, "act") /\ i \in Ids
    BY <1>5 DEF Act, CreateLease, Rows, Placed, At, AboutRow
  <2>2. done[i] = 0 /\ fate[i] = "confirmed"
    BY <1>d, <2>1 DEF Acting
  <2>3. done' = [done EXCEPT ![i] = @ + 1] \/ done' = done
    BY <1>5 DEF Act, CreateLease
  <2>4. DirectOnce'
    BY <1>d, <1>f, <1>t, <2>1, <2>2, <2>3 DEF DirectOnce
  <2>5. Step(h)
    BY <1>5 DEF Step, Serve
  <2>6. call'[h].at # "act"
    <3>1. CASE Act(h)
      BY <1>t, <3>1 DEF Act, Return, Go, Idle
    <3>2. CASE CreateLease(h)
      BY <1>t, <3>2 DEF CreateLease, Return, Go, Idle, Handling
    <3> QED  BY <1>5, <3>1, <3>2
  <2>7. \A g \in Handlers : At(g, "act")' =>
          /\ g # h /\ At(g, "act") /\ call'[g] = call[g]
          /\ call[g].id \in Ids /\ call[g].id # i
    BY <1>d, <2>1, <2>5, <2>6, OthersStay DEF At, Acting, Rows, Placed, AboutRow
  <2> HIDE DEF i
  <2>8. \A j \in Ids : j # i => done'[j] = done[j]
    BY <1>t, <2>3
  <2>9. Acting'
    BY <1>d, <1>f, <2>7, <2>8 DEF Acting, At
  <2> QED  BY <2>4, <2>9 DEF Directly
<1>6. ASSUME NEW h \in Handlers, Serve(h), ~(ConsumeDelete(h) \/ Act(h) \/ CreateLease(h)) PROVE Directly'
  <2>1. UNCHANGED done
    BY <1>6
       DEF Serve, ProposeWrite, ProposeOffer, CancelDelete, DeleteFails, ActivateLease,
           OfferPdf, ApproveRead, ApproveMark, SendDraft, Finish, FinishFails
  <2> QED  BY <1>2, <1>6, <2>1 DEF Step
<1> QED  BY <1>1, <1>3, <1>4, <1>5, <1>6, NextCases

\* Whatever is confirmed twice, cancelled meanwhile or purged, a direct action
\* takes effect at most once, and only after its confirmation (confirmAction).
THEOREM DirectActionsOnce == Spec => []DirectOnce
<1>1. Directly => DirectOnce
  BY DEF Directly
<1> QED  BY <1>1, RowsInit, RowsNext, DirectInit, DirectNext, PTL DEF Spec

-----------------------------------------------------------------------------
(* A lease that was announced exists. *)

LEMMA ToldInit == Init => ToldOfLease
  BY DEF Init, ToldOfLease, CreatedMeansLease, Idle

LEMMA ToldNext ==
  ASSUME Rows, Directly, ToldOfLease, [Next]_vars
  PROVE  ToldOfLease'
<1> USE DEF effects, pending
<1>t. done \in [Ids -> Nat] /\ call \in [Handlers -> Handling] /\ told \in [Ids -> {"nothing", "created", "impossible"}]
  BY DEF Rows, TypeOK
<1>k. \A h \in Handlers : call[h].at \in {"act", "activate", "pdf"} => call[h].id \in Ids
  BY DEF Rows, Placed, At, AboutRow
\* What was done stays done, and nobody else is told or brought to a lease.
<1>s. ASSUME \A i \in Ids : done[i] = 1 => done'[i] = 1,
             \A i \in Ids : told'[i] = "created" => told[i] = "created" \/ done'[i] = 1,
             \A h \in Handlers : call'[h].at \in {"activate", "pdf"} =>
               call'[h] = call[h] \/ done'[call'[h].id] = 1
      PROVE  ToldOfLease'
  BY <1>s, <1>k DEF ToldOfLease, CreatedMeansLease
<1>1. CASE Look \/ (\E i \in Ids : Expire(i)) \/ UNCHANGED vars
  BY <1>s, <1>1 DEF Look, Expire, vars
<1>2. ASSUME NEW h \in Handlers, Step(h), UNCHANGED <<done, told>>,
             ~(CreateLease(h) \/ ActivateLease(h))
      PROVE  ToldOfLease'
  <2>1. call'[h].at \in {"activate", "pdf"} => UNCHANGED call
    BY <1>2, Whereto
  <2> QED  BY <1>s, <1>2, <2>1, OthersStay
<1>3. ASSUME NEW h \in Handlers, Act(h) \/ CreateLease(h) PROVE ToldOfLease'
  <2> DEFINE i == call[h].id
  <2>1. At(h, "act") /\ i \in Ids
    BY <1>3, <1>k DEF Act, CreateLease, At
  <2>2. done[i] = 0
    BY <2>1 DEF Directly, Acting
  <2>3. done' = [done EXCEPT ![i] = @ + 1] \/ done' = done
    BY <1>3 DEF Act, CreateLease
  <2>4. \A j \in Ids : done[j] = 1 => done'[j] = 1
    BY <1>t, <2>1, <2>2, <2>3
  <2>5. Step(h)
    BY <1>3 DEF Step, Serve
  <2>6. \A j \in Ids : told'[j] = "created" => told[j] = "created"
    BY <1>3, <1>t DEF Act, CreateLease
  <2>7. call'[h].at \in {"activate", "pdf"} => done'[call'[h].id] = 1
    <3>1. CASE Act(h)
      BY <1>t, <3>1 DEF Act, Return, Go, Idle
    <3>2. CASE CreateLease(h) /\ done' = [done EXCEPT ![i] = @ + 1]
      <4>1. done'[i] = 1
        BY <1>t, <2>1, <2>2, <3>2
      <4>2. call'[h].id = i \/ call'[h] = Idle
        BY <1>t, <3>2 DEF CreateLease, Return, Go, Handling
      <4> QED  BY <4>1, <4>2 DEF Idle
    <3>3. CASE CreateLease(h) /\ done' = done
      <4>1. done # [done EXCEPT ![i] = @ + 1]
        BY <1>t, <2>1, <2>2
      <4>2. Return(h)
        BY <3>3, <4>1 DEF CreateLease
      <4> QED  BY <1>t, <4>2 DEF Return, Go, Idle
    <3> QED  BY <1>3, <2>3, <3>1, <3>2, <3>3
  <2> HIDE DEF i
  <2> QED  BY <1>s, <2>4, <2>5, <2>6, <2>7, OthersStay
<1>4. ASSUME NEW h \in Handlers, ActivateLease(h) \/ OfferPdf(h) PROVE ToldOfLease'
  <2> DEFINE i == call[h].id
  <2>1. call[h].at \in {"activate", "pdf"} /\ UNCHANGED done /\ i \in Ids
    BY <1>4, <1>k DEF ActivateLease, OfferPdf, At
  <2>2. done[i] = 1
    BY <2>1 DEF ToldOfLease
  <2>3. Step(h)
    BY <1>4 DEF Step, Serve
  <2>4. \A j \in Ids : told'[j] = "created" => told[j] = "created" \/ j = i
    BY <1>4, <1>t DEF ActivateLease, OfferPdf
  <2>5. call'[h].id = i \/ call'[h] = Idle
    BY <1>4, <1>t DEF ActivateLease, OfferPdf, Return, Go, Handling
  <2>6. call'[h].at \in {"activate", "pdf"} => done'[call'[h].id] = 1
    BY <2>1, <2>2, <2>5 DEF Idle
  <2> HIDE DEF i
  <2> QED  BY <1>s, <2>1, <2>2, <2>3, <2>4, <2>6, OthersStay
<1>5. ASSUME NEW h \in Handlers, Serve(h), ~(Act(h) \/ CreateLease(h) \/ ActivateLease(h) \/ OfferPdf(h))
      PROVE  ToldOfLease'
  <2>1. UNCHANGED <<done, told>>
    BY <1>5
       DEF Serve, ProposeWrite, ProposeOffer, ConsumeDelete, CancelDelete, DeleteFails,
           ApproveRead, ApproveMark, SendDraft, Finish, FinishFails
  <2> QED  BY <1>2, <1>5, <2>1 DEF Step
<1>6. ASSUME NEW h \in Handlers, Arrive(h) \/ Crash(h) PROVE ToldOfLease'
  <2>1. UNCHANGED <<done, told>>
    BY <1>6 DEF Arrive, Ask, Propose, Confirm, CancelRead, Crash
  <2> QED  BY <1>2, <1>3, <1>4, <1>6, <2>1 DEF Step
<1> QED  BY <1>1, <1>3, <1>4, <1>5, <1>6, NextCases

\* Who is told "Contrat créé" (executeCreateLease) has one new lease, whatever
\* happened between the creation, the activation and the answer.
THEOREM AnnouncedLeaseExists == Spec => []CreatedMeansLease
<1>1. ToldOfLease => CreatedMeansLease
  BY DEF ToldOfLease
<1> QED  BY <1>1, RowsInit, RowsNext, DirectInit, DirectNext, ToldInit, ToldNext, PTL DEF Spec

-----------------------------------------------------------------------------
(* An execution that is not disturbed. *)

LEMMA UndisturbedInit == Init => Undisturbed
  BY DEF Init, Undisturbed, Fresh, RunTold, Unsent, Executing, At, Idle, Done

\* A run no step is about.
LEMMA RunKept ==
  ASSUME NEW k \in Keys, RunTold(k),
         run'[k] = run[k], sent'[k] = sent[k], calm'[k] => calm[k],
         \A g \in Handlers : Executing(g, k)' => call'[g] = call[g]
  PROVE  RunTold(k)'
  BY DEF RunTold, Execution, Executing, Unsent, At

LEMMA FreshNext ==
  ASSUME Rows, Fresh, [Next]_vars
  PROVE  Fresh'
<1> USE DEF pending
<1>1. CASE Look \/ (\E i \in Ids : Expire(i)) \/ UNCHANGED vars
  BY <1>1 DEF Look, Expire, vars, Fresh
<1>2. ASSUME NEW h \in Handlers, Step(h) PROVE Fresh'
  <2>1. \A g \in Handlers : g # h => call'[g] = call[g]
    BY <1>2, OthersStay
  <2>2. call'[h].at \in {"approve", "mark"} => call'[h].ok = 0
    <3>1. CASE UNCHANGED call
      BY <3>1 DEF Fresh
    <3>2. CASE ConsumeDelete(h)
      <4>1. \A next : Go(h, next) => call'[h] = next
        BY DEF Go, Rows, TypeOK
      <4>2. \/ Go(h, [Idle EXCEPT !.at = "approve", !.key = subject[call[h].id]])
            \/ Go(h, [call[h] EXCEPT !.at = "act"])
        BY <3>2 DEF ConsumeDelete
      <4>3. [call[h] EXCEPT !.at = "act"].at = "act"
        BY DEF Rows, TypeOK, Handling
      <4>4. [Idle EXCEPT !.at = "approve", !.key = subject[call[h].id]].ok = 0
        BY DEF Idle
      <4> QED  BY <4>1, <4>2, <4>3, <4>4
    <3>3. CASE ProposeOffer(h)
      <4>1. \A next : Go(h, next) => call'[h] = next
        BY DEF Go, Rows, TypeOK
      <4>2. Go(h, Idle) \/ Go(h, [Idle EXCEPT !.at = "approve", !.key = call[h].key])
        BY <3>3 DEF ProposeOffer, Return
      <4>3. Idle.ok = 0 /\ [Idle EXCEPT !.at = "approve", !.key = call[h].key].ok = 0
        BY DEF Idle
      <4> QED  BY <4>1, <4>2, <4>3
    <3>4. CASE ApproveRead(h)
      BY <3>4 DEF ApproveRead, At, Fresh, Return, Go, Idle, Rows, TypeOK, Handling
    <3> QED  BY <1>2, <3>1, <3>2, <3>3, <3>4, Whereto
  <2> QED  BY <2>1, <2>2 DEF Fresh
<1> QED  BY <1>1, <1>2, NextCases DEF Step

LEMMA RunServe ==
  ASSUME Rows, Undisturbed, NEW h \in Handlers, Serve(h), NEW k \in Keys
  PROVE  RunTold(k)'
<1> USE DEF runs, pending
<1>t. /\ call \in [Handlers -> Handling] /\ call[h] \in Handling
      /\ run \in [Keys -> {"NONE", "PROPOSED", "EXECUTING", "FAILED"} \cup Done]
      /\ sent \in [Keys -> [Batch -> Nat]] /\ calm \in [Keys -> BOOLEAN]
  BY DEF Rows, TypeOK
<1>u. RunTold(k) /\ Fresh
  BY DEF Undisturbed
<1>k. /\ At(h, "write") => call[h].key \in Keys
      /\ At(h, "mark") => call[h].key \in Keys
      /\ At(h, "send") => call[h].key \in Keys
  BY DEF Rows, Placed, At, AboutRun
<1>g. \A g \in Handlers : g # h => call'[g] = call[g]
  BY OthersStay DEF Step
<1>w. Executing(h, k)' => ApproveMark(h) \/ SendDraft(h) \/ UNCHANGED call
  BY Whereto DEF Executing, At, Step
\* Steps that leave the run of k.
<1>o. ASSUME run'[k] = run[k], sent'[k] = sent[k], calm'[k] => calm[k],
             ~Executing(h, k)' \/ UNCHANGED call
      PROVE  RunTold(k)'
  BY <1>g, <1>o, <1>u, RunKept
<1>n. Executing(h, k) => k = call[h].key
  BY DEF Executing
<1>1. CASE ProposeWrite(h)
  <2>1. ~Executing(h, k)' \/ UNCHANGED call
    <3>1. ~ApproveMark(h) /\ ~SendDraft(h)
      BY <1>1 DEF ProposeWrite, ApproveMark, SendDraft, At
    <3> QED  BY <1>w, <3>1
  <2>2. CASE UNCHANGED <<run, calm>> \/ k # call[h].key
    <3>1. run'[k] = run[k] /\ sent'[k] = sent[k] /\ calm'[k] = calm[k]
      BY <1>1, <1>t, <2>2 DEF ProposeWrite
    <3> QED  BY <1>o, <2>1, <3>1
  <2>3. CASE ~UNCHANGED <<run, calm>> /\ k = call[h].key
    <3>1. /\ run' = [run EXCEPT ![k] = "PROPOSED"] /\ UNCHANGED sent
          /\ calm' = [calm EXCEPT ![k] = @ /\ run[k] = call[h].seen]
      BY <1>1, <2>3 DEF ProposeWrite
    <3>2. ASSUME calm'[k]
          PROVE  calm[k] /\ run[k] \in {"NONE", "PROPOSED", "FAILED"}
      BY <1>t, <3>1, <3>2 DEF Handling
    <3>3. calm'[k] => Unsent(k) /\ (\A g \in Handlers : ~Executing(g, k)) /\ calm[k]
      BY <1>u, <3>2 DEF RunTold, Execution
    <3>4. run'[k] = "PROPOSED"
      BY <1>t, <3>1
    <3>5. \A g \in Handlers : Executing(g, k)' => Executing(g, k)
      BY <1>g, <2>1 DEF Executing, At
    <3>6. calm'[k] => Unsent(k)' /\ \A g \in Handlers : ~Executing(g, k)'
      BY <3>1, <3>3, <3>5 DEF Unsent
    <3>7. calm'[k] => \A d \in Batch : sent'[k][d] <= 1
      BY <3>6 DEF Unsent
    <3> QED  BY <3>4, <3>6, <3>7 DEF RunTold, Done
  <2> QED  BY <2>2, <2>3
<1>2. CASE ApproveMark(h)
  <2>1. CASE k # call[h].key
    <3>1. run'[k] = run[k] /\ sent'[k] = sent[k] /\ calm'[k] = calm[k]
      BY <1>2, <1>t, <2>1 DEF ApproveMark
    <3>2. ~Executing(h, k)'
      BY <1>2, <1>t, <2>1 DEF ApproveMark, Executing, Go, Handling
    <3> QED  BY <1>o, <3>1, <3>2
  <2>2. CASE k = call[h].key
    <3>1. /\ run' = [run EXCEPT ![k] = "EXECUTING"] /\ UNCHANGED sent
          /\ calm' = [calm EXCEPT ![k] = @ /\ run[k] \in {"PROPOSED", "FAILED"}]
          /\ call' = [call EXCEPT ![h] = [call[h] EXCEPT !.at = "send"]]
      BY <1>2, <2>2 DEF ApproveMark, Go
    <3>2. call[h].ok = 0
      BY <1>2, <1>u DEF ApproveMark, At, Fresh
    <3>3. call'[h].at = "send" /\ call'[h].ok = 0
      BY <1>t, <3>1, <3>2 DEF Handling
    <3>4. calm'[k] => Unsent(k) /\ (\A g \in Handlers : ~Executing(g, k)) /\ calm[k]
      BY <1>t, <1>u, <3>1 DEF RunTold, Execution
    <3>5. run'[k] = "EXECUTING"
      BY <1>t, <3>1
    <3>6. calm'[k] => \A g \in Handlers : Executing(g, k)' => g = h
      BY <1>g, <3>4 DEF Executing, At
    <3>7. calm'[k] => \A d \in Batch : sent'[k][d] = 0
      BY <3>1, <3>4 DEF Unsent
    <3> QED  BY <3>3, <3>5, <3>6, <3>7 DEF RunTold, Execution, Unsent, Done
  <2> QED  BY <2>1, <2>2
<1>3. CASE SendDraft(h)
  <2>1. At(h, "send") /\ call[h].next \in Batch /\ UNCHANGED run
    BY <1>3, <1>t DEF SendDraft, Handling, Batch
  <2> DEFINE d == call[h].next
             left == [call[h] EXCEPT !.next = @ + 1]
             good == [left EXCEPT !.ok = @ + 1]
             poor == [left EXCEPT !.bad = @ + 1]
  <2>2. /\ left.key = call[h].key /\ good.key = call[h].key /\ poor.key = call[h].key
        /\ left.next = d + 1 /\ good.next = d + 1 /\ poor.next = d + 1
        /\ left.ok = call[h].ok /\ good.ok = call[h].ok + 1 /\ poor.ok = call[h].ok
    BY <1>t DEF Handling
  <2>3. \/ sent' = [sent EXCEPT ![call[h].key][d] = @ + 1] /\ Go(h, good) /\ UNCHANGED calm
        \/ Go(h, poor) /\ UNCHANGED <<sent, calm>>
        \/ Go(h, left) /\ UNCHANGED <<sent, calm>>
        \/ /\ sent' = [sent EXCEPT ![call[h].key][d] = @ + 1] /\ Go(h, poor)
           /\ calm' = [calm EXCEPT ![call[h].key] = FALSE]
    BY <1>3 DEF SendDraft
  <2> HIDE DEF left, good, poor, d
  <2>4. \A next : Go(h, next) => call'[h] = next
    BY <1>t DEF Go
  <2>5. CASE k # call[h].key
    <3>1. run'[k] = run[k] /\ sent'[k] = sent[k] /\ calm'[k] = calm[k]
      BY <1>t, <1>k, <2>1, <2>3, <2>5
    <3>2. ~Executing(h, k)'
      BY <2>2, <2>3, <2>4, <2>5 DEF Executing
    <3> QED  BY <1>o, <3>1, <3>2
  <2>6. CASE k = call[h].key
    <3> SUFFICES ASSUME calm'[k] PROVE RunTold(k)'
      BY DEF RunTold
    <3>1. \/ sent' = [sent EXCEPT ![k][d] = @ + 1] /\ Go(h, good)
          \/ UNCHANGED sent /\ (Go(h, poor) \/ Go(h, left))
      BY <1>t, <2>3, <2>6
    <3>2. calm[k]
      BY <1>t, <2>3, <2>6
    <3>3. Execution(h, k) /\ \A g \in Handlers : Executing(g, k) => g = h
      BY <1>u, <2>1, <2>6, <3>2 DEF RunTold, Execution, Executing
    <3>4. \A g \in Handlers : Executing(g, k)' => g = h
      BY <1>g, <3>3 DEF Executing, At
    <3>5. run'[k] = "EXECUTING" /\ call[h].ok \in Nat /\ d \in Batch /\ d \in Nat
      BY <1>t, <2>1, <3>3 DEF Execution, Handling, Batch, d
    <3>6. sent[k][d] = 0 /\ \A e \in Batch : e >= d => sent[k][e] = 0
      BY <3>3, <3>5 DEF Execution, d
    <3>7. CASE sent' = [sent EXCEPT ![k][d] = @ + 1] /\ Go(h, good)
      <4>1. call'[h].next = d + 1 /\ call'[h].ok = call[h].ok + 1
        BY <2>2, <2>4, <3>7
      <4>2. sent'[k][d] = 1 /\ \A e \in Batch : e # d => sent'[k][e] = sent[k][e]
        BY <1>t, <3>5, <3>6, <3>7
      <4>3. \A e \in Batch : e >= d + 1 => sent'[k][e] = 0
        BY <3>5, <3>6, <4>2 DEF Batch
      <4>4. \A e \in Batch : sent'[k][e] <= 1
        BY <1>u, <3>2, <4>2 DEF RunTold
      <4>5. Execution(h, k)'
        BY <3>4, <3>5, <4>1, <4>2, <4>3 DEF Execution
      <4> QED  BY <3>4, <3>5, <4>4, <4>5 DEF RunTold, Done
    <3>8. CASE UNCHANGED sent /\ (Go(h, poor) \/ Go(h, left))
      <4>1. call'[h].next = d + 1 /\ call'[h].ok = call[h].ok
        BY <2>2, <2>4, <3>8
      <4>2. \A e \in Batch : e >= d + 1 => sent'[k][e] = 0
        BY <3>5, <3>6, <3>8 DEF Batch
      <4>3. Execution(h, k)'
        BY <3>3, <3>4, <3>5, <3>8, <4>1, <4>2 DEF Execution, Unsent
      <4>4. \A e \in Batch : sent'[k][e] <= 1
        BY <1>u, <3>2, <3>8 DEF RunTold
      <4> QED  BY <3>4, <3>5, <4>3, <4>4 DEF RunTold, Done
    <3> QED  BY <3>1, <3>7, <3>8
  <2> QED  BY <2>5, <2>6
<1>4. CASE Finish(h) \/ FinishFails(h)
  <2>1. At(h, "send") /\ call[h].key \in Keys /\ UNCHANGED sent
    BY <1>4, <1>k DEF Finish, FinishFails
  <2>2. call'[h].at = "idle"
    BY <1>4, <1>t DEF Finish, FinishFails, Return, Go, Idle
  <2>3. CASE k # call[h].key
    <3>1. run'[k] = run[k] /\ sent'[k] = sent[k] /\ calm'[k] = calm[k]
      BY <1>4, <1>t, <2>3 DEF Finish, FinishFails
    <3> QED  BY <1>o, <2>2, <3>1 DEF Executing, At
  <2>4. CASE k = call[h].key
    <3> SUFFICES ASSUME calm'[k] PROVE RunTold(k)'
      BY DEF RunTold
    <3>1. Finish(h) /\ calm[k]
      BY <1>4, <1>t, <2>1, <2>4 DEF Finish, FinishFails
    <3>2. Execution(h, k)
      BY <1>u, <2>1, <2>4, <3>1 DEF RunTold, Executing
    <3>3. run'[k] = Outcome(call[h].ok, call[h].bad) /\ call[h].ok \in Nat
      BY <1>t, <2>4, <3>1 DEF Finish, Handling
    <3>4. \A g \in Handlers : ~Executing(g, k)'
      BY <1>g, <2>2, <3>2 DEF Execution, Executing, At
    <3>5. \A e \in Batch : sent'[k][e] <= 1
      BY <1>u, <2>1, <3>1 DEF RunTold
    <3>6. CASE call[h].ok = 0
      BY <2>1, <3>2, <3>3, <3>4, <3>5, <3>6 DEF RunTold, Execution, Outcome, Unsent, Done
    <3>7. CASE call[h].ok > 0
      BY <2>1, <3>2, <3>3, <3>4, <3>5, <3>7 DEF RunTold, Execution, Outcome, Done
    <3> QED  BY <3>3, <3>6, <3>7
  <2> QED  BY <2>3, <2>4
<1>5. CASE ~(ProposeWrite(h) \/ ApproveMark(h) \/ SendDraft(h) \/ Finish(h) \/ FinishFails(h))
  <2>1. UNCHANGED <<run, sent, calm>>
    BY <1>5
       DEF Serve, ProposeOffer, ConsumeDelete, CancelDelete, DeleteFails, Act, CreateLease,
           ActivateLease, OfferPdf, ApproveRead
  <2> QED  BY <1>o, <1>w, <1>5, <2>1
<1> QED  BY <1>1, <1>2, <1>3, <1>4, <1>5

LEMMA UndisturbedNext ==
  ASSUME Rows, Undisturbed, [Next]_vars
  PROVE  Undisturbed'
<1> USE DEF runs
<1>u. ASSUME NEW k \in Keys PROVE RunTold(k)
  BY <1>u DEF Undisturbed
<1>f. Fresh'
  BY FreshNext DEF Undisturbed
<1> SUFFICES ASSUME NEW k \in Keys PROVE RunTold(k)'
  BY <1>f DEF Undisturbed
<1>1. CASE Look \/ (\E i \in Ids : Expire(i)) \/ UNCHANGED vars
  BY <1>u, <1>1, RunKept DEF Look, Expire, vars
<1>2. ASSUME NEW h \in Handlers, Arrive(h) PROVE RunTold(k)'
  <2>1. UNCHANGED <<run, sent, calm>>
    BY <1>2 DEF Arrive, Ask, Propose, Confirm, CancelRead
  <2>2. At(h, "idle")
    BY <1>2 DEF Arrive, Ask, Propose, Confirm, CancelRead
  <2>3. \A g \in Handlers : Executing(g, k)' => call'[g] = call[g]
    BY <1>2, <2>2, OthersStay, Whereto DEF Executing, At, Step, ApproveMark, SendDraft
  <2> QED  BY <1>u, <2>1, <2>3, RunKept
<1>3. ASSUME NEW h \in Handlers, Crash(h) PROVE RunTold(k)'
  <2>1. /\ UNCHANGED <<run, sent>> /\ calm \in [Keys -> BOOLEAN]
        /\ calm' = IF At(h, "send") THEN [calm EXCEPT ![call[h].key] = FALSE] ELSE calm
    BY <1>3 DEF Crash, Rows, TypeOK
  <2>2. call'[h].at = "idle"
    BY <1>3 DEF Crash, Return, Go, Idle, Rows, TypeOK
  <2>3. \A g \in Handlers : Executing(g, k)' => call'[g] = call[g]
    BY <1>3, <2>2, OthersStay DEF Executing, At, Step
  <2>4. calm'[k] => calm[k]
    BY <2>1
  <2> QED  BY <1>u, <2>1, <2>3, <2>4, RunKept
<1> QED  BY <1>1, <1>2, <1>3, NextCases, RunServe

\* A draft of a run that nothing disturbed leaves at most once, however often the
\* run failed and was proposed again, and the recorded status tells whether
\* anything was sent.
THEOREM CalmRunsTellTheTruth == Spec => []StatusTellsWhatLeft
<1>1. Undisturbed => StatusTellsWhatLeft
  BY DEF Undisturbed, RunTold, StatusTellsWhatLeft, Unsent
<1> QED  BY <1>1, RowsInit, RowsNext, UndisturbedInit, UndisturbedNext, PTL DEF Spec

-----------------------------------------------------------------------------
(* Nothing is sent that was not asked for. *)

LEMMA Counting ==
  ASSUME NEW k \in Keys, NEW d \in Batch
  PROVE  /\ IsFiniteSet(Senders(k, d)) /\ Cardinality(Senders(k, d)) \in Nat
         /\ IsFiniteSet(Confirmed(k)) /\ Cardinality(Confirmed(k)) \in Nat
<1>1. IsFiniteSet(Ids)
  BY FS_Interval, ActionsAssumption DEF Ids
<1>2. Senders(k, d) \subseteq Handlers /\ Confirmed(k) \subseteq Ids
  BY DEF Senders, Confirmed
<1>3. IsFiniteSet(Senders(k, d)) /\ IsFiniteSet(Confirmed(k))
  BY <1>1, <1>2, FS_Subset, ActionsAssumption
<1> QED  BY <1>3, FS_CardinalityType

LEMMA AskedInit == Init => Asked
<1> SUFFICES ASSUME Init, NEW k \in Keys, NEW d \in Batch PROVE AskedFor(k, d)
  BY DEF Asked
<1>1. Senders(k, d) = {}
  BY DEF Init, Senders, Idle, At
<1>2. Cardinality(Senders(k, d)) = 0
  BY <1>1, FS_EmptySet
<1>3. sent[k][d] = 0 /\ ruled[k] = 0
  BY DEF Init
<1> QED  BY <1>2, <1>3, Counting DEF AskedFor

LEMMA ConfirmedGrows ==
  ASSUME Rows, [Next]_vars, NEW k \in Keys, NEW d \in Batch
  PROVE  /\ Confirmed(k) \subseteq Confirmed(k)' /\ IsFiniteSet(Confirmed(k)')
         /\ Cardinality(Confirmed(k)') \in Nat
         /\ Cardinality(Confirmed(k)) <= Cardinality(Confirmed(k)')
<1>1. Confirmed(k) \subseteq Confirmed(k)'
  BY ConfirmedStays DEF Confirmed
<1>2. IsFiniteSet(Ids) /\ Confirmed(k)' \subseteq Ids
  BY FS_Interval, ActionsAssumption DEF Ids, Confirmed
<1>3. IsFiniteSet(Confirmed(k)')
  BY <1>2, FS_Subset
<1> QED  BY <1>1, <1>3, FS_Subset, FS_CardinalityType

\* No new sender: what was asked for is still enough.
LEMMA AskedKept ==
  ASSUME Rows, [Next]_vars, NEW k \in Keys, NEW d \in Batch, AskedFor(k, d),
         sent'[k][d] = sent[k][d], ruled'[k] = ruled[k],
         Senders(k, d)' \subseteq Senders(k, d)
  PROVE  AskedFor(k, d)'
<1>1. Cardinality(Senders(k, d)') <= Cardinality(Senders(k, d)) /\ Cardinality(Senders(k, d)') \in Nat
  BY Counting, FS_Subset, FS_CardinalityType
<1>2. sent[k][d] \in Nat /\ ruled[k] \in Nat
  BY DEF Rows, TypeOK
<1>3. /\ Cardinality(Senders(k, d)) \in Nat /\ Cardinality(Confirmed(k)) \in Nat
      /\ Cardinality(Confirmed(k)') \in Nat
      /\ Cardinality(Confirmed(k)) <= Cardinality(Confirmed(k)')
  BY Counting, ConfirmedGrows
<1> QED  BY <1>1, <1>2, <1>3 DEF AskedFor

\* A new sender that was confirmed or that a rule asked for.
LEMMA AskedMore ==
  ASSUME Rows, [Next]_vars, NEW k \in Keys, NEW d \in Batch, AskedFor(k, d),
         NEW h \in Handlers,
         sent'[k][d] = sent[k][d], Senders(k, d)' \subseteq Senders(k, d) \cup {h},
         \/ ruled'[k] = ruled[k] + 1
         \/ ruled'[k] = ruled[k] /\ \E i \in Ids : i \notin Confirmed(k) /\ i \in Confirmed(k)'
  PROVE  AskedFor(k, d)'
<1>1. /\ IsFiniteSet(Senders(k, d) \cup {h})
      /\ Cardinality(Senders(k, d) \cup {h}) <= Cardinality(Senders(k, d)) + 1
  <2>1. IsFiniteSet(Senders(k, d)) /\ Cardinality(Senders(k, d)) \in Nat
    BY Counting
  <2>2. Cardinality(Senders(k, d) \cup {h}) =
          IF h \in Senders(k, d) THEN Cardinality(Senders(k, d)) ELSE Cardinality(Senders(k, d)) + 1
    BY <2>1, FS_AddElement
  <2>3. IsFiniteSet(Senders(k, d) \cup {h})
    BY <2>1, FS_AddElement
  <2> HIDE DEF Senders
  <2> QED  BY <2>1, <2>2, <2>3
<1>2. /\ Cardinality(Senders(k, d)') <= Cardinality(Senders(k, d)) + 1
      /\ Cardinality(Senders(k, d)') \in Nat
  <2>1. IsFiniteSet(Senders(k, d)') /\ Cardinality(Senders(k, d)') <= Cardinality(Senders(k, d) \cup {h})
    BY <1>1, FS_Subset
  <2> QED  BY <1>1, <2>1, Counting, FS_CardinalityType
<1>3. sent[k][d] \in Nat /\ ruled[k] \in Nat
  BY DEF Rows, TypeOK
<1>4. CASE ruled'[k] = ruled[k] + 1
  BY <1>2, <1>3, <1>4, Counting, ConfirmedGrows DEF AskedFor
<1>5. CASE ruled'[k] = ruled[k] /\ \E i \in Ids : i \notin Confirmed(k) /\ i \in Confirmed(k)'
  <2>1. PICK i \in Ids : i \notin Confirmed(k) /\ i \in Confirmed(k)'
    BY <1>5
  <2>2. /\ IsFiniteSet(Confirmed(k) \cup {i})
        /\ Cardinality(Confirmed(k) \cup {i}) = Cardinality(Confirmed(k)) + 1
    BY <2>1, Counting, FS_AddElement
  <2>3. Confirmed(k) \cup {i} \subseteq Confirmed(k)'
    BY <2>1, ConfirmedGrows
  <2>4. Cardinality(Confirmed(k)) + 1 <= Cardinality(Confirmed(k)')
    BY <2>2, <2>3, ConfirmedGrows, FS_Subset
  <2> QED  BY <1>2, <1>3, <1>5, <2>4, Counting, ConfirmedGrows DEF AskedFor
<1> QED  BY <1>4, <1>5

\* A sender that has sent its draft.
LEMMA AskedLess ==
  ASSUME Rows, [Next]_vars, NEW k \in Keys, NEW d \in Batch, AskedFor(k, d),
         NEW h \in Senders(k, d),
         sent'[k][d] \in {sent[k][d], sent[k][d] + 1}, ruled'[k] = ruled[k],
         Senders(k, d)' \subseteq Senders(k, d) \ {h}
  PROVE  AskedFor(k, d)'
<1>1. /\ IsFiniteSet(Senders(k, d) \ {h})
      /\ Cardinality(Senders(k, d) \ {h}) = Cardinality(Senders(k, d)) - 1
  BY Counting, FS_RemoveElement
<1>2. /\ Cardinality(Senders(k, d)') <= Cardinality(Senders(k, d)) - 1
      /\ Cardinality(Senders(k, d)') \in Nat
  <2>1. IsFiniteSet(Senders(k, d)') /\ Cardinality(Senders(k, d)') <= Cardinality(Senders(k, d) \ {h})
    BY <1>1, FS_Subset
  <2> QED  BY <1>1, <2>1, FS_CardinalityType
<1>3. sent[k][d] \in Nat /\ ruled[k] \in Nat
  BY DEF Rows, TypeOK
<1> QED  BY <1>2, <1>3, Counting, ConfirmedGrows DEF AskedFor

LEMMA AskedServe ==
  ASSUME Rows, Asked, NEW h \in Handlers, Serve(h), NEW k \in Keys, NEW d \in Batch
  PROVE  AskedFor(k, d)'
<1> USE DEF runs, pending
<1>t. /\ call \in [Handlers -> Handling] /\ call[h] \in Handling
      /\ sent \in [Keys -> [Batch -> Nat]] /\ ruled \in [Keys -> Nat]
  BY DEF Rows, TypeOK
<1>a. AskedFor(k, d)
  BY DEF Asked
<1>n. [Next]_vars
  BY DEF Next
<1>g. \A g \in Handlers : g # h => call'[g] = call[g]
  BY OthersStay DEF Step
<1>c. \A next : Go(h, next) => call'[h] = next
  BY <1>t DEF Go
\* The request h alone may join or leave the senders.
<1>s. Senders(k, d)' \subseteq Senders(k, d) \cup {h}
  BY <1>g DEF Senders, At
<1>o. ASSUME sent'[k][d] = sent[k][d], ruled'[k] = ruled[k], h \in Senders(k, d)' => h \in Senders(k, d)
      PROVE  AskedFor(k, d)'
  <2>1. Senders(k, d)' \subseteq Senders(k, d)
    BY <1>s, <1>o
  <2> QED  BY <1>a, <1>n, <1>o, <2>1, AskedKept
<1>1. CASE ConsumeDelete(h)
  <2> DEFINE i == call[h].id
  <2>1. i \in Ids /\ UNCHANGED <<sent, ruled>> /\ Drop(i, "confirmed")
    BY <1>1 DEF ConsumeDelete, Rows, Placed, At, AboutRow
  <2>2. CASE subject[i] # k
    <3>1. \/ Go(h, [Idle EXCEPT !.at = "approve", !.key = subject[i]])
          \/ Go(h, [call[h] EXCEPT !.at = "act"])
      BY <1>1 DEF ConsumeDelete
    <3>2. [call[h] EXCEPT !.at = "act"].at = "act"
      BY <1>t DEF Handling
    <3>3. [Idle EXCEPT !.at = "approve", !.key = subject[i]].key # k
      BY <2>2 DEF Idle
    <3>4. h \notin Senders(k, d)'
      BY <1>c, <3>1, <3>2, <3>3 DEF Senders, At
    <3> QED  BY <1>o, <2>1, <3>4
  <2>3. CASE subject[i] = k
    <3>1. i \notin Confirmed(k)
      BY <2>1 DEF Confirmed, Drop, Rows, TypeOK, RowFate
    <3>2. i \in Confirmed(k)'
      BY <2>1, <2>3 DEF Confirmed, Drop, Rows, TypeOK
    <3> QED  BY <1>a, <1>n, <1>s, <2>1, <3>1, <3>2, AskedMore
  <2> QED  BY <2>2, <2>3
<1>2. CASE ProposeOffer(h)
  <2>0. call[h].key \in Keys /\ UNCHANGED sent
    BY <1>2 DEF ProposeOffer, Rows, Placed, At, AboutRun
  <2>1. CASE Return(h) /\ UNCHANGED ruled
    <3>1. h \notin Senders(k, d)'
      BY <1>c, <2>1 DEF Return, Senders, At, Idle
    <3> QED  BY <1>o, <2>0, <2>1, <3>1
  <2>2. CASE /\ Go(h, [Idle EXCEPT !.at = "approve", !.key = call[h].key])
             /\ ruled' = [ruled EXCEPT ![call[h].key] = @ + 1]
    <3>1. CASE call[h].key = k
      <4>1. ruled'[k] = ruled[k] + 1
        BY <1>t, <2>2, <3>1
      <4> QED  BY <1>a, <1>n, <1>s, <2>0, <4>1, AskedMore
    <3>2. CASE call[h].key # k
      <4>1. [Idle EXCEPT !.at = "approve", !.key = call[h].key].key # k
        BY <3>2 DEF Idle
      <4>2. h \notin Senders(k, d)' /\ ruled'[k] = ruled[k]
        BY <1>c, <1>t, <2>2, <3>2, <4>1 DEF Senders
      <4> QED  BY <1>o, <2>0, <4>2
    <3> QED  BY <3>1, <3>2
  <2> QED  BY <1>2, <2>1, <2>2 DEF ProposeOffer
<1>3. CASE SendDraft(h)
  <2> DEFINE e == call[h].next
             left == [call[h] EXCEPT !.next = @ + 1]
             good == [left EXCEPT !.ok = @ + 1]
             poor == [left EXCEPT !.bad = @ + 1]
  <2>1. /\ left.key = call[h].key /\ good.key = call[h].key /\ poor.key = call[h].key
        /\ left.next = e + 1 /\ good.next = e + 1 /\ poor.next = e + 1
        /\ left.at = call[h].at /\ good.at = call[h].at /\ poor.at = call[h].at
    BY <1>t DEF Handling
  <2>2. /\ sent' = [sent EXCEPT ![call[h].key][e] = @ + 1] \/ UNCHANGED sent
        /\ Go(h, good) \/ Go(h, poor) \/ Go(h, left)
    BY <1>3 DEF SendDraft
  <2> HIDE DEF left, good, poor
  <2>3. At(h, "send") /\ call[h].key \in Keys /\ e \in Batch /\ UNCHANGED ruled
    <3>1. At(h, "send") /\ e <= Drafts /\ UNCHANGED ruled
      BY <1>3 DEF SendDraft
    <3>2. call[h].key \in Keys
      BY <3>1 DEF Rows, Placed, At, AboutRun
    <3>3. e \in Batch
      BY <1>t, <3>1 DEF Handling, Batch
    <3> QED  BY <3>1, <3>2, <3>3
  <2>4. call'[h].key = call[h].key /\ call'[h].next = e + 1 /\ call'[h].at = "send"
    BY <1>c, <2>1, <2>2, <2>3 DEF At
  <2> HIDE DEF e
  <2>5. e \in Nat /\ d \in Nat
    BY <2>3 DEF Batch
  <2>6. CASE k = call[h].key /\ d = e
    <3>1. h \in Senders(k, d)
      BY <2>3, <2>5, <2>6 DEF Senders, e
    <3>2. h \notin Senders(k, d)'
      BY <2>4, <2>5, <2>6 DEF Senders, At
    <3>3. Senders(k, d)' \subseteq Senders(k, d) \ {h}
      BY <1>s, <3>2
    <3>4. sent'[k][d] \in {sent[k][d], sent[k][d] + 1}
      BY <1>t, <2>2, <2>6
    <3> QED  BY <1>a, <1>n, <2>3, <3>1, <3>3, <3>4, AskedLess
  <2>7. CASE ~(k = call[h].key /\ d = e)
    <3>1. sent'[k][d] = sent[k][d]
      BY <1>t, <2>2, <2>3, <2>7
    <3>2. h \in Senders(k, d)' => h \in Senders(k, d)
      BY <2>3, <2>4, <2>5 DEF Senders, At, e
    <3> QED  BY <1>o, <2>3, <3>1, <3>2
  <2> QED  BY <2>6, <2>7
<1>4. CASE ApproveRead(h)
  <2>1. [call[h] EXCEPT !.at = "mark"].key = call[h].key
    BY <1>t DEF Handling
  <2>2. h \in Senders(k, d)' => h \in Senders(k, d)
    <3>1. CASE Return(h)
      BY <1>c, <3>1 DEF Return, Senders, At, Idle
    <3>2. CASE Go(h, [call[h] EXCEPT !.at = "mark"])
      <4>1. call'[h].key = call[h].key /\ At(h, "approve")
        BY <1>4, <1>c, <2>1, <3>2 DEF ApproveRead
      <4> QED  BY <4>1 DEF Senders, At
    <3> QED  BY <1>4, <3>1, <3>2 DEF ApproveRead
  <2> QED  BY <1>o, <1>4, <2>2 DEF ApproveRead
<1>5. CASE ApproveMark(h)
  <2>1. /\ [call[h] EXCEPT !.at = "send"].key = call[h].key
        /\ Go(h, [call[h] EXCEPT !.at = "send"]) /\ At(h, "mark")
    BY <1>t, <1>5 DEF Handling, ApproveMark
  <2>2. call'[h].key = call[h].key
    BY <1>c, <2>1
  <2>3. h \in Senders(k, d)' => h \in Senders(k, d)
    BY <2>1, <2>2 DEF Senders, At
  <2> QED  BY <1>o, <1>5, <2>3 DEF ApproveMark
<1>6. CASE ~(ConsumeDelete(h) \/ ProposeOffer(h) \/ SendDraft(h) \/ ApproveRead(h) \/ ApproveMark(h))
  <2>1. UNCHANGED <<sent, ruled>>
    BY <1>6
       DEF Serve, ProposeWrite, CancelDelete, DeleteFails, Act, CreateLease,
           ActivateLease, OfferPdf, Finish, FinishFails
  <2>2. h \in Senders(k, d)' => h \in Senders(k, d)
    BY <1>6, Whereto DEF Senders, At, Step
  <2> QED  BY <1>o, <2>1, <2>2
<1> QED  BY <1>1, <1>2, <1>3, <1>4, <1>5, <1>6

LEMMA AskedNext ==
  ASSUME Rows, Asked, [Next]_vars
  PROVE  Asked'
<1> USE DEF runs
<1> SUFFICES ASSUME NEW k \in Keys, NEW d \in Batch PROVE AskedFor(k, d)'
  BY DEF Asked
<1>a. AskedFor(k, d)
  BY DEF Asked
<1>1. CASE Look \/ (\E i \in Ids : Expire(i)) \/ UNCHANGED vars
  <2>1. UNCHANGED <<sent, ruled, call>>
    BY <1>1 DEF Look, Expire, vars
  <2>2. Senders(k, d)' \subseteq Senders(k, d)
    BY <2>1 DEF Senders, At
  <2> QED  BY <1>a, <2>1, <2>2, AskedKept
<1>2. ASSUME NEW h \in Handlers, Arrive(h) \/ Crash(h) PROVE AskedFor(k, d)'
  <2>1. UNCHANGED <<sent, ruled>>
    BY <1>2 DEF Arrive, Ask, Propose, Confirm, CancelRead, Crash
  <2>2. \A g \in Handlers : g # h => call'[g] = call[g]
    BY <1>2, OthersStay DEF Step
  <2>3. h \in Senders(k, d)' => UNCHANGED call
    <3>1. CASE Crash(h)
      BY <3>1 DEF Crash, Return, Go, Idle, Senders, At, Rows, TypeOK
    <3>2. CASE Arrive(h)
      <4>1. At(h, "idle")
        BY <3>2 DEF Arrive, Ask, Propose, Confirm, CancelRead
      <4> QED  BY <3>2, <4>1, Whereto
               DEF Senders, At, Step, ConsumeDelete, ProposeOffer, SendDraft, ApproveRead,
                   ApproveMark
    <3> QED  BY <1>2, <3>1, <3>2
  <2>4. Senders(k, d)' \subseteq Senders(k, d)
    BY <2>2, <2>3 DEF Senders, At
  <2> QED  BY <1>a, <2>1, <2>4, AskedKept
<1> QED  BY <1>1, <1>2, AskedServe, NextCases

\* "Never silent-sends unless an enabled rule has autoExecute=true"
\* (detectAndPropose): whatever the requests do, a draft is sent no more often
\* than its run was confirmed or a rule asked for it, and a direct action takes
\* effect once, after its confirmation.
THEOREM NothingIsSilent == Spec => []NeverSilent
<1>1. ASSUME Rows, Directly, Asked PROVE NeverSilent
  <2>1. ASSUME NEW k \in Keys, NEW d \in Batch
        PROVE  sent[k][d] <= Cardinality(Confirmed(k)) + ruled[k]
    <3>1. AskedFor(k, d) /\ sent[k][d] \in Nat /\ ruled[k] \in Nat
      BY <1>1 DEF Asked, Rows, TypeOK
    <3> QED  BY <3>1, Counting DEF AskedFor
  <2> QED  BY <1>1, <2>1 DEF NeverSilent, Directly, DirectOnce
<1> QED  BY <1>1, RowsInit, RowsNext, DirectInit, DirectNext, AskedInit, AskedNext, PTL DEF Spec

---------------------------------------------------------------------------
(***************************************************************************)
(* The quota the assistant works under (AiQuota), for any number of        *)
(* requests, months, plans and limits, plans without a limit included: its *)
(* types, that the usage of a month is exactly what was answered, is held, *)
(* or was lost, and that what was taken under a limit never exceeds one.   *)
(***************************************************************************)

LEMMA QuotaTypeInit == QuotaInit => QuotaTypeOK
BY QuotaAssumption DEF QuotaInit, QuotaTypeOK, QuotaPlaces, Months, NoLimit, NoRow

LEMMA QuotaTypeStep == QuotaTypeOK /\ [QuotaNext]_quotaVars => QuotaTypeOK'
<1> SUFFICES ASSUME QuotaTypeOK, [QuotaNext]_quotaVars PROVE QuotaTypeOK'
  OBVIOUS
<1> USE QuotaAssumption DEF QuotaTypeOK, QuotaPlaces, Months, Goto, NoLimit, NoRow, Less
<1>1. CASE UNCHANGED quotaVars
  BY <1>1 DEF quotaVars
<1>2. CASE NextMonth
  BY <1>2 DEF NextMonth
<1>3. ASSUME NEW p \in Plans, ChangePlan(p) PROVE QuotaTypeOK'
  BY <1>3 DEF ChangePlan
<1>4. ASSUME NEW r \in Requests, Request(r) PROVE QuotaTypeOK'
  <2>1. CASE Admit(r) \/ Refuse(r) \/ Fail(r)
    BY <2>1 DEF Admit, Refuse, Fail
  <2>2. CASE ReadPlan(r)
    BY <2>2 DEF ReadPlan
  <2>3. CASE EnsureRow(r)
    BY <2>3 DEF EnsureRow
  <2> DEFINE m == period[r]
  <2>0. used[m] \in Nat \/ used[m] = -1
    OBVIOUS
  <2>4. CASE Reserve(r)
    <3>1. used[m] + 1 \in Nat \cup {NoRow}
      BY <2>0
    <3>2. used' = [used EXCEPT ![m] = used[m] + 1]
      BY <2>4 DEF Reserve
    <3>3. used' \in [Months -> Nat \cup {NoRow}]
      BY <3>1, <3>2
    <3>4. free' \in [Months -> Nat]
      BY <2>4 DEF Reserve
    <3> QED  BY <2>4, <3>3, <3>4 DEF Reserve
  <2>5. CASE Succeed(r) \/ Lose(r)
    <3>1. answered' \in [Months -> Nat] /\ lost' \in [Months -> Nat]
      <4>0. answered[m] + 1 \in Nat /\ lost[m] + 1 \in Nat
        OBVIOUS
      <4>1. CASE Succeed(r)
        <5>1. answered' = [answered EXCEPT ![m] = answered[m] + 1] /\ lost' = lost
          BY <4>1 DEF Succeed
        <5> QED  BY <4>0, <5>1
      <4>2. CASE Lose(r)
        <5>1. lost' = [lost EXCEPT ![m] = lost[m] + 1] /\ answered' = answered
          BY <4>2 DEF Lose
        <5> QED  BY <4>0, <5>1
      <4> QED  BY <2>5, <4>1, <4>2
    <3> QED  BY <2>5, <3>1 DEF Succeed, Lose
  <2>6. CASE Release(r)
    <3>1. (IF used[m] > 0 THEN used[m] - 1 ELSE 0) \in Nat \cup {NoRow}
      BY <2>0
    <3>2. used' = [used EXCEPT ![m] = IF used[m] > 0 THEN used[m] - 1 ELSE 0]
      BY <2>6 DEF Release
    <3>3. used' \in [Months -> Nat \cup {NoRow}]
      BY <3>1, <3>2
    <3>4. free' \in [Months -> Nat]
      BY <2>6 DEF Release
    <3> QED  BY <2>6, <3>3, <3>4 DEF Release
  <2> QED  BY <1>4, <2>1, <2>2, <2>3, <2>4, <2>5, <2>6 DEF Request
<1> QED  BY <1>1, <1>2, <1>3, <1>4 DEF QuotaNext

\* Requests, rows and counts are well typed.
THEOREM QuotaTypeCorrect == QuotaSpec => []QuotaTypeOK
<1>1. QuotaInit => QuotaTypeOK
  BY QuotaTypeInit
<1>2. QuotaTypeOK /\ [QuotaNext]_quotaVars => QuotaTypeOK'
  BY QuotaTypeStep
<1> QED  BY <1>1, <1>2, PTL DEF QuotaSpec

---------------------------------------------------------------------------
\* The inductive invariant of the quota: a request past EnsureRow has its row.

RowsExist ==
  \A r \in Requests :
    pc[r] \in {"ready", "operating", "failed"} => used[period[r]] # NoRow

QuotaInv == QuotaTypeOK /\ RowsExist /\ UsageIsExact

LEMMA HoldersFinite ==
  ASSUME NEW m PROVE IsFiniteSet(Holders(m)) /\ Cardinality(Holders(m)) \in Nat
<1>1. IsFiniteSet(Holders(m))
  BY FS_Subset, QuotaAssumption DEF Holders
<1> QED  BY <1>1, FS_CardinalityType

LEMMA ExactInit == QuotaInit => QuotaInv
<1> SUFFICES ASSUME QuotaInit PROVE QuotaInv
  OBVIOUS
<1>1. \A m : Cardinality(Holders(m)) = 0
  <2>1. \A m : Holders(m) = {}
    BY DEF QuotaInit, Holders
  <2> QED  BY <2>1, FS_EmptySet
<1> QED  BY <1>1, QuotaTypeInit DEF QuotaInit, QuotaInv, RowsExist, UsageIsExact, Months

\* A step that neither takes nor frees a unit.
LEMMA ExactKept ==
  ASSUME QuotaInv, QuotaTypeOK', RowsExist', UNCHANGED <<answered, lost>>,
         \A m \in Months : Holders(m)' = Holders(m),
         \A m \in Months : used'[m] = used[m] \/ (used[m] = NoRow /\ used'[m] = 0)
  PROVE  QuotaInv'
BY DEF QuotaInv, UsageIsExact, NoRow

\* A step by which request r frees the unit it holds.
LEMMA ExactFreed ==
  ASSUME QuotaInv, QuotaTypeOK', NEW r \in Requests, pc[r] \in {"operating", "failed"},
         NEW p \in Months, period[r] = p,
         pc' = [pc EXCEPT ![r] = "idle"], period' = period,
         \A m \in Months : m # p =>
           used'[m] = used[m] /\ answered'[m] = answered[m] /\ lost'[m] = lost[m],
         used[p] - answered[p] - lost[p] = used'[p] - answered'[p] - lost'[p] + 1,
         used'[p] # NoRow
  PROVE  QuotaInv'
<1> USE DEF QuotaInv, QuotaTypeOK
<1>1. RowsExist'
  BY DEF RowsExist
<1>2. ASSUME NEW m \in Months, m # p PROVE Holders(m)' = Holders(m)
  BY <1>2 DEF Holders
<1>3. Cardinality(Holders(p)') = Cardinality(Holders(p)) - 1
  <2>1. Holders(p)' = {q \in Requests : pc'[q] \in {"operating", "failed"} /\ period[q] = p}
    BY DEF Holders
  <2>2. Holders(p)' = Holders(p) \ {r} /\ r \in Holders(p)
    BY <2>1 DEF Holders
  <2>3. IsFiniteSet(Holders(p))
    BY HoldersFinite
  <2>4. Cardinality(Holders(p) \ {r}) = Cardinality(Holders(p)) - 1
    BY <2>2, <2>3, FS_RemoveElement, Zenon
  <2> QED  BY <2>2, <2>4, Zenon
<1>4. used[p] # NoRow
  BY DEF RowsExist
<1>5. UsageIsExact'
  <2> SUFFICES ASSUME NEW m \in Months
               PROVE (IF used'[m] = NoRow THEN 0 ELSE used'[m]) =
                        answered'[m] + Cardinality(Holders(m)') + lost'[m]
    BY DEF UsageIsExact
  <2>1. CASE m # p
    BY <1>2, <2>1 DEF UsageIsExact
  <2>2. CASE m = p
    <3>1. used[m] = answered[m] + Cardinality(Holders(m)) + lost[m]
      BY <1>4, <2>2 DEF UsageIsExact
    <3> QED  BY <1>3, <2>2, <3>1, HoldersFinite DEF NoRow
  <2> QED  BY <2>1, <2>2
<1> QED  BY <1>1, <1>5

LEMMA ExactStep == QuotaInv /\ [QuotaNext]_quotaVars => QuotaInv'
<1> SUFFICES ASSUME QuotaInv, [QuotaNext]_quotaVars PROVE QuotaInv'
  OBVIOUS
<1>0. QuotaTypeOK'
  BY QuotaTypeStep DEF QuotaInv
<1> USE DEF Goto
<1>1. CASE UNCHANGED quotaVars \/ NextMonth \/ \E p \in Plans : ChangePlan(p)
  <2>1. UNCHANGED <<used, pc, period, answered, lost>>
    BY <1>1 DEF quotaVars, NextMonth, ChangePlan
  <2> QED  BY <1>0, <2>1, ExactKept DEF QuotaInv, RowsExist, Holders
<1>2. ASSUME NEW r \in Requests, Request(r) PROVE QuotaInv'
  <2>1. CASE Admit(r) \/ Refuse(r) \/ Fail(r) \/ ReadPlan(r)
    <3>1. /\ UNCHANGED <<used, period, answered, lost>>
          /\ \A q \in Requests : pc'[q] \in {"operating", "failed"} <=> pc[q] \in {"operating", "failed"}
          /\ \A q \in Requests : pc'[q] = "ready" => pc[q] = "ready"
      BY <2>1 DEF Admit, Refuse, Fail, ReadPlan, QuotaInv, QuotaTypeOK
    <3> QED  BY <1>0, <3>1, ExactKept DEF QuotaInv, RowsExist, Holders
  <2>2. CASE EnsureRow(r)
    <3>1. /\ used'[month] # NoRow
          /\ \A m \in Months :
               used'[m] = used[m] \/ (used[m] = NoRow /\ used'[m] = 0)
      BY <2>2 DEF EnsureRow, QuotaInv, QuotaTypeOK, NoRow
    <3>2. \A q \in Requests \ {r} : pc'[q] = pc[q] /\ period'[q] = period[q]
      BY <2>2 DEF EnsureRow, QuotaInv, QuotaTypeOK
    <3>3. pc[r] = "planned" /\ pc'[r] = "ready" /\ period'[r] = month
      BY <2>2 DEF EnsureRow, QuotaInv, QuotaTypeOK
    <3>4. RowsExist'
      BY <3>1, <3>2, <3>3 DEF RowsExist, QuotaInv, QuotaTypeOK, NoRow
    <3>5. \A m \in Months : Holders(m)' = Holders(m)
      BY <3>2, <3>3 DEF Holders
    <3> QED  BY <1>0, <2>2, <3>1, <3>4, <3>5, ExactKept DEF EnsureRow
  <2>3. CASE Reserve(r)
    <3> USE DEF QuotaInv, QuotaTypeOK
    <3> DEFINE p == period[r]
    <3>1. p \in Months /\ used[p] # NoRow /\ used[p] \in Nat
      BY <2>3 DEF Reserve, RowsExist
    <3>2. /\ used' = [used EXCEPT ![p] = @ + 1] /\ period' = period
          /\ pc[r] = "ready" /\ pc' = [pc EXCEPT ![r] = "operating"]
          /\ UNCHANGED <<answered, lost>>
      BY <2>3 DEF Reserve
    <3>3. RowsExist'
      BY <3>1, <3>2 DEF RowsExist, NoRow
    <3>4. \A m \in Months \ {p} : Holders(m)' = Holders(m)
      BY <3>2 DEF Holders
    <3>5. Cardinality(Holders(p)') = Cardinality(Holders(p)) + 1
      <4>1. Holders(p)' = Holders(p) \cup {r} /\ r \notin Holders(p)
        BY <3>2 DEF Holders
      <4> QED  BY <4>1, HoldersFinite, FS_AddElement
    <3>6. UsageIsExact'
      <4> SUFFICES ASSUME NEW m \in Months
                   PROVE (IF used'[m] = NoRow THEN 0 ELSE used'[m]) =
                            answered'[m] + Cardinality(Holders(m)') + lost'[m]
        BY DEF UsageIsExact
      <4>1. CASE m = p
        <5>1. used[p] = answered[p] + Cardinality(Holders(p)) + lost[p]
          BY <3>1 DEF UsageIsExact
        <5>2. used'[p] = used[p] + 1 /\ used'[p] # NoRow
          BY <3>1, <3>2 DEF NoRow
        <5> QED  BY <3>1, <3>2, <3>5, <4>1, <5>1, <5>2, HoldersFinite
      <4>2. CASE m # p
        BY <3>2, <3>4, <4>2 DEF UsageIsExact
      <4> QED  BY <4>1, <4>2
    <3> QED  BY <1>0, <3>3, <3>6
  <2>4. CASE Succeed(r) \/ Lose(r)
    <3>1. PICK p \in Months : period[r] = p /\ used[p] \in Nat
      BY <2>4 DEF Succeed, Lose, QuotaInv, QuotaTypeOK, RowsExist
    <3> QED  BY <1>0, <2>4, <3>1, ExactFreed DEF Succeed, Lose, QuotaInv,
                                                 QuotaTypeOK, NoRow
  <2>5. CASE Release(r)
    <3> USE DEF QuotaInv, QuotaTypeOK
    <3>1. PICK p \in Months : /\ period[r] = p /\ used[p] \in Nat
                              /\ pc[r] = "failed" /\ r \in Holders(p)
      BY <2>5 DEF Release, RowsExist, Holders
    <3>2. Cardinality(Holders(p)) > 0
      BY <3>1, HoldersFinite, FS_EmptySet
    <3>3. used[p] > 0
      <4>1. used[p] = answered[p] + Cardinality(Holders(p)) + lost[p]
        BY <3>1 DEF UsageIsExact, NoRow
      <4> QED  BY <3>1, <3>2, <4>1, HoldersFinite
    <3>4. used' = [used EXCEPT ![p] = used[p] - 1]
      BY <2>5, <3>1, <3>3 DEF Release, Less
    <3>5. used'[p] = used[p] - 1 /\ \A m \in Months : m # p => used'[m] = used[m]
      BY <3>1, <3>4
    <3>6. UNCHANGED <<period, answered, lost>> /\ pc' = [pc EXCEPT ![r] = "idle"]
      BY <2>5 DEF Release
    <3>7. answered[p] \in Nat /\ lost[p] \in Nat
      BY <3>1
    <3>8. used[p] - answered[p] - lost[p] = used'[p] - answered'[p] - lost'[p] + 1
      BY <3>1, <3>5, <3>6, <3>7
    <3>9. used'[p] # NoRow
      BY <3>1, <3>3, <3>5 DEF NoRow
    <3> QED  BY <1>0, <3>1, <3>5, <3>6, <3>8, <3>9, ExactFreed
  <2> QED  BY <1>2, <2>1, <2>2, <2>3, <2>4, <2>5 DEF Request
<1> QED  BY <1>1, <1>2 DEF QuotaNext

\* No unit is given back twice, to the wrong month or without having been taken.
THEOREM UsageAccountedFor == QuotaSpec => []UsageIsExact
<1>1. QuotaInv /\ [QuotaNext]_quotaVars => QuotaInv'
  BY ExactStep
<1>2. QuotaInv => UsageIsExact
  BY DEF QuotaInv
<1> QED  BY <1>1, <1>2, ExactInit, PTL DEF QuotaSpec

---------------------------------------------------------------------------
\* The limit: what a request has read is the limit of some plan.

LimitsRead ==
  \A r \in Requests : pc[r] \in {"planned", "ready"} => \E p \in Plans : limit[r] = Quota[p]

LEMMA LimitStep ==
  QuotaInv /\ QuotaInv' /\ LimitsRead /\ UsedWithinLimit /\ [QuotaNext]_quotaVars
    => LimitsRead' /\ UsedWithinLimit'
<1> SUFFICES ASSUME QuotaInv, QuotaInv', LimitsRead, UsedWithinLimit, [QuotaNext]_quotaVars
             PROVE  LimitsRead' /\ UsedWithinLimit'
  OBVIOUS
<1> USE QuotaAssumption DEF QuotaInv, QuotaTypeOK, Goto
<1>1. CASE UNCHANGED quotaVars \/ NextMonth \/ \E p \in Plans : ChangePlan(p)
  BY <1>1 DEF quotaVars, NextMonth, ChangePlan, LimitsRead, UsedWithinLimit
<1>2. ASSUME NEW r \in Requests, Request(r) PROVE LimitsRead' /\ UsedWithinLimit'
  <2>1. CASE Admit(r) \/ Refuse(r) \/ Fail(r) \/ Succeed(r) \/ Lose(r)
    BY <2>1 DEF Admit, Refuse, Fail, Succeed, Lose, LimitsRead,
                UsedWithinLimit
  <2>2. CASE ReadPlan(r)
    BY <2>2 DEF ReadPlan, LimitsRead, UsedWithinLimit
  <2>3. CASE EnsureRow(r)
    BY <2>3 DEF EnsureRow, LimitsRead, UsedWithinLimit, NoRow
  <2>4. CASE Reserve(r)
    <3> DEFINE m == period[r]
    <3>1. m \in Months /\ used[m] \in Nat /\ free[m] \in Nat
      BY <2>4 DEF Reserve, RowsExist
    <3>2. /\ used' = [used EXCEPT ![m] = used[m] + 1]
          /\ free' = [free EXCEPT ![m] = IF Free(r) THEN free[m] + 1 ELSE free[m]]
      BY <2>4 DEF Reserve
    <3>3. CASE Free(r)
      <4>1. used'[m] - free'[m] = used[m] - free[m]
        BY <3>1, <3>2, <3>3
      <4>2. UsedWithinLimit'
        BY <3>1, <3>2, <3>3, <4>1 DEF UsedWithinLimit
      <4> QED  BY <2>4, <4>2 DEF Reserve, LimitsRead
    <3>4. CASE ~Free(r)
      <4>1. PICK p \in Plans : limit[r] = Quota[p]
        BY <2>4 DEF Reserve, LimitsRead
      <4>2. used[m] + 1 <= Quota[p] /\ Quota[p] # NoLimit
        BY <2>4, <3>1, <3>4, <4>1 DEF Reserve, HasRoom, Free, NoLimit
      <4>3. UsedWithinLimit'
        BY <3>1, <3>2, <3>4, <4>2 DEF UsedWithinLimit, NoLimit
      <4> QED  BY <2>4, <4>3 DEF Reserve, LimitsRead
    <3> QED  BY <3>3, <3>4
  <2>5. CASE Release(r)
    <3> DEFINE m == period[r]
    <3>1. m \in Months /\ used[m] \in Nat \cup {NoRow} /\ free[m] \in Nat
      BY <2>5 DEF Release
    <3>2. /\ used' = [used EXCEPT ![m] = Less(used[m])]
          /\ free' = [free EXCEPT ![m] = IF Free(r) THEN Less(free[m]) ELSE free[m]]
      BY <2>5 DEF Release
    <3>3. used'[m] > free'[m] => used[m] > free[m] /\ used'[m] - free'[m] <= used[m] - free[m]
      BY <3>1, <3>2 DEF Less, NoRow
    <3>4. \A l \in Months : l # m => used'[l] = used[l] /\ free'[l] = free[l]
      BY <3>1, <3>2
    <3>5. used'[m] \in Nat /\ free'[m] \in Nat
      BY <3>1, <3>2 DEF Less, NoRow
    <3>6. UsedWithinLimit'
      <4> SUFFICES ASSUME NEW l \in Months, used'[l] > free'[l]
                   PROVE \E p \in Plans : Quota[p] # NoLimit /\ used'[l] - free'[l] <= Quota[p]
        BY DEF UsedWithinLimit
      <4>1. used[l] > free[l] /\ used'[l] - free'[l] <= used[l] - free[l]
        BY <3>1, <3>3, <3>4 DEF NoRow
      <4>2. PICK p \in Plans : Quota[p] # NoLimit /\ used[l] - free[l] <= Quota[p]
        BY <4>1 DEF UsedWithinLimit
      <4>3. used'[l] - free'[l] <= Quota[p]
        <5>1. Quota[p] \in Int /\ used[l] - free[l] \in Int /\ used'[l] - free'[l] \in Int
          BY <3>1, <3>4, <3>5 DEF NoLimit, NoRow
        <5> QED  BY <4>1, <4>2, <5>1
      <4> QED  BY <4>2, <4>3
    <3> QED  BY <2>5, <3>6 DEF Release, LimitsRead
  <2> QED  BY <1>2, <2>1, <2>2, <2>3, <2>4, <2>5 DEF Request
<1> QED  BY <1>1, <1>2 DEF QuotaNext

\* Whatever the plans of the organisation and their limits, and whatever number
\* of simultaneous requests, failures and changes of plan, the units of a month
\* taken under a limit and not given back never exceed the highest limit; those
\* taken on a plan without one are counted apart, before a change to a limited
\* plan and after it alike.
THEOREM LimitNeverExceeded == QuotaSpec => []UsedWithinLimit
<1>1. QuotaInit => QuotaInv /\ LimitsRead /\ UsedWithinLimit
  BY ExactInit DEF QuotaInit, LimitsRead, UsedWithinLimit, NoRow, Months
<1>2. QuotaInv /\ LimitsRead /\ UsedWithinLimit /\ [QuotaNext]_quotaVars
        => QuotaInv' /\ LimitsRead' /\ UsedWithinLimit'
  BY ExactStep, LimitStep
<1> QED  BY <1>1, <1>2, PTL DEF QuotaSpec

=============================================================================
