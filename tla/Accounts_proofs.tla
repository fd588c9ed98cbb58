-------------------------- MODULE Accounts_proofs --------------------------
(***************************************************************************)
(* What TLAPS proves of Accounts, for any number of requests, e-mails,     *)
(* accounts and invitations: its types, that an invitation or the file of  *)
(* a tenant leads to one account at most, and that a temporary password    *)
(* has to be changed.  Then, of the trials given at sign-up (TrialClaims). *)
(***************************************************************************)
EXTENDS Accounts, TrialClaims, SequenceTheorems, FiniteSets, TLAPS

---------------------------------------------------------------------------
\* The inductive invariant.

Rows == [mail : Emails \cup {NoMail}, kind : Kinds, inv : Nat, active : BOOLEAN,
         member : {"none", "on", "off"}, temp : BOOLEAN, must : BOOLEAN, status : Statuses,
         gone : BOOLEAN]

Invitations == [mail : Emails, accepted : BOOLEAN, revoked : BOOLEAN, expired : BOOLEAN]

\* Where a request may be: some are not about an account.
Without == {"idle", "owner", "self", "staff", "admin", "invite", "accept", "revoke"}
Places  == Without \cup
  {"enable", "disable", "enableMember", "disableMember", "delete", "repair", "provision",
   "grant", "deliver", "suspend", "archive", "reactivate", "change", "forgotten", "activate",
   "visit", "switchOn", "join"}

Calls == [at : Places, id : Nat, mail : Emails \cup {NoMail}, inv : Nat, say : Statuses,
          late : BOOLEAN]

Typed ==
  /\ user \in Seq(Rows) /\ invite \in Seq(Invitations) /\ req \in [Requests -> Calls]
  /\ link \in Nat /\ asked \in 0..MaxAsked /\ stops \in 0..MaxStops
  /\ stale \subseteq DOMAIN user

\* What a request is about exists, and what it will write of the use of an account is
\* so, unless the password was replaced in the meantime.
Sound(c) ==
  /\ c.id # 0 => c.id \in DOMAIN user
  /\ c.at \notin Without \cup {"provision", "grant"} => c.id # 0
  /\ c.at \in {"provision", "grant"} /\ c.id # 0 => user[c.id].kind = "portal"
  /\ c.inv # 0 => c.inv \in DOMAIN invite
  /\ c.at \in {"accept", "revoke"} => c.inv # 0
  /\ c.at = "invite" => c.mail \in Emails
  /\ c.at = "activate" /\ ~c.late => ~user[c.id].temp
  /\ c.at = "reactivate" /\ ~c.late /\ c.say = "ACTIVATED" /\ c.id \notin stale
       => ~user[c.id].temp

CallInv == \A r \in Requests : Sound(req[r])

\* No two accounts have the same e-mail.
MailsUnique ==
  \A i, j \in DOMAIN user : user[i].mail = user[j].mail /\ user[i].mail # NoMail => i = j

\* An account that is not deleted keeps the e-mail it was made for; the tenant's file is
\* linked to a portal account from the first on.
HolderInv ==
  /\ link # 0 => link \in DOMAIN user /\ user[link].kind = "portal"
  /\ \A i \in DOMAIN user :
       /\ user[i].kind = "portal" => link # 0 /\ user[i].inv = 0
       /\ user[i].kind = "portal" /\ Living(i) => user[i].mail = TenantMail
       /\ user[i].inv # 0 => user[i].inv \in DOMAIN invite
       /\ user[i].inv # 0 /\ Living(i) => user[i].mail = invite[user[i].inv].mail

IInv == Typed /\ CallInv /\ MailsUnique /\ HolderInv /\ TemporaryIsChanged


---------------------------------------------------------------------------
\* Sequences of rows.

LEMMA Indices == ASSUME NEW S, NEW s \in Seq(S) PROVE DOMAIN s = 1..Len(s) /\ Len(s) \in Nat
BY LenProperties

\* A row is added at the end.
LEMMA AddRow ==
  ASSUME NEW S, NEW s \in Seq(S), NEW e \in S
  PROVE  /\ Append(s, e) \in Seq(S)
         /\ Len(s) + 1 \notin DOMAIN s /\ Len(s) + 1 # 0 /\ Len(s) + 1 \in Nat
         /\ DOMAIN Append(s, e) = DOMAIN s \cup {Len(s) + 1}
         /\ \A i \in DOMAIN s : Append(s, e)[i] = s[i]
         /\ Append(s, e)[Len(s) + 1] = e
<1>1. DOMAIN s = 1..Len(s) /\ Len(s) \in Nat
  BY Indices
<1>2. /\ Append(s, e) \in Seq(S) /\ Len(Append(s, e)) = Len(s) + 1
      /\ \A i \in 1..Len(s) : Append(s, e)[i] = s[i]
      /\ Append(s, e)[Len(s) + 1] = e
  BY AppendProperties
<1>3. DOMAIN Append(s, e) = 1..(Len(s) + 1)
  BY <1>2, Indices
<1> QED  BY <1>1, <1>2, <1>3

\* One is replaced.
LEMMA ReplaceRow ==
  ASSUME NEW S, NEW s \in Seq(S), NEW i \in DOMAIN s, NEW e \in S
  PROVE  /\ [s EXCEPT ![i] = e] \in Seq(S)
         /\ DOMAIN [s EXCEPT ![i] = e] = DOMAIN s
         /\ \A j \in DOMAIN s : [s EXCEPT ![i] = e][j] = IF j = i THEN e ELSE s[j]
<1>1. DOMAIN s = 1..Len(s)
  BY Indices
<1>2. /\ [s EXCEPT ![i] = e] \in Seq(S) /\ Len([s EXCEPT ![i] = e]) = Len(s)
      /\ \A j \in 1..Len(s) : [s EXCEPT ![i] = e][j] = IF j = i THEN e ELSE s[j]
  BY <1>1, ExceptSeq
<1> QED  BY <1>1, <1>2

LEMMA RowType ==
  ASSUME Typed, NEW i \in DOMAIN user
  PROVE  user[i] \in Rows /\ i \in 1..Len(user) /\ i # 0 /\ i \in Nat
<1>1. DOMAIN user = 1..Len(user) /\ Len(user) \in Nat
  BY Indices DEF Typed
<1>2. user[i] \in Rows
  BY <1>1, ElementOfSeq DEF Typed
<1> QED  BY <1>1, <1>2

LEMMA InvitationType ==
  ASSUME Typed, NEW i \in DOMAIN invite
  PROVE  invite[i] \in Invitations /\ i \in 1..Len(invite) /\ i # 0 /\ i \in Nat
<1>1. DOMAIN invite = 1..Len(invite) /\ Len(invite) \in Nat
  BY Indices DEF Typed
<1>2. invite[i] \in Invitations
  BY <1>1, ElementOfSeq DEF Typed
<1> QED  BY <1>1, <1>2

LEMMA IdleType == Idle \in Calls
BY DEF Idle, Calls, Statuses, Places, Without

LEMMA IdleIsSound == Sound(Idle)' /\ Sound(Idle)
BY DEF Sound, Idle, Without

---------------------------------------------------------------------------
\* What a step must leave of the rows for requests that are at work to be sound.

RowsKept ==
  /\ DOMAIN user \subseteq DOMAIN user' /\ DOMAIN invite \subseteq DOMAIN invite'
  /\ \A i \in DOMAIN user : user'[i].kind = user[i].kind
  /\ stale \subseteq stale'

LEMMA StaysSound ==
  ASSUME NEW c \in Calls, NEW d \in Calls, Sound(c), RowsKept,
         d.at = c.at, d.id = c.id, d.mail = c.mail, d.inv = c.inv, d.say = c.say,
         d.late = FALSE => c.late = FALSE,
         c.at \in {"activate", "reactivate"} /\ d.late = FALSE
           => (user'[c.id].temp => user[c.id].temp)
  PROVE  Sound(d)'
<1>1. /\ d.id # 0 => d.id \in DOMAIN user'
      /\ d.at \notin Without \cup {"provision", "grant"} => d.id # 0
      /\ d.inv # 0 => d.inv \in DOMAIN invite'
      /\ d.at \in {"accept", "revoke"} => d.inv # 0
      /\ d.at = "invite" => d.mail \in Emails
  BY DEF Sound, RowsKept
<1>2. d.at \in {"provision", "grant"} /\ d.id # 0 => user'[d.id].kind = "portal"
  BY DEF Sound, RowsKept
<1>3. d.at = "activate" /\ ~d.late => ~user'[d.id].temp
  BY DEF Sound, Calls
<1>4. d.at = "reactivate" /\ ~d.late /\ d.say = "ACTIVATED" /\ d.id \notin stale'
        => ~user'[d.id].temp
  BY DEF Sound, Calls, RowsKept
<1> QED  BY <1>1, <1>2, <1>3, <1>4 DEF Sound

\* Every other request stays, and r goes on as next.
Turns(r, next) ==
  /\ next \in Calls /\ Sound(next)' /\ req' = [req EXCEPT ![r] = next]

LEMMA OthersStay ==
  ASSUME Typed, CallInv, RowsKept, \A i \in DOMAIN user : user'[i].temp => user[i].temp,
         NEW r \in Requests, NEW next, Turns(r, next)
  PROVE  req' \in [Requests -> Calls] /\ CallInv'
<1>1. req' \in [Requests -> Calls] /\ req'[r] = next
      /\ \A q \in Requests : q # r => req'[q] = req[q]
  BY DEF Turns, Typed
<1>2. ASSUME NEW q \in Requests PROVE Sound(req[q])'
  <2>1. CASE q = r
    BY <1>1, <2>1 DEF Turns, Sound
  <2>2. CASE q # r
    <3>1. PICK c \in Calls : c = req[q]
      BY DEF Typed
    <3>2. Sound(c) /\ req'[q] = c
      BY <1>1, <2>2, <3>1 DEF CallInv
    <3>3. c.at \in {"activate", "reactivate"} => c.id \in DOMAIN user
      BY <3>2 DEF Sound, Without
    <3>4. Sound(c)'
      BY <3>2, <3>3, StaysSound
    <3> QED  BY <3>2, <3>4 DEF Sound
  <2> QED  BY <2>1, <2>2
<1> QED  BY <1>1, <1>2 DEF CallInv

---------------------------------------------------------------------------
\* Steps that change no account.

LEMMA NoAccountChanges ==
  ASSUME IInv, UNCHANGED <<user, link, stale>>,
         invite' \in Seq(Invitations), DOMAIN invite \subseteq DOMAIN invite',
         \A i \in DOMAIN invite : invite'[i].mail = invite[i].mail,
         asked' \in 0..MaxAsked, stops' \in 0..MaxStops,
         req' \in [Requests -> Calls], CallInv'
  PROVE  IInv'
<1>1. Typed'
  BY DEF IInv, Typed
<1>2. MailsUnique' /\ TemporaryIsChanged'
  BY DEF IInv, MailsUnique, TemporaryIsChanged
<1>3. HolderInv'
  BY DEF IInv, HolderInv, Living
<1> QED  BY <1>1, <1>2, <1>3 DEF IInv

\* The request r goes on as next, and nothing else happens.
GoesOn(r, next) ==
  /\ Turns(r, next) /\ UNCHANGED <<rows, stale>>
  /\ asked' \in 0..MaxAsked /\ stops' \in 0..MaxStops

LEMMA GoesOnKeeps ==
  ASSUME IInv, NEW r \in Requests, NEW next, GoesOn(r, next)
  PROVE  IInv'
<1>1. RowsKept /\ \A i \in DOMAIN user : user'[i].temp => user[i].temp
  BY DEF GoesOn, rows, RowsKept
<1>2. req' \in [Requests -> Calls] /\ CallInv'
  BY <1>1, OthersStay DEF GoesOn, IInv
<1> QED  BY <1>2, NoAccountChanges DEF GoesOn, rows, IInv, Typed

LEMMA EndsHere ==
  ASSUME IInv, NEW r \in Requests, Done(r), UNCHANGED <<rows, stale>>,
         asked' \in 0..MaxAsked, stops' \in 0..MaxStops
  PROVE  GoesOn(r, Idle)
BY IdleType, IdleIsSound DEF Done, Go, GoesOn, Turns

LEMMA AskCounts == ASSUME IInv, NEW r, Ask(r) PROVE asked' \in 0..MaxAsked
BY AccountsAssumption DEF IInv, Typed, Ask

\* A request that is not about an account yet.
LEMMA LookGoes ==
  ASSUME IInv, NEW r \in Requests, NEW place \in {"owner", "self", "staff", "admin", "invite"},
         NEW mail \in Emails \cup {NoMail}, place = "invite" => mail \in Emails, Ask(r),
         Go(r, [Idle EXCEPT !.at = place, !.mail = mail]), UNCHANGED <<rows, stops, stale>>
  PROVE  \E c : GoesOn(r, c)
<1>1. PICK c : c = [Idle EXCEPT !.at = place, !.mail = mail]
  OBVIOUS
<1>2. c \in Calls /\ c.at = place /\ c.id = 0 /\ c.inv = 0 /\ c.mail = mail
  BY <1>1, IdleType DEF Calls, Places, Without, Idle
<1>3. Sound(c)'
  BY <1>2 DEF Sound, Without
<1>4. asked' \in 0..MaxAsked /\ stops' \in 0..MaxStops
  BY AskCounts DEF IInv, Typed
<1> QED  BY <1>1, <1>2, <1>3, <1>4 DEF GoesOn, Turns, Go

\* A request about an account.
LEMMA PickGoes ==
  ASSUME IInv, NEW r \in Requests, NEW id \in Nat,
         NEW place \in {"enable", "disable", "delete", "repair", "suspend", "archive", "change",
                        "forgotten", "provision"},
         id \in DOMAIN user \/ (id = 0 /\ place = "provision"),
         place = "provision" /\ id # 0 => user[id].kind = "portal",
         Pick(r, place, id)
  PROVE  \E c : GoesOn(r, c)
<1>1. PICK c : c = [Idle EXCEPT !.at = place, !.id = id]
  OBVIOUS
<1>2. c \in Calls /\ c.at = place /\ c.id = id /\ c.inv = 0
  BY <1>1, IdleType DEF Calls, Places, Without, Idle
<1>3. id \in DOMAIN user => id # 0
  BY RowType DEF IInv
<1>4. Sound(c)'
  BY <1>2, <1>3 DEF Sound, Without, Pick, rows
<1>5. asked' \in 0..MaxAsked /\ stops' \in 0..MaxStops
  BY AskCounts DEF IInv, Typed, Pick
<1> QED  BY <1>1, <1>2, <1>4, <1>5 DEF GoesOn, Turns, Go, Pick, Read

\* A request about an invitation.
LEMMA OpenedGoes ==
  ASSUME IInv, NEW r \in Requests, NEW i \in DOMAIN invite, NEW place \in {"accept", "revoke"},
         Ask(r), Opened(r, place, i), UNCHANGED <<rows, stops, stale>>
  PROVE  \E c : GoesOn(r, c)
<1>1. PICK c : c = [Idle EXCEPT !.at = place, !.inv = i]
  OBVIOUS
<1>2. i \in Nat /\ i # 0
  BY InvitationType DEF IInv
<1>3. c \in Calls /\ c.at = place /\ c.id = 0 /\ c.inv = i
  BY <1>1, <1>2, IdleType DEF Calls, Places, Without, Idle
<1>4. Sound(c)'
  BY <1>2, <1>3 DEF Sound, Without, rows
<1>5. asked' \in 0..MaxAsked /\ stops' \in 0..MaxStops
  BY AskCounts DEF IInv, Typed
<1> QED  BY <1>1, <1>3, <1>4, <1>5 DEF GoesOn, Turns, Go, Opened

\* Only an account without a temporary password is said at once to be in use again.
LEMMA ReactivateGoes ==
  ASSUME IInv, NEW r \in Requests, AskReactivate(r)
  PROVE  \E c : GoesOn(r, c)
<1>1. PICK say \in {"PROVISIONED", "INVITE_SENT", "ACTIVATED"} :
        /\ say = "ACTIVATED" <=> ~user[link].must
        /\ Go(r, [Idle EXCEPT !.at = "reactivate", !.id = link, !.say = say])
  BY DEF AskReactivate
<1>2. PICK c : c = [Idle EXCEPT !.at = "reactivate", !.id = link, !.say = say]
  OBVIOUS
<1>3. link # 0 /\ link \in DOMAIN user /\ link \in Nat
  BY DEF AskReactivate, IInv, HolderInv, Typed
<1>4. c \in Calls /\ c.at = "reactivate" /\ c.id = link /\ c.inv = 0 /\ c.say = say
  BY <1>2, <1>3, IdleType DEF Calls, Places, Without, Idle, Statuses
<1>5. say = "ACTIVATED" /\ link \notin stale => ~user[link].temp
  BY <1>1, <1>3 DEF IInv, TemporaryIsChanged
<1>6. Sound(c)'
  BY <1>3, <1>4, <1>5 DEF Sound, Without, AskReactivate, rows
<1>7. asked' \in 0..MaxAsked /\ stops' \in 0..MaxStops
  BY AskCounts DEF IInv, Typed, AskReactivate
<1> QED  BY <1>1, <1>2, <1>4, <1>6, <1>7 DEF GoesOn, Turns, Go, AskReactivate

LEMMA OpenGoes == ASSUME IInv, NEW r \in Requests, Open(r) PROVE \E c : GoesOn(r, c)
<1>1. CASE Register(r) \/ RegisterTenant(r) \/ ProvisionStaff(r) \/ CheckUser(r)
  BY <1>1, LookGoes DEF Register, RegisterTenant, ProvisionStaff, CheckUser, Look
<1>2. CASE Invite(r)
  BY <1>2, LookGoes DEF Invite
<1>3. CASE OpenInvitation(r) \/ LookToRevoke(r)
  BY <1>3, OpenedGoes DEF OpenInvitation, LookToRevoke
<1>4. CASE AskUpdate(r) \/ AskDelete(r) \/ AskAccess(r) \/ AskChange(r) \/ AskForgot(r)
  <2>1. PICK id \in DOMAIN user,
             place \in {"enable", "disable", "delete", "repair", "change", "forgotten"} :
          Pick(r, place, id)
    BY <1>4 DEF AskUpdate, AskDelete, AskAccess, AskChange, AskForgot
  <2>2. id \in Nat
    BY RowType DEF IInv
  <2> QED  BY <2>1, <2>2, PickGoes
<1>5. CASE AskSuspend(r) \/ AskArchive(r) \/ Reset(r) \/ ProvisionPortal(r) \/ MaybeAutoProvision(r)
  <2>1. link \in Nat /\ (link # 0 => link \in DOMAIN user /\ user[link].kind = "portal")
    BY DEF IInv, Typed, HolderInv
  <2>2. PICK id : id = link
    OBVIOUS
  <2>3. \/ Pick(r, "provision", id)
        \/ id # 0 /\ (Pick(r, "suspend", id) \/ Pick(r, "archive", id))
    BY <1>5, <2>2 DEF AskSuspend, AskArchive, Reset, ProvisionPortal, MaybeAutoProvision
  <2> QED  BY <2>1, <2>2, <2>3, PickGoes
<1> QED  BY <1>1, <1>2, <1>3, <1>4, <1>5, ReactivateGoes DEF Open

\* A visit, and what ensurePrimary finds.
LEMMA SignInGoes ==
  ASSUME IInv, NEW r \in Requests, NEW id, SignIn(r, id)
  PROVE  \E c : GoesOn(r, c)
<1>1. PICK c : c = SignedIn(id)
  OBVIOUS
<1>2. id \in DOMAIN user /\ id \in Nat /\ id # 0
  BY RowType DEF IInv, SignIn
<1>3. c \in Calls /\ c.at = "visit" /\ c.id = id /\ c.inv = 0
  BY <1>1, <1>2, IdleType DEF Calls, Places, Without, Idle, SignedIn
<1>4. Sound(c)'
  BY <1>2, <1>3 DEF Sound, Without, SignIn, rows
<1> QED  BY <1>1, <1>3, <1>4 DEF GoesOn, Turns, Go, SignIn, IInv, Typed

LEMMA ServeGoes ==
  ASSUME IInv, NEW r \in Requests, FindMembership(r) \/ LookForClash(r)
  PROVE  \E c : GoesOn(r, c)
<1>0. req[r] \in Calls /\ Sound(req[r])
  BY DEF IInv, Typed, CallInv
<1>1. CASE Done(r)
  BY <1>1, EndsHere DEF FindMembership, LookForClash, IInv, Typed
<1>2. ASSUME NEW place \in {"join", "switchOn", "grant"}, Go(r, Then(r, place)),
             place = "grant" => At(r, "provision"), place # "grant" => At(r, "visit")
      PROVE  \E c : GoesOn(r, c)
  <2>1. PICK c : c = Then(r, place)
    OBVIOUS
  <2>2. c \in Calls /\ c.at = place /\ c.id = req[r].id /\ c.inv = req[r].inv
    BY <1>0, <2>1 DEF Calls, Places, Without, Then
  <2>3. UNCHANGED <<rows, asked, stops, stale>>
    BY DEF FindMembership, LookForClash
  <2>4. Sound(c)'
    BY <1>0, <1>2, <2>2, <2>3 DEF Sound, Without, At, rows
  <2> QED  BY <1>2, <2>1, <2>2, <2>3, <2>4 DEF GoesOn, Turns, Go, IInv, Typed
<1> QED  BY <1>1, <1>2 DEF FindMembership, LookForClash

---------------------------------------------------------------------------
\* Steps that make an account.

\* What a new account must be.
WellMade(account) ==
  /\ account \in Rows /\ Free(account.mail)
  /\ account.kind = "portal" => account.mail = TenantMail /\ account.inv = 0
  /\ account.inv # 0 => account.inv \in DOMAIN invite /\ account.mail = invite[account.inv].mail
  /\ account.temp => account.must /\ account.status # "ACTIVATED"

LEMMA AddKeeps ==
  ASSUME IInv, NEW account, WellMade(account), Add(account),
         link' = (IF account.kind = "portal" THEN Len(user) + 1 ELSE link),
         NEW r \in Requests, NEW next, Turns(r, next),
         invite' \in Seq(Invitations), DOMAIN invite \subseteq DOMAIN invite',
         \A i \in DOMAIN invite : invite'[i].mail = invite[i].mail,
         UNCHANGED <<asked, stops, stale>>
  PROVE  IInv'
<1> DEFINE n == Len(user) + 1
<1>1. /\ user' \in Seq(Rows) /\ n \notin DOMAIN user /\ n # 0 /\ n \in Nat
      /\ DOMAIN user' = DOMAIN user \cup {n}
      /\ \A i \in DOMAIN user : user'[i] = user[i]
      /\ user'[n] = account
  BY AddRow DEF IInv, Typed, WellMade, Add
<1> HIDE DEF n
<1>2. req' \in [Requests -> Calls] /\ CallInv'
  BY <1>1, OthersStay DEF IInv, RowsKept
<1>3. Typed'
  BY <1>1, <1>2 DEF IInv, Typed, n
<1>4. MailsUnique'
  <2>1. ASSUME NEW i \in DOMAIN user, user[i].mail = account.mail, account.mail # NoMail PROVE FALSE
    <3>1. i # 0
      BY RowType DEF IInv
    <3> QED  BY <2>1, <3>1 DEF WellMade, Free, FreeFor
  <2> QED  BY <1>1, <2>1 DEF IInv, MailsUnique
<1>5. HolderInv'
  <2>1. link' # 0 => link' \in DOMAIN user' /\ user'[link'].kind = "portal"
    BY <1>1 DEF IInv, HolderInv, n
  <2>2. ASSUME NEW i \in DOMAIN user
        PROVE  /\ user'[i].kind = "portal" => link' # 0 /\ user'[i].inv = 0
               /\ user'[i].kind = "portal" /\ Living(i)' => user'[i].mail = TenantMail
               /\ user'[i].inv # 0 => user'[i].inv \in DOMAIN invite'
               /\ user'[i].inv # 0 /\ Living(i)' => user'[i].mail = invite'[user'[i].inv].mail
    BY <1>1 DEF IInv, HolderInv, Living, n
  <2>3. /\ user'[n].kind = "portal" => link' # 0 /\ user'[n].inv = 0
        /\ user'[n].kind = "portal" => user'[n].mail = TenantMail
        /\ user'[n].inv # 0 => user'[n].inv \in DOMAIN invite'
                               /\ user'[n].mail = invite'[user'[n].inv].mail
    BY <1>1 DEF WellMade, n
  <2> QED  BY <1>1, <2>1, <2>2, <2>3 DEF HolderInv
<1>6. TemporaryIsChanged'
  BY <1>1 DEF IInv, TemporaryIsChanged, WellMade
<1> QED  BY <1>2, <1>3, <1>4, <1>5, <1>6 DEF IInv

\* A request may go on about the account that was made.
AboutNew(next) ==
  /\ next \in Calls /\ next.at \in {"visit", "join", "deliver"}
  /\ next.id = NewId /\ next.inv = 0

LEMMA AboutNewCall ==
  ASSUME IInv, NEW place \in {"visit", "join", "deliver"}
  PROVE  AboutNew([Idle EXCEPT !.at = place, !.id = NewId])
<1>1. NewId \in Nat
  BY Indices DEF IInv, Typed, NewId
<1> QED  BY <1>1, IdleType DEF AboutNew, Calls, Places, Without, Idle

LEMMA GoesToNew ==
  ASSUME IInv, NEW account \in Rows, Add(account), NEW r \in Requests, NEW next,
         AboutNew(next), Go(r, next)
  PROVE  Turns(r, next)
<1>1. Len(user) + 1 \in Nat /\ Len(user) + 1 \in DOMAIN user' /\ Len(user) + 1 # 0
  BY AddRow DEF IInv, Typed, Add
<1>2. next \in Calls /\ next.id = Len(user) + 1 /\ next.inv = 0
  BY DEF AboutNew, NewId
<1>3. Sound(next)'
  BY <1>1, <1>2 DEF Sound, Without, AboutNew
<1> QED  BY <1>2, <1>3 DEF Turns, Go

LEMMA StopsAtIdle == ASSUME NEW r \in Requests, Done(r) PROVE Turns(r, Idle)
BY IdleType, IdleIsSound DEF Done, Go, Turns

\* createUser and the three others that look for the e-mail of the request.
LEMMA MakeKeeps ==
  ASSUME IInv, NEW r \in Requests, NEW account \in Rows, NEW next, Make(r, account, next),
         account.mail = req[r].mail, account.kind # "portal", account.inv = 0,
         account.temp => account.must /\ account.status # "ACTIVATED",
         next = Idle \/ AboutNew(next)
  PROVE  IInv'
<1>1. CASE Free(req[r].mail) /\ Len(user) < MaxUsers
  <2>1. WellMade(account)
    BY <1>1 DEF WellMade
  <2>2. Add(account) /\ Go(r, next) /\ UNCHANGED <<link, invite, asked, stops, stale>>
    BY <1>1 DEF Make
  <2>3. Turns(r, next)
    BY <2>2, GoesToNew, StopsAtIdle DEF Done
  <2> QED  BY <2>1, <2>2, <2>3, AddKeeps DEF IInv, Typed
<1>2. CASE Done(r) /\ UNCHANGED user
  BY <1>2, EndsHere, GoesOnKeeps DEF Make, rows, IInv, Typed
<1> QED  BY <1>1, <1>2 DEF Make

LEMMA CreateKeeps ==
  ASSUME IInv, NEW r \in Requests,
         CreateOrganizationWithAdmin(r) \/ CreateTenantUser(r) \/ CreateStaff(r) \/ CreateUser(r)
  PROVE  IInv'
<1>0. PICK mail : mail = req[r].mail
  OBVIOUS
<1>m. mail \in Emails \cup {NoMail}
  BY <1>0 DEF IInv, Typed, Calls
<1>s. PICK s : s = SignedIn(NewId)
  OBVIOUS
<1>j. PICK j : j = [Idle EXCEPT !.at = "join", !.id = NewId]
  OBVIOUS
<1>n. AboutNew(s) /\ AboutNew(j)
  BY <1>s, <1>j, AboutNewCall DEF SignedIn
<1>1. PICK account, next :
        /\ \/ account = Account(mail, "owner", 0, "on", FALSE)
           \/ account = Account(mail, "self", 0, "on", FALSE)
           \/ account = Account(mail, "staff", 0, "on", TRUE)
           \/ account = Account(mail, "staff", 0, "none", FALSE)
        /\ next \in {s, j, Idle} /\ Make(r, account, next)
  BY <1>0, <1>s, <1>j DEF CreateOrganizationWithAdmin, CreateTenantUser, CreateStaff, CreateUser
<1>2. /\ account \in Rows /\ account.mail = mail /\ account.kind # "portal" /\ account.inv = 0
      /\ account.temp => account.must /\ account.status # "ACTIVATED"
  <2>1. CASE account = Account(mail, "owner", 0, "on", FALSE)
    BY <1>m, <2>1 DEF Account, Rows, Statuses, Kinds
  <2>2. CASE account = Account(mail, "self", 0, "on", FALSE)
    BY <1>m, <2>2 DEF Account, Rows, Statuses, Kinds
  <2>3. CASE account = Account(mail, "staff", 0, "on", TRUE)
    BY <1>m, <2>3 DEF Account, Rows, Statuses, Kinds
  <2>4. CASE account = Account(mail, "staff", 0, "none", FALSE)
    BY <1>m, <2>4 DEF Account, Rows, Statuses, Kinds
  <2> QED  BY <1>1, <2>1, <2>2, <2>3, <2>4
<1> QED  BY <1>0, <1>n, <1>1, <1>2, MakeKeeps

\* An invitation is marked; none loses its e-mail.
LEMMA MarkInvitation ==
  ASSUME IInv, NEW i \in DOMAIN invite, NEW marked \in Invitations, marked.mail = invite[i].mail,
         invite' = [invite EXCEPT ![i] = marked]
  PROVE  /\ invite' \in Seq(Invitations) /\ DOMAIN invite \subseteq DOMAIN invite'
         /\ \A j \in DOMAIN invite : invite'[j].mail = invite[j].mail
BY ReplaceRow DEF IInv, Typed

LEMMA AcceptKeeps == ASSUME IInv, NEW r \in Requests, AcceptInvitation(r) PROVE IInv'
<1> DEFINE i == req[r].inv
<1>0. i \in DOMAIN invite /\ i \in Nat /\ invite[i] \in Invitations
  BY InvitationType DEF IInv, CallInv, Sound, AcceptInvitation, At
<1>1. CASE Done(r) /\ UNCHANGED <<user, invite>>
  BY <1>1, EndsHere, GoesOnKeeps DEF AcceptInvitation, rows, IInv, Typed
<1>2. CASE /\ Free(invite[i].mail) /\ Add(Account(invite[i].mail, "staff", i, "on", FALSE))
           /\ invite' = [invite EXCEPT ![i].accepted = TRUE] /\ Read(r, "visit", NewId)
  <2>1. PICK account : account = Account(invite[i].mail, "staff", i, "on", FALSE)
    OBVIOUS
  <2>2. invite[i].mail \in Emails \cup {NoMail}
    BY <1>0 DEF Invitations
  <2>3. /\ account \in Rows /\ account.mail = invite[i].mail /\ account.kind = "staff"
        /\ account.inv = i /\ (account.temp => account.must /\ account.status # "ACTIVATED")
    BY <1>0, <2>1, <2>2 DEF Account, Rows, Statuses, Kinds
  <2>4. WellMade(account) /\ Add(account)
    BY <1>0, <1>2, <2>1, <2>3 DEF WellMade
  <2>5. PICK marked : marked = [invite[i] EXCEPT !.accepted = TRUE]
    OBVIOUS
  <2>6. marked \in Invitations /\ marked.mail = invite[i].mail
    BY <1>0, <2>5 DEF Invitations
  <2>7. invite' = [invite EXCEPT ![i] = marked]
    BY <1>2, <2>5
  <2>8. PICK next : next = [Idle EXCEPT !.at = "visit", !.id = NewId]
    OBVIOUS
  <2>9. AboutNew(next) /\ Go(r, next)
    BY <1>2, <2>8, AboutNewCall DEF Read
  <2>10. Turns(r, next)
    BY <2>3, <2>4, <2>9, GoesToNew
  <2> HIDE DEF i
  <2>11. link' = (IF account.kind = "portal" THEN Len(user) + 1 ELSE link)
    BY <2>3 DEF AcceptInvitation
  <2>12. /\ invite' \in Seq(Invitations) /\ DOMAIN invite \subseteq DOMAIN invite'
         /\ \A j \in DOMAIN invite : invite'[j].mail = invite[j].mail
    BY <1>0, <2>6, <2>7, MarkInvitation
  <2> QED  BY <2>4, <2>10, <2>11, <2>12, AddKeeps DEF AcceptInvitation
<1> QED  BY <1>1, <1>2 DEF AcceptInvitation

LEMMA GrantKeeps == ASSUME IInv, NEW r \in Requests, Grant(r) PROVE IInv'
<1>1. CASE Done(r) /\ UNCHANGED <<user, link>>
  BY <1>1, EndsHere, GoesOnKeeps DEF Grant, rows, IInv, Typed
<1>2. CASE /\ Free(TenantMail) /\ Add(Account(TenantMail, "portal", 0, "on", TRUE))
           /\ link' = NewId /\ Read(r, "deliver", NewId)
  <2>1. PICK account : account = Account(TenantMail, "portal", 0, "on", TRUE)
    OBVIOUS
  <2>2. /\ account \in Rows /\ account.mail = TenantMail /\ account.kind = "portal"
        /\ account.inv = 0 /\ (account.temp => account.must /\ account.status # "ACTIVATED")
    BY <2>1, AccountsAssumption DEF Account, Rows, Statuses, Kinds
  <2>3. WellMade(account) /\ Add(account)
    BY <1>2, <2>1, <2>2 DEF WellMade
  <2>4. PICK next : next = [Idle EXCEPT !.at = "deliver", !.id = NewId]
    OBVIOUS
  <2>5. AboutNew(next) /\ Go(r, next)
    BY <1>2, <2>4, AboutNewCall DEF Read
  <2>6. Turns(r, next)
    BY <2>2, <2>3, <2>5, GoesToNew
  <2>7. link' = (IF account.kind = "portal" THEN Len(user) + 1 ELSE link)
    BY <1>2, <2>2 DEF NewId
  <2> QED  BY <2>3, <2>6, <2>7, AddKeeps DEF Grant, IInv, Typed
<1> QED  BY <1>1, <1>2 DEF Grant

---------------------------------------------------------------------------
\* Steps that write an account.

Overtakes(r, account, q) ==
  /\ req[q].id = req[r].id /\ req[q].at \in {"activate", "reactivate"}
  /\ account.temp /\ ~user[req[r].id].temp

\* Another request is left as it was, unless a temporary password has replaced the one it
\* is about: then it is late.
LEMMA OtherLate ==
  ASSUME Typed, NEW r \in Requests, NEW account, NEW next, Write(r, account, next),
         NEW q \in Requests, q # r
  PROVE  /\ req[q] \in Calls /\ req'[q] \in Calls
         /\ req'[q].at = req[q].at /\ req'[q].id = req[q].id /\ req'[q].inv = req[q].inv
         /\ req'[q].say = req[q].say /\ req'[q].mail = req[q].mail
         /\ req'[q].late = FALSE => req[q].late = FALSE /\ ~Overtakes(r, account, q)
<1>1. req'[q] = [req[q] EXCEPT !.late = req[q].late \/ Overtakes(r, account, q)]
  BY DEF Write, Overtakes
<1>2. req[q] \in Calls
  BY DEF Typed
<1>3. CASE req[q].late = TRUE \/ Overtakes(r, account, q)
  <2>1. (req[q].late \/ Overtakes(r, account, q)) = TRUE
    BY <1>3
  <2>2. req'[q] = [req[q] EXCEPT !.late = TRUE]
    BY <1>1, <2>1
  <2> QED  BY <1>2, <2>2 DEF Calls
<1>4. CASE req[q].late = FALSE /\ ~Overtakes(r, account, q)
  <2>1. (req[q].late \/ Overtakes(r, account, q)) = FALSE
    BY <1>4
  <2>2. req'[q] = [req[q] EXCEPT !.late = FALSE]
    BY <1>1, <2>1
  <2>3. req'[q] = req[q]
    BY <1>2, <1>4, <2>2 DEF Calls
  <2> QED  BY <1>2, <1>4, <2>3
<1> QED  BY <1>2, <1>3, <1>4 DEF Calls

\* What a write must leave of the account: what it was made for, the uniqueness of its
\* e-mail, and the obligation to change a temporary password.
WellWritten(r, account) ==
  LET id == req[r].id IN
  /\ id \in DOMAIN user /\ account \in Rows
  /\ account.kind = user[id].kind /\ account.inv = user[id].inv
  /\ FreeFor(account.mail, id)
  /\ ~account.gone => IF account.kind = "portal" THEN account.mail = TenantMail
                      ELSE ~user[id].gone /\ account.mail = user[id].mail
  /\ \/ req[r].late \/ id \in stale
     \/ account.temp => account.must /\ account.status # "ACTIVATED"

LEMMA WriteRows ==
  ASSUME IInv, NEW r \in Requests, NEW account, NEW next, Write(r, account, next),
         WellWritten(r, account)
  PROVE  /\ user' \in Seq(Rows) /\ DOMAIN user' = DOMAIN user
         /\ \A i \in DOMAIN user : user'[i] = IF i = req[r].id THEN account ELSE user[i]
         /\ stale \subseteq stale' /\ stale' \subseteq DOMAIN user
BY ReplaceRow DEF IInv, Typed, Write, WellWritten

LEMMA OthersStayOrAreLate ==
  ASSUME IInv, NEW r \in Requests, NEW account, NEW next \in Calls, Write(r, account, next),
         WellWritten(r, account), Sound(next)', UNCHANGED invite
  PROVE  req' \in [Requests -> Calls] /\ CallInv'
<1>1. RowsKept
  BY WriteRows DEF RowsKept, WellWritten
<1>2. req'[r] = next /\ req' = [q \in Requests |-> req'[q]]
  BY DEF Write
<1>3. ASSUME NEW q \in Requests PROVE req'[q] \in Calls /\ Sound(req[q])'
  <2>1. CASE q = r
    BY <1>2, <2>1 DEF Sound
  <2>2. CASE q # r
    <3>1. PICK c \in Calls : c = req[q]
      BY DEF IInv, Typed
    <3>2. PICK d : d = req'[q]
      OBVIOUS
    <3>3. /\ d \in Calls /\ d.at = c.at /\ d.id = c.id /\ d.inv = c.inv /\ d.say = c.say
          /\ d.mail = c.mail
          /\ d.late = FALSE => c.late = FALSE /\ ~Overtakes(r, account, q)
      BY <2>2, <3>1, <3>2, OtherLate DEF IInv
    <3>4. Sound(c)
      BY <3>1 DEF IInv, CallInv
    <3>5. ASSUME c.at \in {"activate", "reactivate"}, d.late = FALSE, user'[c.id].temp
          PROVE  user[c.id].temp
      <4>1. c.id \in DOMAIN user
        BY <3>4, <3>5 DEF Sound, Without
      <4>2. user'[c.id] = IF c.id = req[r].id THEN account ELSE user[c.id]
        BY <4>1, WriteRows
      <4> QED  BY <3>1, <3>3, <3>5, <4>2 DEF Overtakes
    <3>6. Sound(d)'
      BY <1>1, <3>3, <3>4, <3>5, StaysSound
    <3> QED  BY <3>2, <3>3, <3>6 DEF Sound
  <2> QED  BY <2>1, <2>2
<1> QED  BY <1>2, <1>3 DEF CallInv

LEMMA WriteKeeps ==
  ASSUME IInv, NEW r \in Requests, NEW account, NEW next \in Calls, Write(r, account, next),
         WellWritten(r, account), Sound(next)', UNCHANGED <<link, invite, asked, stops>>
  PROVE  IInv'
<1> DEFINE id == req[r].id
<1>1. /\ user' \in Seq(Rows) /\ DOMAIN user' = DOMAIN user
      /\ \A i \in DOMAIN user : user'[i] = IF i = id THEN account ELSE user[i]
      /\ stale \subseteq stale' /\ stale' \subseteq DOMAIN user /\ id \in DOMAIN user
  BY WriteRows DEF WellWritten
<1>2. req' \in [Requests -> Calls] /\ CallInv'
  BY OthersStayOrAreLate
<1>w. /\ account.kind = user[id].kind /\ account.inv = user[id].inv
      /\ FreeFor(account.mail, id)
      /\ ~account.gone => IF account.kind = "portal" THEN account.mail = TenantMail
                          ELSE ~user[id].gone /\ account.mail = user[id].mail
      /\ \/ req[r].late \/ id \in stale
         \/ account.temp => account.must /\ account.status # "ACTIVATED"
  BY DEF WellWritten
<1>s. stale' = IF req[r].late THEN stale \cup {id} ELSE stale
  BY DEF Write
<1> HIDE DEF id
<1>3. Typed'
  BY <1>1, <1>2 DEF IInv, Typed
<1>4. MailsUnique'
  BY <1>1, <1>w DEF IInv, MailsUnique, FreeFor
<1>5. HolderInv'
  <2>1. link' # 0 => link' \in DOMAIN user' /\ user'[link'].kind = "portal"
    BY <1>1, <1>w DEF IInv, HolderInv
  <2>2. ASSUME NEW i \in DOMAIN user
        PROVE  /\ user'[i].kind = "portal" => link' # 0 /\ user'[i].inv = 0
               /\ user'[i].kind = "portal" /\ ~user'[i].gone => user'[i].mail = TenantMail
               /\ user'[i].inv # 0 => user'[i].inv \in DOMAIN invite'
               /\ user'[i].inv # 0 /\ ~user'[i].gone => user'[i].mail = invite'[user'[i].inv].mail
    <3>1. CASE i = id
      BY <1>1, <1>w, <3>1 DEF IInv, HolderInv, Living
    <3>2. CASE i # id
      BY <1>1, <3>2 DEF IInv, HolderInv, Living
    <3> QED  BY <3>1, <3>2
  <2> QED  BY <1>1, <2>1, <2>2 DEF HolderInv, Living
<1>6. TemporaryIsChanged'
  BY <1>1, <1>w, <1>s DEF IInv, TemporaryIsChanged
<1> QED  BY <1>2, <1>3, <1>4, <1>5, <1>6 DEF IInv

\* A write that leaves the e-mail as it is.
LEMMA KeepsMail ==
  ASSUME IInv, NEW r \in Requests, NEW account \in Rows, req[r].id \in DOMAIN user,
         account.mail = Mine(r).mail, account.kind = Mine(r).kind, account.inv = Mine(r).inv,
         account.gone = Mine(r).gone,
         \/ req[r].late \/ req[r].id \in stale
         \/ account.temp => account.must /\ account.status # "ACTIVATED"
  PROVE  WellWritten(r, account)
<1> DEFINE id == req[r].id
<1>1. FreeFor(user[id].mail, id)
  BY DEF IInv, MailsUnique, FreeFor
<1>2. ~user[id].gone /\ user[id].kind = "portal" => user[id].mail = TenantMail
  BY DEF IInv, HolderInv, Living
<1> QED  BY <1>1, <1>2 DEF WellWritten, Mine

LEMMA ThenSound ==
  ASSUME IInv, NEW r \in Requests, NEW account, NEW next, Write(r, account, next),
         WellWritten(r, account), UNCHANGED invite,
         NEW place \in {"enableMember", "disableMember", "deliver", "activate"},
         next = Then(r, place), place = "activate" => ~account.temp
  PROVE  next \in Calls /\ Sound(next)'
<1>1. /\ DOMAIN user' = DOMAIN user /\ req[r].id \in DOMAIN user
      /\ user'[req[r].id] = account
  BY WriteRows DEF WellWritten
<1>2. req[r] \in Calls /\ Sound(req[r])
  BY DEF IInv, Typed, CallInv
<1>3. req[r].id # 0
  BY <1>1, RowType DEF IInv
<1>4. next \in Calls /\ next.at = place /\ next.id = req[r].id /\ next.inv = req[r].inv
  BY <1>2 DEF Then, Calls, Places, Without
<1>5. Sound(next)'
  BY <1>1, <1>2, <1>3, <1>4 DEF Sound, Without
<1> QED  BY <1>4, <1>5

LEMMA SignedInSound ==
  ASSUME IInv, NEW r \in Requests, NEW account, NEW next, Write(r, account, next),
         WellWritten(r, account), UNCHANGED invite, next = SignedIn(req[r].id)
  PROVE  next \in Calls /\ Sound(next)'
<1>1. DOMAIN user' = DOMAIN user /\ req[r].id \in DOMAIN user
  BY WriteRows DEF WellWritten
<1>2. req[r].id # 0 /\ req[r].id \in Nat
  BY <1>1, RowType DEF IInv
<1>3. next \in Calls /\ next.at = "visit" /\ next.id = req[r].id /\ next.inv = 0
  BY <1>2, IdleType DEF SignedIn, Calls, Places, Without, Idle
<1>4. Sound(next)'
  BY <1>1, <1>2, <1>3 DEF Sound, Without
<1> QED  BY <1>3, <1>4

\* The request r writes its account, and goes on.
Writes(r) ==
  \E account, next :
    /\ Write(r, account, next) /\ WellWritten(r, account)
    /\ next \in Calls /\ Sound(next)'
    /\ UNCHANGED <<link, invite, asked, stops>>

LEMMA WritesKeeps == ASSUME IInv, NEW r \in Requests, Writes(r) PROVE IInv'
BY WriteKeeps DEF Writes

\* What is known of the account a request is about.
LEMMA AboutAccount ==
  ASSUME IInv, NEW r \in Requests, req[r].at \notin Without \cup {"provision"},
         req[r].at = "grant" => req[r].id # 0
  PROVE  /\ req[r].id \in DOMAIN user /\ Mine(r) \in Rows /\ Mine(r) = user[req[r].id]
         /\ req[r] \in Calls /\ Sound(req[r])
         /\ req[r].id \notin stale => (Mine(r).temp => Mine(r).must /\ Mine(r).status # "ACTIVATED")
<1>1. req[r] \in Calls /\ Sound(req[r])
  BY DEF IInv, Typed, CallInv
<1>2. req[r].id \in DOMAIN user
  BY <1>1 DEF Sound
<1>3. user[req[r].id] \in Rows
  BY <1>2, RowType DEF IInv
<1> QED  BY <1>1, <1>2, <1>3 DEF Mine, IInv, TemporaryIsChanged

LEMMA UpdateWrites ==
  ASSUME IInv, NEW r \in Requests, UpdateUser(r) \/ UpdateMembership(r)
  PROVE  Writes(r)
<1> USE DEF At
<1>0. /\ req[r].id \in DOMAIN user /\ Mine(r) \in Rows
      /\ req[r].id \notin stale => (Mine(r).temp => Mine(r).must /\ Mine(r).status # "ACTIVATED")
  BY AboutAccount DEF UpdateUser, UpdateMembership, Without
<1>1. CASE UpdateUser(r)
  <2>1. PICK account : account = [Mine(r) EXCEPT !.active = At(r, "enable")]
    OBVIOUS
  <2>2. account = [Mine(r) EXCEPT !.active = TRUE] \/ account = [Mine(r) EXCEPT !.active = FALSE]
    <3>1. CASE req[r].at = "enable"
      BY <2>1, <3>1
    <3>2. CASE req[r].at # "enable"
      BY <2>1, <3>2
    <3> QED  BY <3>1, <3>2
  <2>3. WellWritten(r, account)
    BY <1>0, <2>2, KeepsMail DEF Rows
  <2>4. PICK place \in {"enableMember", "disableMember"} :
          place = IF At(r, "enable") THEN "enableMember" ELSE "disableMember"
    OBVIOUS
  <2>5. PICK next : next = Then(r, place)
    OBVIOUS
  <2>6. Write(r, account, next) /\ UNCHANGED <<link, invite, asked, stops>>
    BY <1>1, <2>1, <2>4, <2>5 DEF UpdateUser
  <2>7. next \in Calls /\ Sound(next)'
    BY <2>3, <2>4, <2>5, <2>6, ThenSound
  <2> QED  BY <2>3, <2>6, <2>7 DEF Writes
<1>2. CASE UpdateMembership(r)
  <2>1. PICK member \in {"none", "on", "off"} : member = MemberOf(Mine(r), At(r, "enableMember"))
    BY DEF MemberOf
  <2>2. PICK account : account = [Mine(r) EXCEPT !.member = member]
    OBVIOUS
  <2>3. WellWritten(r, account)
    BY <1>0, <2>2, KeepsMail DEF Rows
  <2>4. Write(r, account, Idle) /\ UNCHANGED <<link, invite, asked, stops>>
    BY <1>2, <2>1, <2>2 DEF UpdateMembership
  <2> QED  BY <2>3, <2>4, IdleType, IdleIsSound DEF Writes
<1> QED  BY <1>1, <1>2

LEMMA DeleteWrites ==
  ASSUME IInv, NEW r \in Requests, DeleteUser(r) \/ ProvisionAccess(r)
  PROVE  Writes(r)
<1> USE DEF At
<1>0. /\ req[r].id \in DOMAIN user /\ Mine(r) \in Rows /\ Mine(r) = user[req[r].id]
      /\ req[r].id \notin stale => (Mine(r).temp => Mine(r).must /\ Mine(r).status # "ACTIVATED")
  BY AboutAccount DEF DeleteUser, ProvisionAccess, Without
<1>1. CASE DeleteUser(r)
  <2>1. PICK account : account = [Mine(r) EXCEPT !.active = FALSE, !.mail = NoMail, !.gone = TRUE]
    OBVIOUS
  <2>2. /\ account \in Rows /\ account.mail = NoMail /\ account.gone = TRUE
        /\ account.kind = Mine(r).kind /\ account.inv = Mine(r).inv
        /\ account.temp = Mine(r).temp /\ account.must = Mine(r).must
        /\ account.status = Mine(r).status
    BY <1>0, <2>1 DEF Rows
  <2>3. WellWritten(r, account)
    BY <1>0, <2>2 DEF WellWritten, FreeFor
  <2>4. Write(r, account, Idle) /\ UNCHANGED <<link, invite, asked, stops>>
    BY <1>1, <2>1 DEF DeleteUser
  <2> QED  BY <2>3, <2>4, IdleType, IdleIsSound DEF Writes
<1>2. CASE ProvisionAccess(r)
  <2>1. PICK account : account = [Mine(r) EXCEPT !.active = TRUE, !.temp = TRUE, !.must = TRUE,
                                                 !.status = "PROVISIONED"]
    OBVIOUS
  <2>2. /\ account \in Rows /\ account.mail = Mine(r).mail /\ account.gone = Mine(r).gone
        /\ account.kind = Mine(r).kind /\ account.inv = Mine(r).inv
        /\ account.must /\ account.status # "ACTIVATED"
    BY <1>0, <2>1 DEF Rows, Statuses
  <2>3. WellWritten(r, account)
    BY <1>0, <2>2, KeepsMail
  <2>4. Write(r, account, Idle) /\ UNCHANGED <<link, invite, asked, stops>>
    BY <1>2, <2>1 DEF ProvisionAccess
  <2> QED  BY <2>3, <2>4, IdleType, IdleIsSound DEF Writes
<1> QED  BY <1>1, <1>2

\* The portal account that was loaded is renewed if its e-mail is free.
LEMMA RenewWrites ==
  ASSUME IInv, NEW r \in Requests, Renew(r), FreeFor(TenantMail, req[r].id)
  PROVE  Writes(r)
<1> USE DEF At
<1>0. /\ req[r].id \in DOMAIN user /\ Mine(r) \in Rows /\ Mine(r) = user[req[r].id]
      /\ req[r] \in Calls /\ Sound(req[r])
  BY AboutAccount DEF Renew, Without
<1>1. PICK account : account = Renewed(Mine(r))
  OBVIOUS
<1>2. PICK member \in {"none", "on", "off"} : member = MemberOf(Mine(r), TRUE)
  BY DEF MemberOf
<1>3. account = [Mine(r) EXCEPT !.mail = TenantMail, !.active = TRUE, !.gone = FALSE,
                                !.temp = TRUE, !.must = TRUE, !.status = "PROVISIONED",
                                !.member = member]
  BY <1>1, <1>2 DEF Renewed
<1>4. /\ account \in Rows /\ account.mail = TenantMail
      /\ account.kind = Mine(r).kind /\ account.inv = Mine(r).inv
      /\ account.must /\ account.status = "PROVISIONED"
  BY <1>0, <1>3, AccountsAssumption DEF Rows, Statuses
<1>5. Mine(r).kind = "portal"
  BY <1>0 DEF Sound, Renew
<1>6. WellWritten(r, account)
  BY <1>0, <1>4, <1>5 DEF WellWritten
<1>7. PICK next : next = Then(r, "deliver")
  OBVIOUS
<1>8. Write(r, account, next) /\ UNCHANGED <<link, invite, asked, stops>>
  BY <1>1, <1>7 DEF Renew
<1>9. next \in Calls /\ Sound(next)'
  BY <1>6, <1>7, <1>8, ThenSound
<1> QED  BY <1>6, <1>8, <1>9 DEF Writes

LEMMA PortalWrites ==
  ASSUME IInv, NEW r \in Requests, Suspend(r) \/ Archive(r) \/ Reactivate(r)
  PROVE  Writes(r)
<1> USE DEF At
<1>0. /\ req[r].id \in DOMAIN user /\ Mine(r) \in Rows /\ Mine(r) = user[req[r].id]
      /\ req[r] \in Calls /\ Sound(req[r])
      /\ req[r].id \notin stale => (Mine(r).temp => Mine(r).must /\ Mine(r).status # "ACTIVATED")
  BY AboutAccount DEF Suspend, Archive, Reactivate, Without
<1>1. CASE Suspend(r) \/ Archive(r)
  <2>1. PICK status \in {"SUSPENDED", "ARCHIVED"} : Shut(r, status)
    BY <1>1 DEF Suspend, Archive
  <2>2. PICK member \in {"none", "on", "off"} : member = MemberOf(Mine(r), FALSE)
    BY DEF MemberOf
  <2>3. PICK account : account = [Mine(r) EXCEPT !.active = FALSE, !.member = member,
                                                 !.status = status]
    OBVIOUS
  <2>4. /\ account \in Rows /\ account.mail = Mine(r).mail /\ account.gone = Mine(r).gone
        /\ account.kind = Mine(r).kind /\ account.inv = Mine(r).inv
        /\ account.temp = Mine(r).temp /\ account.must = Mine(r).must
        /\ account.status # "ACTIVATED"
    BY <1>0, <2>3 DEF Rows, Statuses
  <2>5. WellWritten(r, account)
    BY <1>0, <2>4, KeepsMail
  <2>6. Write(r, account, Idle) /\ UNCHANGED <<link, invite, asked, stops>>
    BY <2>1, <2>2, <2>3 DEF Shut
  <2> QED  BY <2>5, <2>6, IdleType, IdleIsSound DEF Writes
<1>2. CASE Reactivate(r)
  <2>1. PICK member \in {"none", "on", "off"} : member = MemberOf(Mine(r), TRUE)
    BY DEF MemberOf
  <2>2. PICK account : account = [Mine(r) EXCEPT !.active = TRUE, !.member = member,
                                                 !.status = req[r].say]
    OBVIOUS
  <2>3. /\ account \in Rows /\ account.mail = Mine(r).mail /\ account.gone = Mine(r).gone
        /\ account.kind = Mine(r).kind /\ account.inv = Mine(r).inv
        /\ account.temp = Mine(r).temp /\ account.must = Mine(r).must
        /\ account.status = req[r].say
    BY <1>0, <2>2 DEF Rows, Calls
  <2>4. \/ req[r].late \/ req[r].id \in stale
        \/ account.temp => account.must /\ account.status # "ACTIVATED"
    BY <1>0, <1>2, <2>3 DEF Sound, Reactivate
  <2>5. WellWritten(r, account)
    BY <1>0, <2>3, <2>4, KeepsMail
  <2>6. Write(r, account, Idle) /\ UNCHANGED <<link, invite, asked, stops>>
    BY <1>2, <2>1, <2>2 DEF Reactivate
  <2> QED  BY <2>5, <2>6, IdleType, IdleIsSound DEF Writes
<1> QED  BY <1>1, <1>2

LEMMA DeliverWrites ==
  ASSUME IInv, NEW r \in Requests, At(r, "deliver"),
         Write(r, [Mine(r) EXCEPT !.status = "INVITE_SENT"], Idle),
         UNCHANGED <<link, invite, asked, stops>>
  PROVE  Writes(r)
<1>0. /\ req[r].id \in DOMAIN user /\ Mine(r) \in Rows
      /\ req[r].id \notin stale => (Mine(r).temp => Mine(r).must /\ Mine(r).status # "ACTIVATED")
  BY AboutAccount DEF At, Without
<1>1. PICK account : account = [Mine(r) EXCEPT !.status = "INVITE_SENT"]
  OBVIOUS
<1>2. /\ account \in Rows /\ account.mail = Mine(r).mail /\ account.gone = Mine(r).gone
      /\ account.kind = Mine(r).kind /\ account.inv = Mine(r).inv
      /\ account.temp = Mine(r).temp /\ account.must = Mine(r).must
      /\ account.status # "ACTIVATED"
  BY <1>0, <1>1 DEF Rows, Statuses
<1>3. WellWritten(r, account)
  BY <1>0, <1>2, KeepsMail
<1> QED  BY <1>1, <1>3, IdleType, IdleIsSound DEF Writes

LEMMA PasswordWrites ==
  ASSUME IInv, NEW r \in Requests, ChangePassword(r) \/ ResetPassword(r) \/ Activate(r)
  PROVE  Writes(r)
<1> USE DEF At
<1>0. /\ req[r].id \in DOMAIN user /\ Mine(r) \in Rows /\ Mine(r) = user[req[r].id]
      /\ req[r] \in Calls /\ Sound(req[r])
      /\ req[r].id \notin stale => (Mine(r).temp => Mine(r).must /\ Mine(r).status # "ACTIVATED")
  BY AboutAccount DEF ChangePassword, ResetPassword, Activate, Without
<1>1. CASE ChangePassword(r) \/ ResetPassword(r)
  <2>1. PICK account : account = [Mine(r) EXCEPT !.temp = FALSE, !.must = FALSE]
    OBVIOUS
  <2>2. /\ account \in Rows /\ account.mail = Mine(r).mail /\ account.gone = Mine(r).gone
        /\ account.kind = Mine(r).kind /\ account.inv = Mine(r).inv /\ ~account.temp
    BY <1>0, <2>1 DEF Rows
  <2>3. WellWritten(r, account)
    BY <1>0, <2>2, KeepsMail
  <2>4. PICK next : next = Then(r, "activate")
    OBVIOUS
  <2>5. /\ Write(r, account, next) \/ Write(r, account, Idle)
        /\ UNCHANGED <<link, invite, asked, stops>>
    BY <1>1, <2>1, <2>4 DEF ChangePassword, ResetPassword, UpdatePassword
  <2>6. CASE Write(r, account, next)
    <3>1. next \in Calls /\ Sound(next)'
      BY <2>2, <2>3, <2>4, <2>5, <2>6, ThenSound
    <3> QED  BY <2>3, <2>5, <2>6, <3>1 DEF Writes
  <2>7. CASE Write(r, account, Idle)
    BY <2>3, <2>5, <2>7, IdleType, IdleIsSound DEF Writes
  <2> QED  BY <2>5, <2>6, <2>7
<1>2. CASE Activate(r)
  <2>1. PICK account : account = [Mine(r) EXCEPT !.must = FALSE, !.status = "ACTIVATED"]
    OBVIOUS
  <2>2. /\ account \in Rows /\ account.mail = Mine(r).mail /\ account.gone = Mine(r).gone
        /\ account.kind = Mine(r).kind /\ account.inv = Mine(r).inv
        /\ account.temp = Mine(r).temp
    BY <1>0, <2>1 DEF Rows, Statuses
  <2>3. req[r].late \/ ~account.temp
    BY <1>0, <1>2, <2>2 DEF Sound, Activate
  <2>4. WellWritten(r, account)
    BY <1>0, <2>2, <2>3, KeepsMail
  <2>5. PICK next : next = SignedIn(req[r].id)
    OBVIOUS
  <2>6. Write(r, account, next) /\ UNCHANGED <<link, invite, asked, stops>>
    BY <1>2, <2>1, <2>5 DEF Activate
  <2>7. next \in Calls /\ Sound(next)'
    BY <2>4, <2>5, <2>6, SignedInSound
  <2> QED  BY <2>4, <2>6, <2>7 DEF Writes
<1> QED  BY <1>1, <1>2

---------------------------------------------------------------------------
\* Steps of ensurePrimary, and invitations.

LEMMA MemberKeeps ==
  ASSUME IInv, NEW r \in Requests, Join(r) \/ SwitchOn(r)
  PROVE  IInv'
<1> DEFINE id == req[r].id
<1> USE DEF At
<1>0. id \in DOMAIN user /\ Mine(r) \in Rows /\ Mine(r) = user[id]
  BY AboutAccount DEF Join, SwitchOn, Without
<1>1. PICK member \in {"none", "on", "off"} : user' = [user EXCEPT ![id].member = member]
  <2>1. CASE SwitchOn(r)
    BY <2>1 DEF SwitchOn
  <2>2. CASE Join(r)
    <3>1. PICK member : member = IF user[id].member = "none" THEN "on" ELSE user[id].member
      OBVIOUS
    <3>2. member \in {"none", "on", "off"}
      BY <1>0, <3>1 DEF Rows
    <3>3. user' = [user EXCEPT ![id].member = member]
      BY <2>2, <3>1 DEF Join
    <3> QED  BY <3>2, <3>3
  <2> QED  BY <2>1, <2>2
<1>2. PICK account : account = [user[id] EXCEPT !.member = member]
  OBVIOUS
<1>3. /\ account \in Rows /\ account.mail = user[id].mail /\ account.gone = user[id].gone
      /\ account.kind = user[id].kind /\ account.inv = user[id].inv
      /\ account.temp = user[id].temp /\ account.must = user[id].must
      /\ account.status = user[id].status
  BY <1>0, <1>2 DEF Rows
<1>4. user' = [user EXCEPT ![id] = account]
  BY <1>1, <1>2
<1>5. /\ user' \in Seq(Rows) /\ DOMAIN user' = DOMAIN user
      /\ \A i \in DOMAIN user : user'[i] = IF i = id THEN account ELSE user[i]
  BY <1>0, <1>3, <1>4, ReplaceRow DEF IInv, Typed
<1>6. \A i \in DOMAIN user :
        /\ user'[i].mail = user[i].mail /\ user'[i].gone = user[i].gone
        /\ user'[i].kind = user[i].kind /\ user'[i].inv = user[i].inv
        /\ user'[i].temp = user[i].temp /\ user'[i].must = user[i].must
        /\ user'[i].status = user[i].status
  BY <1>3, <1>5
<1>u. UNCHANGED <<link, invite, asked, stops, stale>> /\ Done(r)
  BY DEF Join, SwitchOn
<1> HIDE DEF id
<1>7. req' \in [Requests -> Calls] /\ CallInv'
  BY <1>5, <1>6, <1>u, OthersStay, StopsAtIdle DEF RowsKept, IInv
<1>8. Typed'
  BY <1>5, <1>7, <1>u DEF IInv, Typed
<1>9. MailsUnique'
  BY <1>5, <1>6 DEF IInv, MailsUnique
<1>10. HolderInv'
  BY <1>5, <1>6, <1>u DEF IInv, HolderInv, Living
<1>11. TemporaryIsChanged'
  BY <1>5, <1>6, <1>u DEF IInv, TemporaryIsChanged
<1> QED  BY <1>7, <1>8, <1>9, <1>10, <1>11 DEF IInv

\* An invitation that is sent, revoked or expires changes no account.
LEMMA InvitationsKeep ==
  ASSUME IInv, invite' \in Seq(Invitations), DOMAIN invite \subseteq DOMAIN invite',
         \A i \in DOMAIN invite : invite'[i].mail = invite[i].mail,
         UNCHANGED <<user, link, asked, stops, stale>>,
         req' = req \/ \E r \in Requests : Done(r)
  PROVE  IInv'
<1>1. RowsKept /\ \A i \in DOMAIN user : user'[i].temp => user[i].temp
  BY DEF RowsKept
<1>2. CASE \E r \in Requests : Done(r)
  <2>1. req' \in [Requests -> Calls] /\ CallInv'
    BY <1>1, <1>2, OthersStay, StopsAtIdle DEF IInv
  <2> QED  BY <2>1, NoAccountChanges DEF IInv, Typed
<1>3. CASE req' = req
  <2>1. CallInv'
    <3> SUFFICES ASSUME NEW r \in Requests PROVE Sound(req[r])'
      BY DEF CallInv
    <3>1. PICK c \in Calls : c = req[r]
      BY DEF IInv, Typed
    <3>2. Sound(c)
      BY <3>1 DEF IInv, CallInv
    <3>3. Sound(c)'
      BY <1>1, <3>2, StaysSound
    <3> QED  BY <1>3, <3>1, <3>3 DEF Sound
  <2> QED  BY <1>3, <2>1, NoAccountChanges DEF IInv, Typed
<1> QED  BY <1>2, <1>3

LEMMA InvitationKeeps ==
  ASSUME IInv, NEW r \in Requests, CreateInvitation(r) \/ Revoke(r)
  PROVE  IInv'
<1> USE DEF At
<1>1. CASE CreateInvitation(r)
  <2>1. PICK sent : sent = [mail |-> req[r].mail, accepted |-> FALSE, revoked |-> FALSE,
                            expired |-> FALSE]
    OBVIOUS
  <2>2. sent \in Invitations
    <3>1. req[r].mail \in Emails
      BY <1>1 DEF CreateInvitation, IInv, CallInv, Sound
    <3> QED  BY <2>1, <3>1 DEF Invitations
  <2>3. invite' = Append(invite, sent)
    BY <1>1, <2>1 DEF CreateInvitation
  <2>4. /\ invite' \in Seq(Invitations) /\ DOMAIN invite \subseteq DOMAIN invite'
        /\ \A i \in DOMAIN invite : invite'[i].mail = invite[i].mail
    BY <2>2, <2>3, AddRow DEF IInv, Typed
  <2> QED  BY <1>1, <2>4, InvitationsKeep DEF CreateInvitation
<1>2. CASE Revoke(r)
  <2>1. PICK i : i = req[r].inv
    OBVIOUS
  <2>2. i \in DOMAIN invite /\ invite[i] \in Invitations
    BY <1>2, <2>1, InvitationType DEF Revoke, IInv, CallInv, Sound
  <2>3. PICK marked : marked = [invite[i] EXCEPT !.revoked = TRUE]
    OBVIOUS
  <2>4. marked \in Invitations /\ marked.mail = invite[i].mail
    BY <2>2, <2>3 DEF Invitations
  <2>5. invite' = [invite EXCEPT ![i] = marked]
    BY <1>2, <2>1, <2>3 DEF Revoke
  <2> QED  BY <1>2, <2>2, <2>4, <2>5, MarkInvitation, InvitationsKeep DEF Revoke
<1> QED  BY <1>1, <1>2

LEMMA ExpireKeeps == ASSUME IInv, NEW i \in DOMAIN invite, Expire(i) PROVE IInv'
<1>1. invite[i] \in Invitations
  BY InvitationType DEF IInv
<1>2. PICK marked : marked = [invite[i] EXCEPT !.expired = TRUE]
  OBVIOUS
<1>3. marked \in Invitations /\ marked.mail = invite[i].mail
  BY <1>1, <1>2 DEF Invitations
<1>4. invite' = [invite EXCEPT ![i] = marked]
  BY <1>2 DEF Expire
<1> QED  BY <1>3, <1>4, MarkInvitation, InvitationsKeep DEF Expire

---------------------------------------------------------------------------
\* The invariant, and what follows from it.

LEMMA ServeKeeps == ASSUME IInv, NEW r \in Requests, Serve(r) PROVE IInv'
<1>1. CASE CreateOrganizationWithAdmin(r) \/ CreateTenantUser(r) \/ CreateStaff(r) \/ CreateUser(r)
  BY <1>1, CreateKeeps
<1>2. CASE UpdateUser(r) \/ UpdateMembership(r) \/ DeleteUser(r) \/ ProvisionAccess(r)
  BY <1>2, UpdateWrites, DeleteWrites, WritesKeeps
<1>3. CASE CreateInvitation(r) \/ Revoke(r)
  BY <1>3, InvitationKeeps
<1>4. CASE AcceptInvitation(r) \/ Grant(r)
  BY <1>4, AcceptKeeps, GrantKeeps
<1>5. CASE LookForClash(r) \/ FindMembership(r)
  BY <1>5, ServeGoes, GoesOnKeeps
<1>6. CASE Renew(r)
  <2>1. CASE FreeFor(TenantMail, req[r].id)
    BY <1>6, <2>1, RenewWrites, WritesKeeps
  <2>2. CASE ~FreeFor(TenantMail, req[r].id)
    BY <1>6, <2>2, EndsHere, GoesOnKeeps DEF Renew, rows, IInv, Typed
  <2> QED  BY <2>1, <2>2
<1>7. CASE Deliver(r)
  <2>1. CASE Done(r) /\ UNCHANGED <<user, stale>>
    BY <1>7, <2>1, EndsHere, GoesOnKeeps DEF Deliver, rows, IInv, Typed
  <2>2. CASE Write(r, [Mine(r) EXCEPT !.status = "INVITE_SENT"], Idle)
    BY <1>7, <2>2, DeliverWrites, WritesKeeps DEF Deliver
  <2> QED  BY <1>7, <2>1, <2>2 DEF Deliver
<1>8. CASE Suspend(r) \/ Archive(r) \/ Reactivate(r)
  BY <1>8, PortalWrites, WritesKeeps
<1>9. CASE ChangePassword(r) \/ ResetPassword(r) \/ Activate(r)
  BY <1>9, PasswordWrites, WritesKeeps
<1>10. CASE SwitchOn(r) \/ Join(r)
  BY <1>10, MemberKeeps
<1> QED  BY <1>1, <1>2, <1>3, <1>4, <1>5, <1>6, <1>7, <1>8, <1>9, <1>10 DEF Serve

LEMMA StopKeeps == ASSUME IInv, NEW r \in Requests, Stop(r) PROVE IInv'
<1>1. asked' \in 0..MaxAsked /\ stops' \in 0..MaxStops
  BY AccountsAssumption DEF Stop, IInv, Typed
<1> QED  BY <1>1, EndsHere, GoesOnKeeps DEF Stop

LEMMA InvInit == Init => IInv
<1> SUFFICES ASSUME Init PROVE IInv
  OBVIOUS
<1>1. DOMAIN user = {} /\ DOMAIN invite = {} /\ user \in Seq(Rows) /\ invite \in Seq(Invitations)
  BY Indices, EmptySeq DEF Init
<1>2. Typed
  BY <1>1, IdleType, AccountsAssumption DEF Init, Typed
<1>3. CallInv
  BY IdleIsSound DEF Init, CallInv
<1> QED  BY <1>1, <1>2, <1>3 DEF IInv, MailsUnique, HolderInv, TemporaryIsChanged, Init

LEMMA InvStep == IInv /\ [Next]_vars => IInv'
<1> SUFFICES ASSUME IInv, [Next]_vars PROVE IInv'
  OBVIOUS
<1>1. CASE UNCHANGED vars
  BY <1>1, InvitationsKeep DEF vars, rows, IInv, Typed
<1>2. ASSUME NEW r \in Requests, Open(r) PROVE IInv'
  BY <1>2, OpenGoes, GoesOnKeeps
<1>3. ASSUME NEW r \in Requests, NEW id, SignIn(r, id) PROVE IInv'
  BY <1>3, SignInGoes, GoesOnKeeps
<1> QED  BY <1>1, <1>2, <1>3, ServeKeeps, StopKeeps, ExpireKeeps DEF Next, Come, Visit

LEMMA InvAlways == Spec => []IInv
BY InvInit, InvStep, PTL DEF Spec

\* Accounts, invitations and requests are well typed, and refer to rows that exist.
THEOREM TypeCorrect == Spec => []TypeOK
<1>1. IInv => TypeOK
  <2> SUFFICES ASSUME IInv PROVE TypeOK
    OBVIOUS
  <2>1. DOMAIN user = 1..Len(user) /\ DOMAIN invite = 1..Len(invite) /\ Len(user) \in Nat
        /\ Len(invite) \in Nat
    BY Indices DEF IInv, Typed
  <2>2. link \in 0..Len(user)
    BY <2>1 DEF IInv, Typed, HolderInv
  <2>3. ASSUME NEW i \in DOMAIN user
        PROVE  /\ user[i].mail \in Emails \cup {NoMail} /\ user[i].kind \in Kinds
               /\ user[i].inv \in 0..Len(invite)
               /\ user[i].member \in {"none", "on", "off"} /\ user[i].status \in Statuses
    <3>1. user[i] \in Rows
      BY RowType DEF IInv
    <3>2. user[i].inv # 0 => user[i].inv \in DOMAIN invite
      BY DEF IInv, HolderInv
    <3> QED  BY <2>1, <3>1, <3>2 DEF Rows
  <2>4. ASSUME NEW r \in Requests
        PROVE  req[r].id \in 0..Len(user) /\ req[r].inv \in 0..Len(invite)
    BY <2>1 DEF IInv, CallInv, Sound
  <2> QED  BY <2>2, <2>3, <2>4 DEF TypeOK, IInv, Typed
<1> QED  BY <1>1, InvAlways, PTL

\* However often and however late it is used, an invitation leads to one living account,
\* and so does the file of a tenant with an e-mail, which is linked to it.
THEOREM OneAccount == Spec => []OneAccountEach
<1>1. IInv => OneAccountEach
  <2> SUFFICES ASSUME IInv, NEW i \in DOMAIN user, Living(i)
               PROVE  /\ user[i].kind = "portal" /\ TenantMail # NoMail => link = i \/ user[link].gone
                      /\ \A j \in DOMAIN user \ {i} : Living(j) =>
                           /\ user[i].inv # 0 => user[i].inv # user[j].inv
                           /\ TenantMail # NoMail => ~(user[i].kind = "portal" /\ user[j].kind = "portal")
    BY DEF OneAccountEach
  <2>1. user[i].kind = "portal" /\ TenantMail # NoMail => link = i \/ user[link].gone
    BY DEF IInv, HolderInv, MailsUnique, Living
  <2>2. ASSUME NEW j \in DOMAIN user \ {i}, Living(j), user[i].inv # 0
        PROVE  user[i].inv # user[j].inv
    <3>1. user[i].mail = invite[user[i].inv].mail /\ user[i].inv \in DOMAIN invite
      BY <2>2 DEF IInv, HolderInv
    <3>2. invite[user[i].inv].mail \in Emails
      BY <3>1, InvitationType DEF IInv, Invitations
    <3>3. user[i].mail # NoMail /\ user[j].mail # user[i].mail
      BY <3>1, <3>2, AccountsAssumption DEF IInv, MailsUnique
    <3> QED  BY <2>2, <3>1, <3>3 DEF IInv, HolderInv
  <2>3. ASSUME NEW j \in DOMAIN user \ {i}, Living(j), TenantMail # NoMail
        PROVE  ~(user[i].kind = "portal" /\ user[j].kind = "portal")
    BY <2>3 DEF IInv, HolderInv, MailsUnique
  <2> QED  BY <2>1, <2>2, <2>3
<1> QED  BY <1>1, InvAlways, PTL

\* Of every account whose state of use was always written by a request that had read
\* it as it was (all but those in stale, where a change of password or a reactivation
\* lands after another request has replaced the password, and the code loses the
\* obligation): a temporary password has to be changed, and the account is not said
\* to be in use, for any number of requests, accounts and stops.
THEOREM TemporaryMustChange == Spec => []TemporaryIsChanged
BY InvAlways, PTL DEF IInv

---------------------------------------------------------------------------
(***************************************************************************)
(* The trial of those who sign up (TrialClaims), for any number of         *)
(* accounts and keys: two accounts that share a key are not both given a   *)
(* trial, and a refusal is always due to an account that exists.           *)
(***************************************************************************)

LEMMA TrialTypeInit == TrialInit => TrialTypeOK
BY DEF TrialInit, TrialTypeOK, Keys

LEMMA InsertType ==
  ASSUME TrialTypeOK, NEW s \in Signups, NEW k \in Keys, Insert(s, k)
  PROVE  missed' \subseteq Signups /\ claims' \in [Keys -> Signups \cup {Nobody}]
BY DEF TrialTypeOK, Insert

LEMMA TrialTypeStep == TrialTypeOK /\ [TrialNext]_trialVars => TrialTypeOK'
<1> SUFFICES ASSUME TrialTypeOK, [TrialNext]_trialVars PROVE TrialTypeOK'
  OBVIOUS
<1> USE DEF Goto, Ended, Committed
<1>1. CASE UNCHANGED trialVars
  BY <1>1 DEF trialVars, TrialTypeOK
<1>2. ASSUME NEW s \in Signups, Advance(s) \/ Abort(s) PROVE TrialTypeOK'
  <2>1. CASE LookUp(s)
    BY <2>1 DEF LookUp, TrialTypeOK
  <2>2. CASE ClaimEmail(s)
    <3>1. email[s] \in Keys
      BY DEF TrialTypeOK, Keys
    <3> QED  BY <2>2, <3>1, InsertType DEF ClaimEmail, TrialTypeOK
  <2>3. CASE ClaimPhone(s) /\ phone[s] \in Keys
    BY <2>3, InsertType DEF ClaimPhone, TrialTypeOK
  <2>4. CASE ClaimPhone(s) /\ phone[s] \notin Keys
    <3>1. claims' = claims \/ claims' = [claims EXCEPT ![phone[s]] = s]
      BY <2>4 DEF ClaimPhone, Insert
    <3>2. missed' = missed \/ missed' = missed \cup {s}
      BY <2>4 DEF ClaimPhone, Insert
    <3> QED  BY <2>4, <3>1, <3>2 DEF ClaimPhone, TrialTypeOK
  <2>5. CASE Commit(s)
    BY <2>5 DEF Commit, TrialTypeOK
  <2>6. CASE Abort(s)
    BY <2>6 DEF Abort, TrialTypeOK
  <2> QED  BY <1>2, <2>1, <2>2, <2>3, <2>4, <2>5, <2>6 DEF Advance
<1> QED  BY <1>1, <1>2 DEF TrialNext

\* Keys, transactions and claims are well typed.
THEOREM TrialTypeCorrect == TrialSpec => []TrialTypeOK
<1>1. TrialInit => TrialTypeOK
  BY TrialTypeInit
<1>2. TrialTypeOK /\ [TrialNext]_trialVars => TrialTypeOK'
  BY TrialTypeStep
<1> QED  BY <1>1, <1>2, PTL DEF TrialSpec

---------------------------------------------------------------------------
\* The inductive invariant of the trials.

\* A sign-up that has missed no key so far owns those it has been through.
Owns(s) ==
  /\ pc[s] \in {"phone", "decided", "trial"} => claims[email[s]] = s
  /\ pc[s] \in {"decided", "trial"} /\ phone[s] # NoPhone => claims[phone[s]] = s

\* One that has missed a key met the claim of a committed account.
Blocked(s) == \E k \in KeysOf(s) : claims[k] # s /\ Visible(k)

SignupInv(s) ==
  /\ pc[s] = "phone" => phone[s] # NoPhone
  /\ pc[s] \in {"look", "email"} => s \notin missed
  /\ pc[s] = "trial" => s \notin missed
  /\ pc[s] = "refused" => s \in missed
  /\ s \notin missed => Owns(s)
  /\ s \in missed /\ pc[s] # "aborted" => Blocked(s)

ClaimsInv == \A s \in Signups : SignupInv(s)

LEMMA ClaimsInit == TrialInit => ClaimsInv
BY DEF TrialInit, ClaimsInv, SignupInv, Owns, Ended, Committed

\* A claim is never taken over; it is only freed by its own sign-up, when that aborts.
LEMMA ClaimsStay ==
  ASSUME TrialTypeOK, ClaimsInv, NEW s \in Signups, Advance(s) \/ Abort(s),
         NEW k \in Keys, claims[k] # Nobody, claims[k] # s \/ ~Abort(s)
  PROVE  claims'[k] = claims[k]
<1>1. CASE LookUp(s) \/ Commit(s)
  BY <1>1 DEF LookUp, Commit
<1>2. CASE ClaimEmail(s)
  BY <1>2 DEF ClaimEmail, Insert, TrialTypeOK
<1>3. CASE ClaimPhone(s)
  BY <1>3 DEF ClaimPhone, Insert, TrialTypeOK
<1>4. CASE Abort(s)
  BY <1>4 DEF Abort
<1> QED  BY <1>1, <1>2, <1>3, <1>4 DEF Advance

\* Hence what is visible stays so.
LEMMA VisibleStays ==
  ASSUME TrialTypeOK, ClaimsInv, NEW s \in Signups, Advance(s) \/ Abort(s),
         NEW k \in Keys, Visible(k)
  PROVE  claims'[k] = claims[k] /\ Visible(k)'
<1>1. pc[s] \notin Committed /\ \A t \in Signups \ {s} : pc'[t] = pc[t]
  BY DEF Advance, LookUp, ClaimEmail, ClaimPhone, Commit,
         Abort, Goto, Ended, Committed, TrialTypeOK
<1>2. claims[k] # s /\ claims[k] \in Signups
  BY <1>1 DEF Visible, TrialTypeOK
<1>3. claims'[k] = claims[k]
  BY <1>2, ClaimsStay DEF Visible
<1> QED  BY <1>1, <1>2, <1>3 DEF Visible

\* The other sign-ups keep what they have.
LEMMA OthersKeep ==
  ASSUME TrialTypeOK, ClaimsInv, NEW s \in Signups,
         Advance(s) \/ Abort(s), NEW t \in Signups, t # s
  PROVE  /\ UNCHANGED <<email, phone>> /\ pc'[t] = pc[t] /\ (t \in missed' <=> t \in missed)
         /\ Owns(t) => Owns(t)'
         /\ Blocked(t) => Blocked(t)'
<1>1. UNCHANGED <<email, phone>> /\ pc'[t] = pc[t] /\ (t \in missed' <=> t \in missed)
  BY DEF Advance, LookUp, ClaimEmail, ClaimPhone, Commit,
         Abort, Goto, Insert, TrialTypeOK
<1>2. t # Nobody
  BY ClaimsAssumption
<1>3. \A k \in Keys : claims[k] = t => claims'[k] = t
  BY <1>2, ClaimsStay
<1>4. email[t] \in Keys /\ (phone[t] # NoPhone => phone[t] \in Keys)
  BY DEF TrialTypeOK, Keys
<1>5. Owns(t) => Owns(t)'
  BY <1>1, <1>3, <1>4 DEF Owns
<1>6. KeysOf(t)' = KeysOf(t) /\ KeysOf(t) \subseteq Keys
  BY <1>1, <1>4 DEF KeysOf
<1>7. Blocked(t) => Blocked(t)'
  BY <1>6, VisibleStays DEF Blocked
<1> QED  BY <1>1, <1>5, <1>7

\* Inserting a key: owned if it was free, met if it was taken.
LEMMA InsertResult ==
  ASSUME TrialTypeOK, NEW s \in Signups, NEW k \in Keys, Insert(s, k)
  PROVE  \/ claims'[k] = s /\ missed' = missed
         \/ Visible(k) /\ claims' = claims /\ s \in missed'
BY DEF Insert, TrialTypeOK

LEMMA ClaimsStep ==
  TrialTypeOK /\ TrialTypeOK' /\ ClaimsInv /\ [TrialNext]_trialVars
    => ClaimsInv'
<1> SUFFICES ASSUME TrialTypeOK, TrialTypeOK', ClaimsInv, [TrialNext]_trialVars
             PROVE  ClaimsInv'
  OBVIOUS
<1>1. CASE UNCHANGED trialVars
  BY <1>1 DEF trialVars, ClaimsInv, SignupInv, Owns, Blocked, KeysOf, Visible
<1>2. ASSUME NEW s \in Signups, Advance(s) \/ Abort(s) PROVE ClaimsInv'
  <2>1. \A t \in Signups : t # s => SignupInv(t)'
    BY <1>2, OthersKeep DEF ClaimsInv, SignupInv
  <2>2. /\ email[s] \in Keys /\ email[s] \in KeysOf(s)
        /\ KeysOf(s) \subseteq Keys
        /\ phone[s] # NoPhone => phone[s] \in Keys /\ phone[s] \in KeysOf(s)
    BY ClaimsAssumption DEF TrialTypeOK, Keys, KeysOf
  <2>3. UNCHANGED <<email, phone>> /\ KeysOf(s)' = KeysOf(s)
    BY <1>2 DEF Advance, LookUp, ClaimEmail, ClaimPhone, Commit,
                Abort, KeysOf
  <2>4. Blocked(s) => Blocked(s)'
    BY <1>2, <2>2, <2>3, VisibleStays DEF Blocked
  <2>5. pc[s] \notin Committed
    BY <1>2 DEF Advance, LookUp, ClaimEmail, ClaimPhone, Commit,
                Abort, Goto, Ended, Committed
  <2>6. ASSUME NEW k \in KeysOf(s), Visible(k) PROVE Blocked(s)'
    <3>1. claims[k] # s
      BY <2>5, <2>6 DEF Visible
    <3> QED  BY <2>4, <2>6, <3>1 DEF Blocked
  <2>7. SignupInv(s)
    BY DEF ClaimsInv
  <2> SUFFICES SignupInv(s)'
    BY <2>1 DEF ClaimsInv
  <2>8. CASE LookUp(s)
    <3>1. CASE \E k \in KeysOf(s) : Visible(k)
      <4>1. pc'[s] = "decided" /\ s \in missed'
        BY <2>8, <3>1 DEF LookUp, Goto, TrialTypeOK
      <4> QED  BY <2>6, <3>1, <4>1 DEF SignupInv
    <3>2. CASE ~\E k \in KeysOf(s) : Visible(k)
      <4>1. pc'[s] = "email" /\ s \notin missed'
        BY <2>7, <2>8, <3>2 DEF LookUp, Goto, TrialTypeOK, SignupInv
      <4> QED  BY <4>1 DEF SignupInv, Owns
    <3> QED  BY <3>1, <3>2
  <2>9. CASE ClaimEmail(s)
    <3>1. /\ pc[s] = "email" /\ s \notin missed
          /\ pc'[s] = IF phone[s] = NoPhone THEN "decided" ELSE "phone"
      BY <2>7, <2>9 DEF ClaimEmail, Goto, TrialTypeOK, SignupInv
    <3>2. CASE claims'[email[s]] = s /\ missed' = missed
      BY <2>3, <3>1, <3>2 DEF SignupInv, Owns
    <3>3. CASE Visible(email[s]) /\ s \in missed'
      BY <2>2, <2>3, <2>6, <3>1, <3>3 DEF SignupInv
    <3> QED  BY <2>2, <2>9, <3>2, <3>3, InsertResult DEF ClaimEmail
  <2>10. CASE ClaimPhone(s)
    <3>1. pc[s] = "phone" /\ pc'[s] = "decided" /\ phone[s] # NoPhone
      BY <2>7, <2>10 DEF ClaimPhone, Goto, TrialTypeOK, SignupInv
    <3>2. CASE claims'[phone[s]] = s /\ missed' = missed
      <4>1. CASE s \in missed
        BY <2>4, <2>7, <3>1, <3>2, <4>1 DEF SignupInv
      <4>2. CASE s \notin missed
        <5>1. claims[email[s]] = s /\ s # Nobody
          BY <2>7, <3>1, <4>2, ClaimsAssumption DEF SignupInv, Owns
        <5>2. claims'[email[s]] = s
          BY <1>2, <2>2, <2>10, <5>1 DEF ClaimPhone, Insert, TrialTypeOK
        <5> QED  BY <2>3, <3>1, <3>2, <4>2, <5>2 DEF SignupInv, Owns
      <4> QED  BY <4>1, <4>2
    <3>3. CASE Visible(phone[s]) /\ s \in missed'
      BY <2>2, <2>3, <2>6, <3>1, <3>3 DEF SignupInv
    <3> QED  BY <2>2, <2>10, <3>1, <3>2, <3>3, InsertResult DEF ClaimPhone
  <2>11. CASE Commit(s)
    <3>1. /\ pc[s] = "decided" /\ UNCHANGED <<missed, claims>>
          /\ pc'[s] = IF s \in missed THEN "refused" ELSE "trial"
      BY <2>11 DEF Commit, Goto, TrialTypeOK
    <3>2. Owns(s) => Owns(s)'
      BY <2>3, <3>1 DEF Owns
    <3> QED  BY <2>4, <2>7, <3>1, <3>2 DEF SignupInv
  <2>12. CASE Abort(s)
    <3>1. pc'[s] = "aborted"
      BY <2>12 DEF Abort, TrialTypeOK
    <3> QED  BY <3>1 DEF SignupInv, Owns
  <2> QED  BY <1>2, <2>1, <2>8, <2>9, <2>10, <2>11, <2>12 DEF Advance, ClaimsInv
<1> QED  BY <1>1, <1>2 DEF TrialNext

LEMMA ClaimsCorrect == TrialSpec => [](TrialTypeOK /\ ClaimsInv)
<1>1. TrialInit => TrialTypeOK /\ ClaimsInv
  BY TrialTypeInit, ClaimsInit
<1>2. TrialTypeOK /\ ClaimsInv /\ [TrialNext]_trialVars => TrialTypeOK' /\ ClaimsInv'
  BY TrialTypeStep, ClaimsStep
<1> QED  BY <1>1, <1>2, PTL DEF TrialSpec

\* No e-mail or telephone serves two trials, whatever sign-ups run at once.
THEOREM NoSharedTrial == TrialSpec => []OneTrialPerKey
<1>1. TrialTypeOK /\ ClaimsInv => OneTrialPerKey
  <2> SUFFICES ASSUME TrialTypeOK, ClaimsInv, NEW s \in Signups, NEW t \in Signups,
                      pc[s] = "trial", pc[t] = "trial",
                      NEW k \in KeysOf(s), k \in KeysOf(t)
               PROVE  s = t
    BY DEF OneTrialPerKey
  <2>1. claims[k] = s /\ claims[k] = t
    BY DEF ClaimsInv, SignupInv, Owns, KeysOf
  <2> QED  BY <2>1
<1> QED  BY <1>1, ClaimsCorrect, PTL

\* An account refused its trial shares a key with an account that was created.
THEOREM RefusalHasCause == TrialSpec => []RefusedForCause
<1>1. TrialTypeOK /\ ClaimsInv => RefusedForCause
  BY DEF ClaimsInv, SignupInv, RefusedForCause, Blocked
<1> QED  BY <1>1, ClaimsCorrect, PTL

=============================================================================
