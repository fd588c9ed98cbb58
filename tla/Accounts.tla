------------------------------ MODULE Accounts ------------------------------
(***************************************************************************)
(* The accounts of one organisation: sign-ups, invitations of              *)
(* collaborators, accounts the staff makes or repairs, the portal account  *)
(* of one tenant, and what their holders do.  An account is looked up by   *)
(* its e-mail, then made in a transaction that does not look again: what   *)
(* remains is the unique index on users.email.  Operations on an account   *)
(* read it, then write it by id.                                           *)
(*                                                                         *)
(* An account is a row of users with its membership; of the password only  *)
(* whether it is a temporary one, given with the obligation to change it.  *)
(* Bounds: MaxUsers, MaxInvites, MaxAsked, MaxStops.                       *)
(***************************************************************************)
EXTENDS Naturals, Sequences

CONSTANTS
  Requests,    \* requests at work at the same time
  Emails,
  NoMail,      \* no e-mail: the account has an identifier of its own
  TenantMail,  \* the e-mail on the tenant's file, or NoMail
  MaxUsers, MaxInvites,  \* rows ever created
  MaxAsked,    \* requests that may write
  MaxStops     \* requests that end before their time

ASSUME AccountsAssumption ==
  /\ NoMail \notin Emails /\ TenantMail \in Emails \cup {NoMail}
  /\ MaxUsers \in Nat /\ MaxInvites \in Nat /\ MaxAsked \in Nat /\ MaxStops \in Nat

VARIABLES
  user,    \* accounts, in the order they were made
  link,    \* tenants.userId: the account of the tenant's file, or 0
  invite,  \* invitations, in the order they were sent
  req,     \* the requests at work
  asked,   \* how many requests that write have begun
  stops,   \* how many have been stopped
  stale    \* history: accounts whose state of use was written by a request that
           \* had begun before another one changed the password

rows == <<user, link, invite>>
vars == <<rows, req, asked, stops, stale>>

Statuses == {"none", "PROVISIONED", "INVITE_SENT", "ACTIVATED", "SUSPENDED", "ARCHIVED"}
Kinds    == {"owner", "self", "staff", "portal"}

Idle == [at |-> "idle", id |-> 0, mail |-> NoMail, inv |-> 0, say |-> "none", late |-> FALSE]

Init ==
  /\ user = <<>> /\ link = 0 /\ invite = <<>>
  /\ req = [r \in Requests |-> Idle]
  /\ asked = 0 /\ stops = 0 /\ stale = {}

---------------------------------------------------------------------------

\* The unique index, which leaves out accounts without an e-mail.
FreeFor(mail, id) == mail = NoMail \/ \A i \in DOMAIN user \ {id} : user[i].mail # mail
Free(mail)        == FreeFor(mail, 0)

\* A new row, and whether its password is one to change.
Account(mail, kind, inv, member, temporary) ==
  [mail |-> mail, kind |-> kind, inv |-> inv, active |-> TRUE, member |-> member,
   temp |-> temporary, must |-> temporary,
   status |-> IF temporary THEN "PROVISIONED" ELSE "none", gone |-> FALSE]

NewId == Len(user) + 1
Add(account) == user' = Append(user, account)

At(r, place) == req[r].at = place
Go(r, next)  == req' = [req EXCEPT ![r] = next]
Done(r)      == Go(r, Idle)
Then(r, place) == [req[r] EXCEPT !.at = place]
Read(r, place, id) == Go(r, [Idle EXCEPT !.at = place, !.id = id])

\* A request that will write begins.
Ask(r) == At(r, "idle") /\ asked < MaxAsked /\ asked' = asked + 1

\* r writes its account, and goes on: when a temporary password replaces
\* another one, whoever is about to say that the account is in use is late.
Write(r, account, next) ==
  LET id == req[r].id
      Overtaken(q) == /\ req[q].id = id /\ req[q].at \in {"activate", "reactivate"}
                      /\ account.temp /\ ~user[id].temp
  IN
  /\ user' = [user EXCEPT ![id] = account]
  /\ req' = [q \in Requests |->
       IF q = r THEN next ELSE [req[q] EXCEPT !.late = @ \/ Overtaken(q)]]
  /\ stale' = IF req[r].late THEN stale \cup {id} ELSE stale

Mine(r) == user[req[r].id]

\* updateMany on the membership, if there is one.
MemberOf(account, on) ==
  IF account.member = "none" THEN "none" ELSE IF on THEN "on" ELSE "off"

---------------------------------------------------------------------------
(* Accounts that are made *)

\* The e-mail is looked up ...
Look(r, place, mails) ==
  /\ Ask(r)
  /\ \E mail \in mails : Free(mail) /\ Go(r, [Idle EXCEPT !.at = place, !.mail = mail])
  /\ UNCHANGED <<rows, stops, stale>>

\* ... then the account is made, unless another one has taken it.
Make(r, account, next) ==
  /\ IF Free(req[r].mail) /\ Len(user) < MaxUsers
       THEN Add(account) /\ Go(r, next) ELSE UNCHANGED user /\ Done(r)
  /\ UNCHANGED <<link, invite, asked, stops, stale>>

\* Who signs up is signed in.
SignedIn(id) == [Idle EXCEPT !.at = "visit", !.id = id]

\* The account and its membership, in one transaction: of an owner with his
\* organisation, ...
Register(r) == Look(r, "owner", Emails)

CreateOrganizationWithAdmin(r) ==
  At(r, "owner") /\ Make(r, Account(req[r].mail, "owner", 0, "on", FALSE), SignedIn(NewId))

\* ... of a tenant who signs up himself, ...
RegisterTenant(r) == Look(r, "self", Emails)

CreateTenantUser(r) ==
  At(r, "self") /\ Make(r, Account(req[r].mail, "self", 0, "on", FALSE), SignedIn(NewId))

\* ... of a collaborator, who may have no e-mail.
ProvisionStaff(r) == Look(r, "staff", Emails \cup {NoMail})

CreateStaff(r) ==
  At(r, "staff") /\ Make(r, Account(req[r].mail, "staff", 0, "on", TRUE), Idle)

\* createUser of the administrator makes the account, then its membership (Join).
CheckUser(r) == Look(r, "admin", Emails)

CreateUser(r) ==
  /\ At(r, "admin")
  /\ Make(r, Account(req[r].mail, "staff", 0, "none", FALSE),
          [Idle EXCEPT !.at = "join", !.id = NewId])

---------------------------------------------------------------------------
(* Accounts the administrator changes *)

\* A request about the account id.
Pick(r, place, id) == Ask(r) /\ Read(r, place, id) /\ UNCHANGED <<rows, stops, stale>>

\* The account is his organisation's, or any for the platform's administrator.
AskUpdate(r) == \E id \in DOMAIN user, place \in {"enable", "disable"} : Pick(r, place, id)
AskDelete(r) == \E id \in DOMAIN user : Pick(r, "delete", id)
AskAccess(r) == \E id \in DOMAIN user : user[id].kind = "staff" /\ Pick(r, "repair", id)

\* updateUser: the account, ...
UpdateUser(r) ==
  /\ At(r, "enable") \/ At(r, "disable")
  /\ Write(r, [Mine(r) EXCEPT !.active = At(r, "enable")],
           Then(r, IF At(r, "enable") THEN "enableMember" ELSE "disableMember"))
  /\ UNCHANGED <<link, invite, asked, stops>>

\* ... then its membership.
UpdateMembership(r) ==
  /\ At(r, "enableMember") \/ At(r, "disableMember")
  /\ Write(r, [Mine(r) EXCEPT !.member = MemberOf(Mine(r), At(r, "enableMember"))], Idle)
  /\ UNCHANGED <<link, invite, asked, stops>>

\* deleteUser: the row stays, without its e-mail.
DeleteUser(r) ==
  /\ At(r, "delete")
  /\ Write(r, [Mine(r) EXCEPT !.active = FALSE, !.mail = NoMail, !.gone = TRUE], Idle)
  /\ UNCHANGED <<link, invite, asked, stops>>

\* provisionAccess: a temporary password for a collaborator.
ProvisionAccess(r) ==
  /\ At(r, "repair")
  /\ Write(r, [Mine(r) EXCEPT !.active = TRUE, !.temp = TRUE, !.must = TRUE,
                              !.status = "PROVISIONED"], Idle)
  /\ UNCHANGED <<link, invite, asked, stops>>

---------------------------------------------------------------------------
(* Invitations *)

Valid(i) == ~invite[i].accepted /\ ~invite[i].revoked /\ ~invite[i].expired

\* create: no account and no open invitation for the e-mail.
Invite(r) ==
  /\ Ask(r)
  /\ \E mail \in Emails :
       /\ Free(mail)
       /\ \A i \in DOMAIN invite : invite[i].mail = mail => ~Valid(i)
       /\ Go(r, [Idle EXCEPT !.at = "invite", !.mail = mail])
  /\ UNCHANGED <<rows, stops, stale>>

\* It stays even when its message cannot be sent.
CreateInvitation(r) ==
  /\ At(r, "invite") /\ Len(invite) < MaxInvites
  /\ invite' = Append(invite, [mail |-> req[r].mail, accepted |-> FALSE,
                               revoked |-> FALSE, expired |-> FALSE])
  /\ Done(r)
  /\ UNCHANGED <<user, link, asked, stops, stale>>

Opened(r, place, i) == Go(r, [Idle EXCEPT !.at = place, !.inv = i])

\* accept: a valid invitation, for whose e-mail there is no account yet ...
OpenInvitation(r) ==
  /\ Ask(r)
  /\ \E i \in DOMAIN invite : Valid(i) /\ Free(invite[i].mail) /\ Opened(r, "accept", i)
  /\ UNCHANGED <<rows, stops, stale>>

\* Mutant: the account is only made if the e-mail is free when it is, and the
\* invitation is marked in any case.
AcceptAnyway(r) ==
  LET i == req[r].inv IN
  /\ At(r, "accept")
  /\ Add(Account(IF Free(invite[i].mail) THEN invite[i].mail ELSE NoMail, "staff", i, "on", FALSE))
  /\ invite' = [invite EXCEPT ![i].accepted = TRUE]
  /\ Read(r, "visit", NewId)
  /\ UNCHANGED <<link, asked, stops, stale>>

\* ... and the transaction that makes it, whatever became of the invitation.
AcceptInvitation(r) ==
  LET i == req[r].inv IN
  /\ At(r, "accept")
  /\ IF Free(invite[i].mail) /\ Len(user) < MaxUsers
       THEN /\ Add(Account(invite[i].mail, "staff", i, "on", FALSE))
            /\ invite' = [invite EXCEPT ![i].accepted = TRUE]
            /\ Read(r, "visit", NewId)
       ELSE Done(r) /\ UNCHANGED <<user, invite>>
  /\ UNCHANGED <<link, asked, stops, stale>>

\* revoke: neither accepted nor revoked ...
LookToRevoke(r) ==
  /\ Ask(r)
  /\ \E i \in DOMAIN invite : ~invite[i].accepted /\ ~invite[i].revoked /\ Opened(r, "revoke", i)
  /\ UNCHANGED <<rows, stops, stale>>

\* ... then revoked, even if it was accepted meanwhile.
Revoke(r) ==
  /\ At(r, "revoke")
  /\ invite' = [invite EXCEPT ![req[r].inv].revoked = TRUE]
  /\ Done(r)
  /\ UNCHANGED <<user, link, asked, stops, stale>>

Expire(i) ==
  /\ Valid(i) /\ invite' = [invite EXCEPT ![i].expired = TRUE]
  /\ UNCHANGED <<user, link, req, asked, stops, stale>>

---------------------------------------------------------------------------
(* The tenant's portal account *)

\* The tenant's file is loaded with its account.  An account is made if there is none
\* (an archived one is refused), for the staff or when a lease becomes active, ...
ProvisionPortal(r) == link = 0 /\ Pick(r, "provision", 0)
MaybeAutoProvision(r) == ProvisionPortal(r)

\* ... and reset, whether there is one or not.
Reset(r) == Pick(r, "provision", link)

AskSuspend(r) == link # 0 /\ Pick(r, "suspend", link)
AskArchive(r) == link # 0 /\ Pick(r, "archive", link)

\* reactivate says at once what the account will be.
AskReactivate(r) ==
  /\ Ask(r)
  /\ link # 0 /\ user[link].status # "ARCHIVED"
  /\ \E say \in {"PROVISIONED", "INVITE_SENT", "ACTIVATED"} :
       /\ say = "ACTIVATED" <=> ~user[link].must
       /\ Go(r, [Idle EXCEPT !.at = "reactivate", !.id = link, !.say = say])
  /\ UNCHANGED <<rows, stops, stale>>

\* provision looks whether the e-mail of the file is someone else's.
LookForClash(r) ==
  /\ At(r, "provision")
  /\ IF FreeFor(TenantMail, req[r].id) THEN Go(r, Then(r, "grant")) ELSE Done(r)
  /\ UNCHANGED <<rows, asked, stops, stale>>

\* Its transaction makes the account and links it, ...
Grant(r) ==
  /\ At(r, "grant") /\ req[r].id = 0
  /\ IF Free(TenantMail) /\ Len(user) < MaxUsers
       THEN /\ Add(Account(TenantMail, "portal", 0, "on", TRUE)) /\ link' = NewId
            /\ Read(r, "deliver", NewId)
       ELSE Done(r) /\ UNCHANGED <<user, link>>
  /\ UNCHANGED <<invite, asked, stops, stale>>

\* Mutant: the status stays what it was.
RenewedInPlace(account) ==
  [account EXCEPT !.mail = TenantMail, !.active = TRUE, !.gone = FALSE, !.temp = TRUE,
                  !.must = TRUE, !.member = MemberOf(account, TRUE)]

\* What it does to the one that was loaded, whatever it was: a new temporary password.
Renewed(account) ==
  [account EXCEPT !.mail = TenantMail, !.active = TRUE, !.gone = FALSE, !.temp = TRUE,
                  !.must = TRUE, !.status = "PROVISIONED", !.member = MemberOf(account, TRUE)]

\* ... or renews the one that was loaded.
Renew(r) ==
  /\ At(r, "grant") /\ req[r].id # 0
  /\ IF FreeFor(TenantMail, req[r].id)
       THEN Write(r, Renewed(Mine(r)), Then(r, "deliver"))
       ELSE Done(r) /\ UNCHANGED <<user, stale>>
  /\ UNCHANGED <<link, invite, asked, stops>>

\* The password is shown, or sent: then the status says so.
Deliver(r) ==
  /\ At(r, "deliver")
  /\ \/ Done(r) /\ UNCHANGED <<user, stale>>
     \/ Write(r, [Mine(r) EXCEPT !.status = "INVITE_SENT"], Idle)
  /\ UNCHANGED <<link, invite, asked, stops>>

\* The account is closed, with its membership.
Shut(r, status) ==
  /\ Write(r, [Mine(r) EXCEPT !.active = FALSE, !.member = MemberOf(Mine(r), FALSE),
                              !.status = status], Idle)
  /\ UNCHANGED <<link, invite, asked, stops>>

Suspend(r) == At(r, "suspend") /\ Shut(r, "SUSPENDED")
Archive(r) == At(r, "archive") /\ Shut(r, "ARCHIVED")

\* The status it had reached, as it was loaded.
Reactivate(r) ==
  /\ At(r, "reactivate")
  /\ Write(r, [Mine(r) EXCEPT !.active = TRUE, !.member = MemberOf(Mine(r), TRUE),
                              !.status = req[r].say], Idle)
  /\ UNCHANGED <<link, invite, asked, stops>>

---------------------------------------------------------------------------
(* The holder of an account *)

\* He changes his password, or sets a new one by the link he was sent.
AskChange(r)  == \E id \in DOMAIN user : user[id].active /\ Pick(r, "change", id)
AskForgot(r)  == \E id \in DOMAIN user : user[id].active /\ Pick(r, "forgotten", id)

UpdatePassword(r, next) ==
  /\ Write(r, [Mine(r) EXCEPT !.temp = FALSE, !.must = FALSE], next)
  /\ UNCHANGED <<link, invite, asked, stops>>

ChangePassword(r) == At(r, "change") /\ UpdatePassword(r, Then(r, "activate"))
ResetPassword(r)  == At(r, "forgotten") /\ UpdatePassword(r, Idle)

\* Changed by himself, the account is in use, and he is signed in again.
Activate(r) ==
  /\ At(r, "activate")
  /\ Write(r, [Mine(r) EXCEPT !.must = FALSE, !.status = "ACTIVATED"], SignedIn(req[r].id))
  /\ UNCHANGED <<link, invite, asked, stops>>

\* login, refresh: his account is active; ensurePrimary follows.
SignIn(r, id) ==
  /\ At(r, "idle") /\ id \in DOMAIN user /\ user[id].active
  /\ Go(r, SignedIn(id))
  /\ UNCHANGED <<rows, asked, stops, stale>>

\* Each request of his asks for it too, when he has no active membership.
Visit(r, id) == id \in DOMAIN user /\ user[id].member # "on" /\ SignIn(r, id)

\* ensurePrimary looks for his membership ...
FindMembership(r) ==
  /\ At(r, "visit")
  /\ Go(r, Then(r, IF Mine(r).member = "none" THEN "join" ELSE "switchOn"))
  /\ UNCHANGED <<rows, asked, stops, stale>>

\* Mutant: a membership that exists is left as it is.
LeaveAsItIs(r) ==
  /\ At(r, "switchOn")
  /\ Done(r)
  /\ UNCHANGED <<rows, asked, stops, stale>>

\* ... makes it active again, ...
SwitchOn(r) ==
  /\ At(r, "switchOn")
  /\ user' = [user EXCEPT ![req[r].id].member = "on"]
  /\ Done(r)
  /\ UNCHANGED <<link, invite, asked, stops, stale>>

\* ... or makes it, unless another request has: the index refuses a second one.
Join(r) ==
  /\ At(r, "join")
  /\ user' = [user EXCEPT ![req[r].id].member = IF @ = "none" THEN "on" ELSE @]
  /\ Done(r)
  /\ UNCHANGED <<link, invite, asked, stops, stale>>

---------------------------------------------------------------------------

Open(r) ==
  \/ Register(r) \/ RegisterTenant(r) \/ ProvisionStaff(r) \/ CheckUser(r)
  \/ AskUpdate(r) \/ AskDelete(r) \/ AskAccess(r)
  \/ Invite(r) \/ OpenInvitation(r) \/ LookToRevoke(r)
  \/ ProvisionPortal(r) \/ MaybeAutoProvision(r) \/ Reset(r)
  \/ AskSuspend(r) \/ AskArchive(r) \/ AskReactivate(r)
  \/ AskChange(r) \/ AskForgot(r)

\* The steps of a request that has begun.
Serve(r) ==
  \/ CreateOrganizationWithAdmin(r) \/ CreateTenantUser(r) \/ CreateStaff(r) \/ CreateUser(r)
  \/ UpdateUser(r) \/ UpdateMembership(r) \/ DeleteUser(r) \/ ProvisionAccess(r)
  \/ CreateInvitation(r) \/ AcceptInvitation(r) \/ Revoke(r)
  \/ LookForClash(r) \/ Grant(r) \/ Renew(r) \/ Deliver(r)
  \/ Suspend(r) \/ Archive(r) \/ Reactivate(r)
  \/ ChangePassword(r) \/ ResetPassword(r) \/ Activate(r)
  \/ FindMembership(r) \/ SwitchOn(r) \/ Join(r)

\* An error or a crash ends a request between two of its steps.
Stop(r) ==
  /\ ~At(r, "idle") /\ stops < MaxStops
  /\ stops' = stops + 1 /\ Done(r)
  /\ UNCHANGED <<rows, asked, stale>>

Come(id) == \E r \in Requests : Visit(r, id)

Next ==
  \/ \E r \in Requests : Open(r) \/ Serve(r) \/ Stop(r)
  \/ \E id \in DOMAIN user : Come(id) \/ \E r \in Requests : SignIn(r, id)
  \/ \E i \in DOMAIN invite : Expire(i)

Spec == Init /\ [][Next]_vars

\* What has begun goes on, and the holder of an account comes back.
FairSpec ==
  /\ Spec
  /\ \A r \in Requests : WF_vars(Serve(r))
  /\ \A id \in 1..MaxUsers : SF_vars(Come(id))

---------------------------------------------------------------------------
(* Properties *)

\* Type invariant: rows, requests and histories have their types and refer to rows
\* that exist.
TypeOK ==
  /\ link \in 0..Len(user) /\ stale \subseteq DOMAIN user
  /\ asked \in 0..MaxAsked /\ stops \in 0..MaxStops
  /\ \A i \in DOMAIN user :
       /\ user[i].mail \in Emails \cup {NoMail} /\ user[i].kind \in Kinds
       /\ user[i].inv \in 0..Len(invite)
       /\ user[i].member \in {"none", "on", "off"} /\ user[i].status \in Statuses
  /\ \A r \in Requests : req[r].id \in 0..Len(user) /\ req[r].inv \in 0..Len(invite)

Living(i) == ~user[i].gone

\* An invitation leads to one account at most, and so does the file of a tenant with
\* an e-mail, which is linked to it: however often and however late they are used.
\* Deleted accounts, whose e-mail is free again, do not count.
OneAccountEach ==
  \A i \in DOMAIN user : Living(i) =>
    /\ user[i].kind = "portal" /\ TenantMail # NoMail => link = i \/ user[link].gone
    /\ \A j \in DOMAIN user \ {i} : Living(j) =>
         /\ user[i].inv # 0 => user[i].inv # user[j].inv
         /\ TenantMail # NoMail => ~(user[i].kind = "portal" /\ user[j].kind = "portal")

\* A temporary password has to be changed, and an account that is said to be in use
\* has none: however resets, changes, suspensions and deliveries overtake each other,
\* but where a change of password ends, or a reactivation is written, after another
\* request has replaced the password it was about.
TemporaryIsChanged ==
  \A i \in DOMAIN user \ stale : user[i].temp => user[i].must /\ user[i].status # "ACTIVATED"

\* The membership of an account in use comes back, whatever left it missing or
\* inactive: createUser stopped half-way, an administrator's two writes overtaken by
\* another's, a collaborator repaired.
MembersComeBack ==
  \A i \in 1..MaxUsers :
    []<>(i \in DOMAIN user /\ user[i].active => user[i].member = "on")

=============================================================================
