----------------------------- MODULE Occupancy -----------------------------
(***************************************************************************)
(* One apartment, its leases, its tickets and its place in the public      *)
(* catalogue, under every operation that writes them: LeaseService,        *)
(* TenantOnboardService, TenantService.release, ApartmentService,          *)
(* ListingService, ApplicationService.review and MaintenanceService.       *)
(* A request reads, checks, and writes in a later step; what it read may   *)
(* be old by then, also inside a transaction (PostgreSQL runs them at READ *)
(* COMMITTED).  The requests that can make a lease ACTIVE (activate,       *)
(* onboard, renew) belong to Makers, those that close a ticket to Closers, *)
(* the other ones that read before they write to Staff.  Nothing keeps two *)
(* makers apart: which leases were made ACTIVE on a check another maker    *)
(* has overtaken is kept as history.                                       *)
(*                                                                         *)
(* Leases and Tickets also bound how many may ever be created.             *)
(***************************************************************************)
CONSTANTS
  Makers, Staff, Closers,
  Leases, Tenants, Tickets,
  StatusesByHand,   \* statuses the staff may give the apartment by PUT
  Null

ApartmentStatus == {"AVAILABLE", "OCCUPIED", "MAINTENANCE", "UNAVAILABLE"}

ASSUME OccupancyAssumption ==
  /\ Null \notin Leases \cup Tenants \cup Tickets \cup ApartmentStatus
  /\ StatusesByHand \subseteq ApartmentStatus

VARIABLES
  status,      \* Apartment.status
  published,   \* Apartment.isPublished
  applied,     \* somebody has applied for the apartment
  lease,       \* Lease.status, "none" before and "deleted" after the row
  tenant,      \* Lease.tenantId
  billed,      \* leases with a payment
  ticket,      \* MaintenanceTicket.status: CLOSED, another one, or no row
  making,      \* makers: what they are doing
  about,       \* makers: the lease they are doing it to
  overtaken,   \* history: makers between their check and their write when
               \* another one has made another lease ACTIVE
  forced,      \* history: leases an overtaken maker has made ACTIVE beside another
  releasing,   \* staff: open leases that release has found
  setting,     \* staff: status that update is about to write
  publishing,  \* staff: publish has found the apartment AVAILABLE
  moving,      \* staff: ticket found open, about to get another status
  closing,     \* closers: the ticket
  found        \* closers: what the transaction has found so far

flat  == <<status, published, applied>>
deeds == <<lease, tenant, billed>>
maker == <<making, about, overtaken, forced>>
staff == <<releasing, setting, publishing, moving>>
closer == <<closing, found>>
vars  == <<flat, deeds, ticket, maker, staff, closer>>

LeaseStatus == {"none", "DRAFT", "ACTIVE", "EXPIRED", "TERMINATED", "deleted"}
Onboarding  == {"onboard", "onboardDraft"}
Provision   == {"provision", "provisionDraft"}
Makings     == {"idle", "activate", "renew"} \cup Onboarding \cup Provision
Deciding    == {"activate", "renew", "onboard"}
Findings    == {"nothing", "others", "last", "let", "free"}

Exists(l) == lease[l] \notin {"none", "deleted"}
Active(l) == lease[l] = "ACTIVE"
Open(t)   == ticket[t] = "OPEN"

\* A request of the staff is at rest.
Idle(s) ==
  releasing[s] = {} /\ setting[s] = Null /\ ~publishing[s] /\ moving[s] = Null

Init ==
  /\ status = "AVAILABLE" /\ published = FALSE /\ applied = FALSE
  /\ lease = [l \in Leases |-> "none"]
  /\ tenant = [l \in Leases |-> Null]
  /\ billed = {}
  /\ ticket = [t \in Tickets |-> "none"]
  /\ making = [m \in Makers |-> "idle"]
  /\ about = [m \in Makers |-> Null]
  /\ overtaken = {} /\ forced = {}
  /\ releasing = [s \in Staff |-> {}]
  /\ setting = [s \in Staff |-> Null]
  /\ publishing = [s \in Staff |-> FALSE]
  /\ moving = [s \in Staff |-> Null]
  /\ closing = [c \in Closers |-> Null]
  /\ found = [c \in Closers |-> "nothing"]

-----------------------------------------------------------------------------
(* Leases.                                                                 *)

\* A row of leases, inserted for a tenant.
Insert(l, t, as) ==
  /\ lease[l] = "none"
  /\ lease' = [lease EXCEPT ![l] = as]
  /\ tenant' = [tenant EXCEPT ![l] = t]

\* LeaseService.create.
CreateDraft(l, t) ==
  /\ Insert(l, t, "DRAFT")
  /\ UNCHANGED <<flat, billed, ticket, maker, staff, closer>>

\* What a maker does next.
Take(m, what, l) ==
  /\ making' = [making EXCEPT ![m] = what]
  /\ about' = [about EXCEPT ![m] = l]

\* It writes nothing that makes a lease ACTIVE.
Goes(m, what, l) ==
  /\ Take(m, what, l)
  /\ overtaken' = overtaken \ {m}
  /\ UNCHANGED forced

\* It makes l ACTIVE: the others that have checked for another lease and not
\* yet written are overtaken.
Makes(m, l, what, next) ==
  /\ Take(m, what, next)
  /\ overtaken' = {n \in Makers \ {m} :
       n \in overtaken \/ (making[n] \in Deciding /\ about[n] # l)}
  /\ \/ /\ m \in overtaken /\ \E k \in Leases \ {l} : Active(k)
        /\ forced' = forced \cup {l}
     \/ /\ m \in overtaken /\ \A k \in Leases \ {l} : ~Active(k)
        /\ forced' = forced \ {l}
     \/ /\ m \notin overtaken
        /\ forced' = IF making[m] = "renew" THEN forced ELSE forced \ {l}

\* LeaseRepository.activate: the transaction looks for another active lease.
\* It does not look at the status of the lease itself.
ActivateCheck(m, l) ==
  /\ making[m] = "idle" /\ Exists(l)
  /\ \A k \in Leases \ {l} : ~Active(k)
  /\ Goes(m, "activate", l)
  /\ UNCHANGED <<flat, deeds, ticket, staff, closer>>

\* Its writes, with the payment of the month if there is none; an update of
\* a row that is gone raises an error, see Leave.
ActivateCommit(m) ==
  /\ making[m] = "activate" /\ Exists(about[m])
  /\ lease' = [lease EXCEPT ![about[m]] = "ACTIVE"]
  /\ billed' = billed \cup {about[m]}
  /\ status' = "OCCUPIED"
  /\ Makes(m, about[m], "idle", Null)
  /\ UNCHANGED <<published, applied, tenant, ticket, staff, closer>>

\* LeaseRepository.terminate: any lease, and the apartment is AVAILABLE.
Terminate(l) ==
  /\ Exists(l)
  /\ lease' = [lease EXCEPT ![l] = "TERMINATED"]
  /\ status' = "AVAILABLE"
  /\ UNCHANGED <<published, applied, tenant, billed, ticket, maker, staff, closer>>

\* Mutant: renew does not look at the status.
RenewAny(m, l) ==
  /\ making[m] = "idle" /\ Exists(l)
  /\ Goes(m, "renew", l)
  /\ UNCHANGED <<flat, deeds, ticket, staff, closer>>

\* LeaseService.renew reads the status, and writes ACTIVE in another query.
RenewRead(m, l) ==
  /\ making[m] = "idle" /\ lease[l] \in {"ACTIVE", "EXPIRED"}
  /\ Goes(m, "renew", l)
  /\ UNCHANGED <<flat, deeds, ticket, staff, closer>>

RenewWrite(m) ==
  /\ making[m] = "renew" /\ Exists(about[m])
  /\ lease' = [lease EXCEPT ![about[m]] = "ACTIVE"]
  /\ Makes(m, about[m], "idle", Null)
  /\ UNCHANGED <<flat, tenant, billed, ticket, staff, closer>>

\* Mutant: an apartment that is AVAILABLE is taken to have no active lease.
OnboardIfAvailable(m, activate) ==
  /\ making[m] = "idle"
  /\ activate => status = "AVAILABLE"
  /\ Goes(m, IF activate THEN "onboard" ELSE "onboardDraft", Null)
  /\ UNCHANGED <<flat, deeds, ticket, staff, closer>>

\* TenantOnboardService.onboard: the checks before its transaction.  With
\* activate = false they refuse nothing.
OnboardCheck(m, activate) ==
  /\ making[m] = "idle"
  /\ activate => status = "AVAILABLE" /\ \A l \in Leases : ~Active(l)
  /\ Goes(m, IF activate THEN "onboard" ELSE "onboardDraft", Null)
  /\ UNCHANGED <<flat, deeds, ticket, staff, closer>>

\* The transaction: a new tenant and a lease, active with its first rent or
\* a draft.
OnboardCommit(m, l, t) ==
  /\ making[m] \in Onboarding
  /\ \A k \in Leases : tenant[k] # t
  /\ \/ /\ making[m] = "onboard"
        /\ Insert(l, t, "ACTIVE")
        /\ status' = "OCCUPIED" /\ billed' = billed \cup {l}
        /\ Makes(m, l, "provision", l)
     \/ /\ making[m] = "onboardDraft"
        /\ Insert(l, t, "DRAFT")
        /\ UNCHANGED <<status, billed>>
        /\ Goes(m, "provisionDraft", l)
  /\ UNCHANGED <<published, applied, ticket, staff, closer>>

\* The portal account could not be made: rollbackCrm.  A tenant who has got
\* another lease meanwhile cannot be deleted, and the transaction fails.
Rollback(m) ==
  /\ making[m] \in Provision
  /\ \A k \in Leases \ {about[m]} : Exists(k) => tenant[k] # tenant[about[m]]
  /\ lease' = [lease EXCEPT ![about[m]] = "deleted"]
  /\ billed' = billed \ {about[m]}
  /\ status' = "AVAILABLE"
  /\ Goes(m, "idle", Null)
  /\ UNCHANGED <<published, applied, tenant, ticket, staff, closer>>

\* The request ends and writes nothing more: the portal account was made, or
\* there is none to make; a query failed; the server died.
Leave(m) ==
  /\ making[m] # "idle"
  /\ Goes(m, "idle", Null)
  /\ UNCHANGED <<flat, deeds, ticket, staff, closer>>

\* TenantService.release: the transaction finds the open leases of a tenant,
ReleaseRead(s, t) ==
  /\ Idle(s)
  /\ \E l \in Leases : tenant[l] = t /\ lease[l] \in {"ACTIVE", "DRAFT"}
  /\ releasing' = [releasing EXCEPT ![s] =
       {l \in Leases : tenant[l] = t /\ lease[l] \in {"ACTIVE", "DRAFT"}}]
  /\ UNCHANGED <<flat, deeds, ticket, maker, setting, publishing, moving, closer>>

\* and ends each, whatever it has become, unless one is gone.
ReleaseWrite(s) ==
  /\ releasing[s] # {}
  /\ releasing' = [releasing EXCEPT ![s] = {}]
  /\ \/ /\ \A l \in releasing[s] : Exists(l)
        /\ lease' = [l \in Leases |-> IF l \in releasing[s] THEN "TERMINATED" ELSE lease[l]]
        /\ status' = "AVAILABLE"
     \/ /\ \E l \in releasing[s] : ~Exists(l)
        /\ UNCHANGED <<lease, status>>
  /\ UNCHANGED <<published, applied, tenant, billed, ticket, maker>>
  /\ UNCHANGED <<setting, publishing, moving, closer>>

-----------------------------------------------------------------------------
(* The apartment and the catalogue.                                        *)

\* ApartmentService.update with a status: a published apartment has to
\* remain publishable when it is read.
UpdateRead(s, new) ==
  /\ Idle(s)
  /\ published => new = "AVAILABLE"
  /\ setting' = [setting EXCEPT ![s] = new]
  /\ UNCHANGED <<flat, deeds, ticket, maker, releasing, publishing, moving, closer>>

UpdateWrite(s) ==
  /\ setting[s] # Null
  /\ status' = setting[s]
  /\ setting' = [setting EXCEPT ![s] = Null]
  /\ UNCHANGED <<published, applied, deeds, ticket, maker>>
  /\ UNCHANGED <<releasing, publishing, moving, closer>>

\* ListingService.publish.
PublishRead(s) ==
  /\ Idle(s) /\ status = "AVAILABLE"
  /\ publishing' = [publishing EXCEPT ![s] = TRUE]
  /\ UNCHANGED <<flat, deeds, ticket, maker, releasing, setting, moving, closer>>

PublishWrite(s) ==
  /\ publishing[s]
  /\ published' = TRUE
  /\ publishing' = [publishing EXCEPT ![s] = FALSE]
  /\ UNCHANGED <<status, applied, deeds, ticket, maker, releasing, setting, moving, closer>>

\* ListingService.unpublish.
Unpublish ==
  /\ published' = FALSE
  /\ UNCHANGED <<status, applied, deeds, ticket, maker, staff, closer>>

\* ApplicationService.getOrCreateDraft: only what the catalogue shows.
Apply ==
  /\ published /\ status = "AVAILABLE"
  /\ applied' = TRUE
  /\ UNCHANGED <<status, published, deeds, ticket, maker, staff, closer>>

\* ApplicationService.review, accepting: a draft for the applicant, known as
\* a tenant or new.  It may come at any time after an application, and more
\* than once: there may be several applications, and a score that is written
\* late reopens one that was accepted.
Accept(l, t) ==
  /\ applied
  /\ Insert(l, t, "DRAFT")
  /\ status' = "OCCUPIED" /\ published' = FALSE
  /\ UNCHANGED <<applied, billed, ticket, maker, staff, closer>>

-----------------------------------------------------------------------------
(* Tickets.                                                                *)

\* MaintenanceService.create: an urgent ticket puts the apartment in
\* maintenance.
CreateTicket(t, urgent) ==
  /\ ticket[t] = "none"
  /\ ticket' = [ticket EXCEPT ![t] = "OPEN"]
  /\ status' = IF urgent THEN "MAINTENANCE" ELSE status
  /\ UNCHANGED <<published, applied, deeds, maker, staff, closer>>

\* assign, transition, acceptJob and refuseJob: the ticket is read, and is
\* given a status that is not CLOSED by an update that looks at nothing and
\* waits for the row if a transaction that closes the ticket has it.
MoveRead(s, t) ==
  /\ Idle(s) /\ Open(t)
  /\ moving' = [moving EXCEPT ![s] = t]
  /\ UNCHANGED <<flat, deeds, ticket, maker, releasing, setting, publishing, closer>>

MoveWrite(s) ==
  /\ moving[s] # Null /\ \A c \in Closers : closing[c] # moving[s]
  /\ ticket' = [ticket EXCEPT ![moving[s]] = "OPEN"]
  /\ moving' = [moving EXCEPT ![s] = Null]
  /\ UNCHANGED <<flat, deeds, maker, releasing, setting, publishing, closer>>

\* MaintenanceService.close, whose transaction takes the row of the ticket
\* and looks for another one that is not closed.
CloseCount(c, t) ==
  /\ closing[c] = Null /\ ticket[t] # "none"
  /\ \A d \in Closers : closing[d] # t
  /\ closing' = [closing EXCEPT ![c] = t]
  /\ found' = [found EXCEPT ![c] =
       IF \E u \in Tickets \ {t} : Open(u) THEN "others" ELSE "last"]
  /\ UNCHANGED <<flat, deeds, ticket, maker, staff>>

\* It was the last: is the apartment let?
CloseLookUp(c) ==
  /\ found[c] = "last"
  /\ found' = [found EXCEPT ![c] = IF \E l \in Leases : Active(l) THEN "let" ELSE "free"]
  /\ UNCHANGED <<flat, deeds, ticket, maker, staff, closing>>

CloseCommit(c) ==
  /\ found[c] \in {"others", "let", "free"}
  /\ ticket' = [ticket EXCEPT ![closing[c]] = "CLOSED"]
  /\ status' = CASE found[c] = "others" -> status
                 [] found[c] = "let"    -> "OCCUPIED"
                 [] found[c] = "free"   -> "AVAILABLE"
  /\ closing' = [closing EXCEPT ![c] = Null]
  /\ found' = [found EXCEPT ![c] = "nothing"]
  /\ UNCHANGED <<published, applied, deeds, maker, staff>>

-----------------------------------------------------------------------------
MakerStep(m) ==
  \/ \E l \in Leases : ActivateCheck(m, l) \/ RenewRead(m, l)
  \/ \E activate \in BOOLEAN : OnboardCheck(m, activate)
  \/ \E l \in Leases, t \in Tenants : OnboardCommit(m, l, t)
  \/ ActivateCommit(m) \/ RenewWrite(m) \/ Rollback(m) \/ Leave(m)

StaffStep(s) ==
  \/ \E t \in Tenants : ReleaseRead(s, t)
  \/ \E new \in StatusesByHand : UpdateRead(s, new)
  \/ \E t \in Tickets : MoveRead(s, t)
  \/ PublishRead(s)
  \/ ReleaseWrite(s) \/ UpdateWrite(s) \/ PublishWrite(s) \/ MoveWrite(s)

CloserStep(c) ==
  \/ \E t \in Tickets : CloseCount(c, t)
  \/ CloseLookUp(c) \/ CloseCommit(c)

SingleStep ==
  \/ \E l \in Leases, t \in Tenants : CreateDraft(l, t) \/ Accept(l, t)
  \/ \E l \in Leases : Terminate(l)
  \/ Unpublish \/ Apply
  \/ \E t \in Tickets, urgent \in BOOLEAN : CreateTicket(t, urgent)

Next ==
  \/ \E m \in Makers : MakerStep(m)
  \/ \E s \in Staff : StaffStep(s)
  \/ \E c \in Closers : CloserStep(c)
  \/ SingleStep

Spec == Init /\ [][Next]_vars

-----------------------------------------------------------------------------
TypeOK ==
  /\ status \in ApartmentStatus /\ published \in BOOLEAN /\ applied \in BOOLEAN
  /\ lease \in [Leases -> LeaseStatus]
  /\ tenant \in [Leases -> Tenants \cup {Null}]
  /\ billed \subseteq Leases
  /\ ticket \in [Tickets -> {"none", "OPEN", "CLOSED"}]
  /\ making \in [Makers -> Makings]
  /\ about \in [Makers -> Leases \cup {Null}]
  /\ overtaken \subseteq Makers /\ forced \subseteq Leases
  /\ \A m \in Makers :
       about[m] = Null <=> making[m] \in {"idle"} \cup Onboarding
  /\ releasing \in [Staff -> SUBSET Leases]
  /\ setting \in [Staff -> StatusesByHand \cup {Null}]
  /\ publishing \in [Staff -> BOOLEAN]
  /\ moving \in [Staff -> Tickets \cup {Null}]
  /\ closing \in [Closers -> Tickets \cup {Null}]
  /\ found \in [Closers -> Findings]
  /\ \A c \in Closers : closing[c] = Null <=> found[c] = "nothing"

\* One lease of the apartment is in force, "Cet appartement a deja un contrat
\* actif" (LeaseRepository.activate, onboard), although drafts and old leases
\* are ended, tickets closed, statuses set by hand and tenants released while
\* a maker is between its check and its write.  Nothing in the code keeps two
\* makers apart: the only lease that may be in force beside another is one
\* that its maker made ACTIVE on a check that another maker's write overtook.
OneActiveLease ==
  \A k, l \in Leases \ forced : Active(k) /\ Active(l) => k = l

\* A lease in force has had its first rent created, by activate or onboard,
\* however makers overtake one another: also when it was ended and is brought
\* back by a renewal that had read it earlier, and although a roll-back of an
\* onboarding takes a rent away with its lease.
ActiveIsBilled ==
  \A l \in Leases : Active(l) => l \in billed

=============================================================================
