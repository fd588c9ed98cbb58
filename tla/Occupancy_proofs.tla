-------------------------- MODULE Occupancy_proofs --------------------------
(***************************************************************************)
(* What TLAPS proves of Occupancy, for any number of leases, tenants,      *)
(* tickets, makers, closers and requests of the staff: an apartment has    *)
(* one lease in force, but for those whose maker was overtaken by another, *)
(* and a lease in force has been billed.  Then, of the rents those leases  *)
(* bring (RentFollowUp): their status says what was paid, and each         *)
(* reminder is sent once and in order.                                     *)
(***************************************************************************)
EXTENDS Integers, Occupancy, RentFollowUp, TLAPS

-----------------------------------------------------------------------------
LEMMA TypeInit == Init => TypeOK
<1> SUFFICES ASSUME Init PROVE TypeOK
  OBVIOUS
<1>1. publishing \in [Staff -> BOOLEAN]
  BY Zenon DEF Init
<1>2. published \in BOOLEAN /\ applied \in BOOLEAN
  BY Zenon DEF Init
<1>3. status \in ApartmentStatus /\ billed \subseteq Leases
  BY DEF Init, ApartmentStatus
<1>4. /\ lease \in [Leases -> LeaseStatus]
      /\ tenant \in [Leases -> Tenants \cup {Null}]
      /\ ticket \in [Tickets -> {"none", "OPEN", "CLOSED"}]
  BY DEF Init, LeaseStatus
<1>5. /\ making \in [Makers -> Makings]
      /\ about \in [Makers -> Leases \cup {Null}]
      /\ overtaken \subseteq Makers /\ forced \subseteq Leases
      /\ \A m \in Makers : about[m] = Null <=> making[m] \in {"idle"} \cup Onboarding
  BY DEF Init, Makings
<1>6. /\ releasing \in [Staff -> SUBSET Leases]
      /\ setting \in [Staff -> StatusesByHand \cup {Null}]
      /\ moving \in [Staff -> Tickets \cup {Null}]
  BY DEF Init
<1>7. /\ closing \in [Closers -> Tickets \cup {Null}]
      /\ found \in [Closers -> Findings]
      /\ \A c \in Closers : closing[c] = Null <=> found[c] = "nothing"
  BY DEF Init, Findings
<1> QED  BY <1>1, <1>2, <1>3, <1>4, <1>5, <1>6, <1>7 DEF TypeOK

LEMMA MakerType ==
  ASSUME TypeOK, NEW m \in Makers, MakerStep(m)
  PROVE  TypeOK'
<1> USE OccupancyAssumption
    DEF TypeOK, Take, Goes, Makes, Deciding, Insert, flat, deeds, maker, staff, closer,
        Makings, Onboarding, Provision, LeaseStatus, ApartmentStatus
<1>1. CASE \E l \in Leases : ActivateCheck(m, l) \/ RenewRead(m, l)
  BY <1>1 DEF ActivateCheck, RenewRead
<1>2. CASE \E activate \in BOOLEAN : OnboardCheck(m, activate)
  BY <1>2 DEF OnboardCheck
<1>3. CASE \E l \in Leases, t \in Tenants : OnboardCommit(m, l, t)
  BY <1>3 DEF OnboardCommit
<1>4. CASE ActivateCommit(m)
  BY <1>4 DEF ActivateCommit
<1>5. CASE RenewWrite(m)
  BY <1>5 DEF RenewWrite
<1>6. CASE Rollback(m)
  BY <1>6 DEF Rollback
<1>7. CASE Leave(m)
  BY <1>7 DEF Leave
<1> QED  BY <1>1, <1>2, <1>3, <1>4, <1>5, <1>6, <1>7 DEF MakerStep

LEMMA StaffType ==
  ASSUME TypeOK, NEW s \in Staff, StaffStep(s)
  PROVE  TypeOK'
<1> USE OccupancyAssumption DEF TypeOK, flat, deeds, maker, closer, LeaseStatus
<1>1. CASE \E t \in Tenants : ReleaseRead(s, t)
  BY <1>1 DEF ReleaseRead
<1>2. CASE \E new \in StatusesByHand : UpdateRead(s, new)
  BY <1>2 DEF UpdateRead
<1>3. CASE \E t \in Tickets : MoveRead(s, t)
  BY <1>3 DEF MoveRead
<1>4. CASE PublishRead(s)
  BY <1>4 DEF PublishRead
<1>5. CASE ReleaseWrite(s)
  BY <1>5 DEF ReleaseWrite, ApartmentStatus
<1>6. CASE UpdateWrite(s)
  BY <1>6 DEF UpdateWrite
<1>7. CASE PublishWrite(s)
  BY <1>7 DEF PublishWrite
<1>8. CASE MoveWrite(s)
  BY <1>8 DEF MoveWrite
<1> QED  BY <1>1, <1>2, <1>3, <1>4, <1>5, <1>6, <1>7, <1>8 DEF StaffStep

LEMMA CloserType ==
  ASSUME TypeOK, NEW c \in Closers, CloserStep(c)
  PROVE  TypeOK'
<1> USE OccupancyAssumption DEF TypeOK, flat, deeds, maker, staff, Findings
<1>1. CASE \E t \in Tickets : CloseCount(c, t)
  BY <1>1 DEF CloseCount
<1>2. CASE CloseLookUp(c)
  BY <1>2 DEF CloseLookUp
<1>3. CASE CloseCommit(c)
  BY <1>3 DEF CloseCommit, ApartmentStatus
<1> QED  BY <1>1, <1>2, <1>3 DEF CloserStep

LEMMA SingleType ==
  ASSUME TypeOK, SingleStep
  PROVE  TypeOK'
<1> USE DEF TypeOK, flat, deeds, maker, staff, closer, Insert, LeaseStatus, ApartmentStatus
<1>1. ASSUME NEW l \in Leases, NEW t \in Tenants, CreateDraft(l, t) \/ Accept(l, t)
      PROVE  TypeOK'
  <2>1. CASE CreateDraft(l, t)
    BY <2>1 DEF CreateDraft
  <2>2. CASE Accept(l, t)
    BY <2>2 DEF Accept
  <2> QED  BY <1>1, <2>1, <2>2
<1>2. CASE \E l \in Leases : Terminate(l)
  BY <1>2 DEF Terminate
<1>3. CASE Unpublish \/ Apply
  BY <1>3 DEF Unpublish, Apply
<1>4. CASE \E t \in Tickets, urgent \in BOOLEAN : CreateTicket(t, urgent)
  BY <1>4 DEF CreateTicket
<1> QED  BY <1>1, <1>2, <1>3, <1>4 DEF SingleStep

LEMMA TypeStep == TypeOK /\ [Next]_vars => TypeOK'
<1> SUFFICES ASSUME TypeOK, [Next]_vars PROVE TypeOK'
  OBVIOUS
<1>1. CASE UNCHANGED vars
  BY <1>1 DEF vars, flat, deeds, maker, staff, closer, TypeOK
<1>2. CASE Next
  BY <1>2, MakerType, StaffType, CloserType, SingleType DEF Next
<1> QED  BY <1>1, <1>2

\* The state of an apartment, its leases and tickets is well formed: every
\* step of Occupancy keeps to the types.
THEOREM TypeCorrect == Spec => []TypeOK
<1>1. Init => TypeOK
  BY TypeInit
<1>2. TypeOK /\ [Next]_vars => TypeOK'
  BY TypeStep
<1> QED  BY <1>1, <1>2, PTL DEF Spec

-----------------------------------------------------------------------------
(* One lease in force.                                                     *)

\* While a maker that nobody has overtaken is between its check and its write,
\* no lease but its own is in force, and no lease is ever EXPIRED, which renew
\* would accept.  A renewal looks at its own lease only: it may find one that
\* was forced.
Others(m) == Leases \ {about[m]}

SoleInv ==
  /\ OneActiveLease
  /\ \A l \in Leases : lease[l] # "EXPIRED"
  /\ \A m \in Makers \ overtaken : making[m] \in {"activate", "onboard"} =>
       \A l \in Others(m) : ~Active(l)
  /\ \A m \in Makers \ overtaken : making[m] = "renew" =>
       about[m] \in forced \/ \A l \in Others(m) \ forced : ~Active(l)

\* A step that makes no lease ACTIVE and begins no request of a maker.
Quiet ==
  /\ \A l \in Leases : lease'[l] \in {lease[l], "none", "DRAFT", "TERMINATED", "deleted"}
  /\ \A l \in Leases : lease[l] = "deleted" => lease'[l] = "deleted"
  /\ forced' = forced
  /\ \A m \in Makers :
       \/ making'[m] = making[m] /\ about'[m] = about[m] /\ (m \in overtaken' <=> m \in overtaken)
       \/ making'[m] \notin Deciding

LEMMA QuietSole ==
  ASSUME SoleInv, Quiet
  PROVE  SoleInv'
<1> USE DEF Deciding
<1>1. \A l \in Leases : Active(l)' => Active(l)
  BY DEF Quiet, Active
<1>2. OneActiveLease'
  BY <1>1 DEF SoleInv, OneActiveLease, Quiet
<1>3. \A l \in Leases : lease'[l] # "EXPIRED"
  BY DEF Quiet, SoleInv
<1>4. ASSUME NEW m \in Makers, m \notin overtaken', making'[m] \in Deciding
      PROVE  m \notin overtaken /\ making'[m] = making[m] /\ about'[m] = about[m]
  BY <1>4 DEF Quiet
<1>5. ASSUME NEW m \in Makers, m \notin overtaken', making'[m] \in {"activate", "onboard"}
      PROVE  \A l \in Others(m)' : ~Active(l)'
  BY <1>1, <1>4, <1>5 DEF SoleInv, Others
<1>6. ASSUME NEW m \in Makers, m \notin overtaken', making'[m] = "renew"
      PROVE  about'[m] \in forced' \/ \A l \in Others(m)' \ forced' : ~Active(l)'
  <2>1. forced' = forced
    BY DEF Quiet
  <2> QED  BY <1>1, <1>4, <1>6, <2>1 DEF SoleInv, Others
<1> QED  BY <1>2, <1>3, <1>5, <1>6 DEF SoleInv

LEMMA StaffQuiet ==
  ASSUME TypeOK, NEW s \in Staff, StaffStep(s)
  PROVE  Quiet
<1>1. UNCHANGED maker
  BY DEF StaffStep, ReleaseRead, UpdateRead, MoveRead, PublishRead, ReleaseWrite,
         UpdateWrite, PublishWrite, MoveWrite
<1>2. CASE ReleaseWrite(s)
  BY <1>1, <1>2 DEF ReleaseWrite, Quiet, maker, Exists
<1>3. CASE ~ReleaseWrite(s)
  <2>1. UNCHANGED lease
    BY <1>3 DEF StaffStep, ReleaseRead, UpdateRead, MoveRead, PublishRead,
                UpdateWrite, PublishWrite, MoveWrite, deeds
  <2> QED  BY <1>1, <2>1 DEF Quiet, maker
<1> QED  BY <1>2, <1>3

LEMMA CloserQuiet ==
  ASSUME NEW c \in Closers, CloserStep(c)
  PROVE  Quiet
<1>1. UNCHANGED <<deeds, maker>>
  BY DEF CloserStep, CloseCount, CloseLookUp, CloseCommit
<1> QED  BY <1>1 DEF Quiet, deeds, maker

LEMMA SingleQuiet ==
  ASSUME TypeOK, SingleStep
  PROVE  Quiet
<1>1. UNCHANGED maker
  BY DEF SingleStep, CreateDraft, Accept, Terminate, Unpublish, Apply, CreateTicket
<1>2. ASSUME NEW l \in Leases, NEW t \in Tenants, CreateDraft(l, t) \/ Accept(l, t)
      PROVE  Quiet
  BY <1>1, <1>2 DEF CreateDraft, Accept, Insert, Quiet, maker, TypeOK
<1>3. ASSUME NEW l \in Leases, Terminate(l) PROVE Quiet
  BY <1>1, <1>3 DEF Terminate, Quiet, maker, TypeOK, Exists
<1>4. CASE Unpublish \/ Apply \/ \E t \in Tickets, urgent \in BOOLEAN : CreateTicket(t, urgent)
  <2>1. UNCHANGED lease
    BY <1>4 DEF Unpublish, Apply, CreateTicket, deeds
  <2> QED  BY <1>1, <2>1 DEF Quiet, maker
<1> QED  BY <1>2, <1>3, <1>4 DEF SingleStep

\* What the requests of a maker leave of the others' histories.
LEMMA GoesOn ==
  ASSUME TypeOK, NEW m \in Makers, NEW what \in Makings, NEW l \in Leases \cup {Null},
         Goes(m, what, l)
  PROVE  /\ forced' = forced /\ m \notin overtaken'
         /\ making'[m] = what /\ about'[m] = l
         /\ \A n \in Makers \ {m} :
              making'[n] = making[n] /\ about'[n] = about[n] /\ (n \in overtaken' <=> n \in overtaken)
BY DEF Goes, Take, TypeOK

\* A check that begins: what it has seen is so.
LEMMA CheckSole ==
  ASSUME TypeOK, SoleInv, NEW m \in Makers, NEW what \in Makings, NEW l \in Leases \cup {Null},
         Goes(m, what, l), UNCHANGED lease,
         what \in {"activate", "onboard"} => \A k \in Leases \ {l} : ~Active(k),
         what = "renew" => l \in forced \/ \A k \in Leases \ ({l} \cup forced) : ~Active(k)
  PROVE  SoleInv'
<1> USE GoesOn DEF Active, Others
<1>1. OneActiveLease' /\ \A k \in Leases : lease'[k] # "EXPIRED"
  BY DEF SoleInv, OneActiveLease
<1>2. ASSUME NEW n \in Makers, n \notin overtaken', making'[n] \in {"activate", "onboard"}
      PROVE  \A k \in Others(n)' : ~Active(k)'
  <2>1. CASE n = m
    BY <1>2, <2>1
  <2>2. CASE n # m
    BY <1>2, <2>2 DEF SoleInv
  <2> QED  BY <2>1, <2>2
<1>3. ASSUME NEW n \in Makers, n \notin overtaken', making'[n] = "renew"
      PROVE  about'[n] \in forced' \/ \A k \in Others(n)' \ forced' : ~Active(k)'
  <2>1. CASE n = m
    BY <1>3, <2>1
  <2>2. CASE n # m
    BY <1>3, <2>2 DEF SoleInv
  <2> QED  BY <2>1, <2>2
<1> QED  BY <1>1, <1>2, <1>3 DEF SoleInv

\* A maker makes a lease ACTIVE: the lease is alone, or forced, or it was
\* forced before; and the other makers are overtaken or about the same lease.
LEMMA MakesSole ==
  ASSUME TypeOK, SoleInv, NEW m \in Makers, NEW l \in Leases,
         NEW what \in {"idle", "provision"}, NEW next \in Leases \cup {Null},
         Makes(m, l, what, next), making[m] \in Deciding, l = about[m] \/ about[m] = Null,
         about[m] = Null => making[m] = "onboard",
         lease' = [lease EXCEPT ![l] = "ACTIVE"]
  PROVE  SoleInv'
<1> USE DEF Active, Deciding
<1>0. l \notin Others(m) \/ making[m] = "onboard"
  BY DEF Others
<1>1. /\ making'[m] = what
      /\ \A n \in Makers \ {m} : making'[n] = making[n] /\ about'[n] = about[n]
      /\ \A n \in Makers \ {m} : n \notin overtaken' /\ making[n] \in Deciding =>
           n \notin overtaken /\ about[n] = l
  BY DEF Makes, Take, TypeOK
<1>2. \A k \in Leases \ {l} : lease'[k] = lease[k]
  BY DEF TypeOK
<1>3. \A k \in Leases : lease'[k] # "EXPIRED"
  BY <1>2 DEF SoleInv, TypeOK
<1>4. CASE \A k \in Leases \ {l} : ~Active(k)
  <2>1. \A k \in Leases \ {l} : ~Active(k)'
    BY <1>2, <1>4
  <2>2. OneActiveLease'
    BY <2>1 DEF OneActiveLease
  <2> QED  BY <1>1, <1>3, <2>1, <2>2 DEF SoleInv, Others
<1>5. CASE \E k \in Leases \ {l} : Active(k)
  <2>1. \/ forced' = forced \cup {l}
        \/ /\ m \notin overtaken /\ making[m] = "renew" /\ forced' = forced /\ l = about[m]
           /\ l \in forced \/ \A k \in Leases \ ({l} \cup forced) : ~Active(k)
    <3>1. CASE m \in overtaken
      BY <1>5, <3>1 DEF Makes
    <3>2. CASE m \notin overtaken
      <4>1. making[m] = "renew"
        BY <1>5, <3>2, OccupancyAssumption DEF SoleInv, Others
      <4> QED  BY <3>2, <4>1 DEF Makes, SoleInv, Others
    <3> QED  BY <3>1, <3>2
  <2>2. OneActiveLease'
    BY <1>2, <2>1 DEF OneActiveLease, SoleInv
  <2>3. ASSUME NEW n \in Makers, n \notin overtaken', making'[n] \in {"activate", "onboard"}
        PROVE  \A k \in Others(n)' : ~Active(k)'
    BY <1>1, <1>2, <2>3 DEF SoleInv, Others
  <2>4. ASSUME NEW n \in Makers, n \notin overtaken', making'[n] = "renew"
        PROVE  about'[n] \in forced' \/ \A k \in Others(n)' \ forced' : ~Active(k)'
    <3>1. n # m /\ n \notin overtaken /\ about[n] = l /\ about'[n] = l /\ making[n] = "renew"
      BY <1>1, <2>4
    <3>2. l \in forced \/ \A k \in Leases \ ({l} \cup forced) : ~Active(k)
      BY <3>1 DEF SoleInv, Others
    <3>3. l \in forced' \/ \A k \in Leases \ ({l} \cup forced') : ~Active(k)'
      BY <1>2, <2>1, <3>2
    <3> QED  BY <3>1, <3>3 DEF Others
  <2> QED  BY <1>3, <2>2, <2>3, <2>4 DEF SoleInv
<1> QED  BY <1>4, <1>5

LEMMA MakerSole ==
  ASSUME TypeOK, SoleInv, NEW m \in Makers, MakerStep(m)
  PROVE  SoleInv'
<1> USE DEF TypeOK, Makings, Onboarding, Provision, Deciding
<1>1. ASSUME NEW l \in Leases, ActivateCheck(m, l) PROVE SoleInv'
  BY <1>1, CheckSole DEF ActivateCheck, deeds
<1>2. ASSUME NEW l \in Leases, RenewRead(m, l) PROVE SoleInv'
  <2>1. Goes(m, "renew", l) /\ UNCHANGED lease /\ Active(l)
    BY <1>2 DEF RenewRead, deeds, SoleInv, Active
  <2>2. l \in forced \/ \A k \in Leases \ ({l} \cup forced) : ~Active(k)
    BY <2>1 DEF SoleInv, OneActiveLease
  <2> QED  BY <2>1, <2>2, CheckSole
<1>3. ASSUME NEW activate \in BOOLEAN, OnboardCheck(m, activate) PROVE SoleInv'
  BY <1>3, CheckSole DEF OnboardCheck, deeds
<1>4. CASE ActivateCommit(m)
  <2>1. about[m] \in Leases
    BY <1>4, OccupancyAssumption DEF ActivateCommit
  <2> QED  BY <1>4, <2>1, MakesSole, OccupancyAssumption DEF ActivateCommit
<1>5. CASE RenewWrite(m)
  <2>1. about[m] \in Leases
    BY <1>5, OccupancyAssumption DEF RenewWrite
  <2> QED  BY <1>5, <2>1, MakesSole, OccupancyAssumption DEF RenewWrite
<1>6. ASSUME NEW l \in Leases, NEW t \in Tenants, OnboardCommit(m, l, t) PROVE SoleInv'
  <2>1. CASE making[m] = "onboard"
    <3>1. /\ about[m] = Null /\ lease' = [lease EXCEPT ![l] = "ACTIVE"]
          /\ Makes(m, l, "provision", l)
      BY <1>6, <2>1 DEF OnboardCommit, Insert
    <3> QED  BY <2>1, <3>1, MakesSole
  <2>2. CASE making[m] = "onboardDraft"
    <3>1. Quiet
      BY <1>6, <2>2 DEF OnboardCommit, Insert, Quiet, Goes, Take
    <3> QED  BY <3>1, QuietSole
  <2> QED  BY <1>6, <2>1, <2>2 DEF OnboardCommit
<1>7. CASE Rollback(m) \/ Leave(m)
  <2>1. Quiet
    BY <1>7 DEF Rollback, Leave, Quiet, deeds, Goes, Take
  <2> QED  BY <2>1, QuietSole
<1> QED  BY <1>1, <1>2, <1>3, <1>4, <1>5, <1>6, <1>7 DEF MakerStep

LEMMA SoleStep == TypeOK /\ SoleInv /\ [Next]_vars => SoleInv'
<1> SUFFICES ASSUME TypeOK, SoleInv, [Next]_vars PROVE SoleInv'
  OBVIOUS
<1>1. CASE UNCHANGED vars
  BY <1>1 DEF vars, deeds, maker, SoleInv, OneActiveLease, Active, Others
<1>2. CASE Next
  BY <1>2, MakerSole, StaffQuiet, CloserQuiet, SingleQuiet, QuietSole DEF Next
<1> QED  BY <1>1, <1>2

LEMMA SoleInit == Init => SoleInv
BY DEF Init, SoleInv, OneActiveLease, Active

\* Whatever the makers, the staff, the applicants and the tickets do to the
\* leases and the status of an apartment meanwhile, two leases are in force
\* together only if one of them was made ACTIVE by a maker that another maker
\* had overtaken since its check (activate, onboard, renew).
THEOREM OneLeaseInForce == Spec => []OneActiveLease
<1>1. Init => TypeOK /\ SoleInv
  BY TypeInit, SoleInit
<1>2. TypeOK /\ SoleInv /\ [Next]_vars => TypeOK' /\ SoleInv'
  BY TypeStep, SoleStep
<1>3. SoleInv => OneActiveLease
  BY DEF SoleInv
<1> QED  BY <1>1, <1>2, <1>3, PTL DEF Spec

-----------------------------------------------------------------------------
(* Rents.                                                                  *)

\* A renewal has read a lease that had its rent, which only a roll-back takes
\* away, with the lease.
BilledInv ==
  /\ ActiveIsBilled
  /\ \A l \in Leases : lease[l] # "EXPIRED"
  /\ \A m \in Makers : making[m] = "renew" =>
       about[m] \in billed \/ lease[about[m]] = "deleted"

\* A quiet step that takes no rent away.
LEMMA QuietBilled ==
  ASSUME TypeOK, BilledInv, Quiet, UNCHANGED billed PROVE BilledInv'
<1>1. ActiveIsBilled' /\ \A l \in Leases : lease'[l] # "EXPIRED"
  BY DEF Quiet, BilledInv, ActiveIsBilled, Active
<1>2. ASSUME NEW m \in Makers, making'[m] = "renew"
      PROVE  about'[m] \in billed' \/ lease'[about'[m]] = "deleted"
  <2>1. making[m] = "renew" /\ about'[m] = about[m]
    BY <1>2 DEF Quiet, Deciding
  <2>2. about[m] \in Leases
    BY <2>1 DEF TypeOK, Onboarding
  <2> QED  BY <2>1, <2>2 DEF BilledInv, Quiet
<1> QED  BY <1>1, <1>2 DEF BilledInv

LEMMA BilledStep == TypeOK /\ BilledInv /\ [Next]_vars => BilledInv'
<1> SUFFICES ASSUME TypeOK, BilledInv, [Next]_vars PROVE BilledInv'
  OBVIOUS
<1>1. CASE UNCHANGED vars
  BY <1>1 DEF vars, deeds, maker, BilledInv, ActiveIsBilled, Active
<1>2. ASSUME NEW m \in Makers, MakerStep(m) PROVE BilledInv'
  <2> USE DEF BilledInv, ActiveIsBilled, Active, TypeOK, Take, Goes, Makes, deeds
  <2>1. ASSUME NEW l \in Leases, ActivateCheck(m, l) \/ RenewRead(m, l) PROVE BilledInv'
    BY <2>1 DEF ActivateCheck, RenewRead
  <2>2. ASSUME NEW activate \in BOOLEAN, OnboardCheck(m, activate) PROVE BilledInv'
    BY <2>2 DEF OnboardCheck
  <2>3. ASSUME NEW l \in Leases, NEW t \in Tenants, OnboardCommit(m, l, t) PROVE BilledInv'
    <3>1. /\ making'[m] # "renew"
          /\ \A n \in Makers \ {m} : making'[n] = making[n] /\ about'[n] = about[n]
      BY <2>3 DEF OnboardCommit
    <3>2. /\ lease[l] = "none" /\ billed \subseteq billed'
          /\ \A k \in Leases \ {l} : lease'[k] = lease[k]
      BY <2>3 DEF OnboardCommit, Insert
    <3>3. (lease'[l] = "ACTIVE" /\ l \in billed') \/ lease'[l] = "DRAFT"
      BY <2>3 DEF OnboardCommit, Insert
    <3>4. \A n \in Makers : making[n] = "renew" => about[n] \in Leases
      BY DEF Onboarding
    <3> QED  BY <3>1, <3>2, <3>3, <3>4
  <2>4. CASE ActivateCommit(m)
    BY <2>4 DEF ActivateCommit, Exists
  <2>5. CASE RenewWrite(m)
    BY <2>5 DEF RenewWrite, Exists
  <2>6. CASE Rollback(m)
    BY <2>6 DEF Rollback
  <2>7. CASE Leave(m)
    BY <2>7 DEF Leave
  <2> QED  BY <1>2, <2>1, <2>2, <2>3, <2>4, <2>5, <2>6, <2>7 DEF MakerStep
<1>3. ASSUME NEW s \in Staff, StaffStep(s) PROVE UNCHANGED billed
  BY <1>3 DEF StaffStep, ReleaseRead, UpdateRead, MoveRead, PublishRead, ReleaseWrite,
              UpdateWrite, PublishWrite, MoveWrite, deeds
<1>4. ASSUME NEW c \in Closers, CloserStep(c) PROVE UNCHANGED billed
  BY <1>4 DEF CloserStep, CloseCount, CloseLookUp, CloseCommit, deeds
<1>5. SingleStep => UNCHANGED billed
  BY DEF SingleStep, CreateDraft, Accept, Terminate, Unpublish, Apply, CreateTicket, deeds
<1> QED
  BY <1>1, <1>2, <1>3, <1>4, <1>5, StaffQuiet, CloserQuiet, SingleQuiet, QuietBilled DEF Next

\* A lease in force has a rent, with any number of makers at once: renew makes
\* ACTIVE only leases that were, and a roll-back deletes the lease with its rent.
THEOREM ActiveLeaseIsBilled == Spec => []ActiveIsBilled
<1>1. Init => TypeOK /\ BilledInv
  BY TypeInit DEF Init, BilledInv, ActiveIsBilled, Active
<1>2. TypeOK /\ BilledInv /\ [Next]_vars => TypeOK' /\ BilledInv'
  BY TypeStep, BilledStep
<1>3. BilledInv => ActiveIsBilled
  BY DEF BilledInv
<1> QED  BY <1>1, <1>2, <1>3, PTL DEF Spec

---------------------------------------------------------------------------
(***************************************************************************)
(* The rent of a lease in force (RentFollowUp), for any number of passes,  *)
(* requests and levels: its types, that its status says what was paid,     *)
(* and that reminders are sent once and in order.                          *)
(***************************************************************************)

USE DEF DueSoon, OwnerAlert, Types

PassType == [at : Places, type : Types, late : Int]

LEMMA NowhereType ==
  Nowhere \in PassType
  BY RentAssumption DEF Nowhere, PassType, Places

\* Where a step sends its pass is a place of the right type.
LEMMA GotoType ==
  ASSUME pass \in [Passes -> PassType], NEW p \in Passes, NEW place \in Places,
         Goto(p, place)
  PROVE  pass' \in [Passes -> PassType]
  BY DEF Goto, PassType

LEMMA StartTypeType ==
  ASSUME pass \in [Passes -> PassType], NEW p \in Passes,
         NEW t \in Types, NEW late \in Int, StartType(p, t, late)
  PROVE  pass' \in [Passes -> PassType]
  <1>1. [at |-> "check", type |-> t, late |-> late] \in PassType
    BY DEF PassType, Places
  <1> QED
    BY <1>1 DEF StartType

LEMMA AfterTypeType ==
  ASSUME NEW here \in PassType
  PROVE  AfterType(here) \in PassType
  <1>1. CASE here.type \in 1..Levels - 1 /\ here.late >= DunningDay[here.type + 1]
    <2>1. here.type + 1 \in Types
      BY <1>1, RentAssumption
    <2>2. AfterType(here) = [here EXCEPT !.at = "check", !.type = here.type + 1]
      BY <1>1 DEF AfterType
    <2> QED
      BY <2>1, <2>2 DEF PassType, Places
  <1>2. CASE ~(here.type \in 1..Levels - 1 /\ here.late >= DunningDay[here.type + 1])
    <2>1. AfterType(here) \in {Nowhere, [Nowhere EXCEPT !.at = "dunning"],
                              [Nowhere EXCEPT !.at = "alert"]}
      BY <1>2 DEF AfterType
    <2>2. \A place \in Places : [Nowhere EXCEPT !.at = place] \in PassType
      BY NowhereType DEF PassType
    <2> QED
      BY <2>1, <2>2, NowhereType DEF Places
  <1> QED
    BY <1>1, <1>2

LEMMA AfterTypeCases ==
  ASSUME NEW here \in PassType
  PROVE  \/ AfterType(here).at \in {"dunning", "alert", "idle"}
         \/ /\ AfterType(here).at = "check" /\ here.type \in 1..Levels - 1
            /\ AfterType(here).type = here.type + 1
  <1>1. CASE here.type \in 1..Levels - 1 /\ here.late >= DunningDay[here.type + 1]
    <2>1. AfterType(here) = [here EXCEPT !.at = "check", !.type = here.type + 1]
      BY <1>1 DEF AfterType
    <2> QED
      BY <1>1, <2>1 DEF PassType
  <1>2. CASE ~(here.type \in 1..Levels - 1 /\ here.late >= DunningDay[here.type + 1])
    BY <1>2 DEF AfterType, Nowhere
  <1> QED
    BY <1>1, <1>2

\* The variables keep their types.
THEOREM RentTypeCorrect ==
  RentSpec => []RentTypeOK
  <1>1. RentInit => RentTypeOK
    BY RentAssumption DEF RentInit, RentTypeOK, Nowhere, NoCall, Places, Statuses, Owing
  <1>2. RentTypeOK /\ [RentNext]_rentVars => RentTypeOK'
    <2> SUFFICES ASSUME RentTypeOK, [RentNext]_rentVars PROVE RentTypeOK'
      OBVIOUS
    <2> USE RentAssumption DEF RentTypeOK, row, rent, Statuses, Owing
    <2>1. CASE Tick
      BY <2>1 DEF Tick
    <2>2. CASE CreatePayment \/ ListPayments
      BY <2>2 DEF CreatePayment, ListPayments
    <2>3. ASSUME NEW c \in Clients, RecordRead(c) PROVE RentTypeOK'
      <3>1. PICK a \in Amounts : Free(c)
               /\ Read(c, paid + a, StatusAfter(paid + a))
        BY <2>3 DEF RecordRead
      <3>2. [at |-> "write", paid |-> paid + a, status |-> StatusAfter(paid + a)]
              \in [at : {"idle", "write"}, paid : Nat, status : Statuses]
        BY DEF StatusAfter
      <3>3. writes + 1 \in 0..MaxWrites
        BY <3>1 DEF Free
      <3> QED
        BY <3>1, <3>2, <3>3 DEF Read
    <2>4. ASSUME NEW c \in Clients, UnpayRead(c) PROVE RentTypeOK'
      BY <2>4 DEF UnpayRead, Free, Read
    <2>5. ASSUME NEW c \in Clients, WritePayment(c) PROVE RentTypeOK'
      <3>1. client[c].paid \in Nat /\ client[c].status \in Statuses
        OBVIOUS
      <3>2. /\ rentStatus' \in Statuses /\ paid' \in Nat
            /\ UNCHANGED <<day, log, noticed, pass, writes, failures>>
        BY <2>5, <3>1 DEF WritePayment
      <3>3. NoCall \in [at : {"idle", "write"}, paid : Nat, status : Statuses]
        BY DEF NoCall
      <3>4. client' = [client EXCEPT ![c] = NoCall]
        BY <2>5 DEF WritePayment
      <3> QED
        BY <3>2, <3>3, <3>4
    <2>6. ASSUME NEW p \in Passes, Step(p) PROVE RentTypeOK'
      <3>0. pass \in [Passes -> PassType]
        BY DEF PassType
      <3>1. pass' \in [Passes -> PassType]
        <4>1. CASE Start(p) \/ FindPayment(p) \/ FindLate(p)
                    \/ CreateMonth(p) \/ MarkLate(p)
          <5>1. PICK place \in Places : Goto(p, place)
            BY <4>1 DEF Start, FindPayment, FindLate, CreateMonth,
                MarkLate, Places
          <5> QED
            BY <3>0, <5>1, GotoType
        <4>2. CASE FindDueSoon(p) \/ FindDunning(p) \/ FindAlert(p)
          <5>1. \/ Goto(p, "dunning") \/ Goto(p, "alert")
                \/ pass' = [pass EXCEPT ![p] = Nowhere]
                \/ \E t \in Types, late \in Int : StartType(p, t, late)
            BY <4>2 DEF FindDueSoon, FindDunning, FindAlert
          <5>2. "dunning" \in Places /\ "alert" \in Places
            BY DEF Places
          <5> QED
            BY <3>0, <5>1, <5>2, GotoType, StartTypeType, NowhereType
        <4>3. CASE CheckLog(p) \/ LogFollowUp(p) \/ Notify(p)
          <5>1. \/ Goto(p, "log") \/ Goto(p, "notify")
                \/ pass' = [pass EXCEPT ![p] = Nowhere]
                \/ pass' = [pass EXCEPT ![p] = AfterType(pass[p])]
            BY <4>3 DEF CheckLog, LogFollowUp, Notify
          <5>2. "log" \in Places /\ "notify" \in Places
            BY DEF Places
          <5>3. AfterType(pass[p]) \in PassType
            BY <3>0, AfterTypeType
          <5> QED
            BY <3>0, <5>1, <5>2, <5>3, GotoType, NowhereType
        <4> QED
          BY <2>6, <4>1, <4>2, <4>3 DEF Step
      <3>2. /\ rentStatus' \in Statuses \cup {"NONE"}
            /\ UNCHANGED <<day, paid, client, writes, failures>>
        BY <2>6 DEF Step, Start, FindPayment, CreateMonth, FindLate,
            MarkLate,
          FindDueSoon, FindDunning, FindAlert, CheckLog,
              LogFollowUp, Notify
      <3>3. log' \subseteq Types
        <4>1. pass[p].type \in Types
          OBVIOUS
        <4> QED
          BY <2>6, <4>1 DEF Step, Start, FindPayment, CreateMonth,
              FindLate, MarkLate,
            FindDueSoon, FindDunning, FindAlert, CheckLog,
                LogFollowUp, Notify
      <3>4. noticed' \in [Types -> Nat]
        <4>1. CASE UNCHANGED noticed
          BY <4>1
        <4>2. CASE Notify(p)
          BY <4>2 DEF Notify
        <4> QED
          BY <2>6, <4>1, <4>2 DEF Step, Start, FindPayment, CreateMonth,
              FindLate,
            MarkLate, FindDueSoon, FindDunning, FindAlert, CheckLog,
                LogFollowUp
      <3> QED
        BY <3>1, <3>2, <3>3, <3>4 DEF PassType
    <2>7. ASSUME NEW p \in Passes, Interrupt(p) PROVE RentTypeOK'
      <3>1. pass' \in [Passes -> PassType]
        BY <2>7, NowhereType DEF Interrupt, PassType
      <3> QED
        BY <2>7, <3>1 DEF Interrupt, PassType
    <2>8. CASE UNCHANGED rentVars
      BY <2>8 DEF rentVars
    <2> QED
      BY <2>1, <2>2, <2>3, <2>4, <2>5, <2>6, <2>7, <2>8 DEF RentNext, Payments
  <1> QED
    BY <1>1, <1>2, PTL DEF RentSpec

-----------------------------------------------------------------------------
(* Status and amount. *)

Fits(s, total) ==
  /\ s = "PAID" => total >= Rent
  /\ s = "PARTIAL" => total \in 1..Rent - 1
  /\ s = "PENDING" => total = 0

\* What a request is about to write fits too, and a row that does not exist
\* has nothing paid.
StatusInv ==
  /\ Fits(rentStatus, paid)
  /\ rentStatus = "NONE" => paid = 0
  /\ \A c \in Clients :
       client[c].at = "write" => Fits(client[c].status, client[c].paid)

\* The status of a payment that is not late says what has been paid.
THEOREM StatusFits ==
  RentSpec => []StatusFitsAmount
  <1>1. RentInit => StatusInv
    BY DEF RentInit, StatusInv, Fits, NoCall
  <1>2. RentTypeOK /\ StatusInv /\ [RentNext]_rentVars => StatusInv'
    <2> SUFFICES ASSUME RentTypeOK, StatusInv, [RentNext]_rentVars PROVE StatusInv'
      OBVIOUS
    <2> USE RentAssumption DEF RentTypeOK, StatusInv, row, rent, Statuses, Owing
    <2>1. CASE Tick
      BY <2>1 DEF Tick
    <2>2. CASE CreatePayment \/ ListPayments
      BY <2>2 DEF CreatePayment, ListPayments, Fits
    <2>3. ASSUME NEW c \in Clients, RecordRead(c) PROVE StatusInv'
      <3>1. PICK a \in Amounts : Free(c)
               /\ Read(c, paid + a, StatusAfter(paid + a))
        BY <2>3 DEF RecordRead
      <3>2. Fits(StatusAfter(paid + a), paid + a)
        BY DEF StatusAfter, Fits
      <3> QED
        BY <3>1, <3>2 DEF Read
    <2>4. ASSUME NEW c \in Clients, UnpayRead(c) PROVE StatusInv'
      <3>1. Fits("LATE", 0) /\ Fits("PENDING", 0)
        BY DEF Fits
      <3> QED
        BY <2>4, <3>1 DEF UnpayRead, Read
    <2>5. ASSUME NEW c \in Clients, WritePayment(c) PROVE StatusInv'
      BY <2>5 DEF WritePayment, NoCall
    <2>6. ASSUME NEW p \in Passes, Step(p) PROVE StatusInv'
      <3>1. CASE CreateMonth(p)
        BY <3>1 DEF CreateMonth, Fits
      <3>2. CASE MarkLate(p)
        BY <3>2 DEF MarkLate, Fits
      <3>3. CASE UNCHANGED rent
        BY <3>3
      <3> QED
        BY <2>6, <3>1, <3>2, <3>3
        DEF Step, Start, FindPayment, FindLate, FindDueSoon,
            FindDunning,
            FindAlert, CheckLog, LogFollowUp, Notify
    <2>7. ASSUME NEW p \in Passes, Interrupt(p) PROVE StatusInv'
      BY <2>7 DEF Interrupt
    <2>8. CASE UNCHANGED rentVars
      BY <2>8 DEF rentVars
    <2> QED
      BY <2>1, <2>2, <2>3, <2>4, <2>5, <2>6, <2>7, <2>8 DEF RentNext, Payments
  <1>3. StatusInv => StatusFitsAmount
    BY DEF StatusInv, Fits, StatusFitsAmount
  <1> QED
    BY <1>1, <1>2, <1>3, RentTypeCorrect, PTL DEF RentSpec

-----------------------------------------------------------------------------
(* The journal. *)

\* A pass that is about to send a reminder has journaled it itself, and is
\* the only one to have done so.
SentInv ==
  /\ \A t \in Types : noticed[t] <= 1
  /\ \A t \in Types : noticed[t] = 1 => t \in log
  /\ \A p \in Passes :
       At(p, "notify") => pass[p].type \in log /\ noticed[pass[p].type] = 0
  /\ \A p, q \in Passes :
       At(p, "notify") /\ At(q, "notify") /\ pass[p].type = pass[q].type => p = q

\* Steps that leave the journal alone bring no pass to "notify".
LEMMA RentQuietStep ==
  ASSUME RentTypeOK, NEW p \in Passes,
         \/ Start(p) \/ FindPayment(p) \/ CreateMonth(p)
               \/ FindLate(p) \/ MarkLate(p)
         \/ FindDueSoon(p) \/ FindDunning(p) \/ FindAlert(p)
         \/ CheckLog(p) \/ Interrupt(p)
  PROVE  /\ UNCHANGED <<log, noticed>>
         /\ pass'[p].at # "notify"
         /\ \A q \in Passes \ {p} : pass'[q] = pass[q]
  <1> USE DEF RentTypeOK, Goto, StartType, At, Nowhere
  <1>1. CASE Start(p) \/ FindPayment(p) \/ CreateMonth(p)
              \/ FindLate(p) \/ MarkLate(p)
    BY <1>1 DEF Start, FindPayment, CreateMonth, FindLate, MarkLate
  <1>2. CASE FindDueSoon(p) \/ FindDunning(p) \/ FindAlert(p)
    BY <1>2 DEF FindDueSoon, FindDunning, FindAlert
  <1>3. CASE CheckLog(p)
    <2>1. AfterType(pass[p]).at # "notify"
      BY AfterTypeCases DEF PassType
    <2>2. \/ pass' = [pass EXCEPT ![p] = AfterType(pass[p])]
          \/ pass' = [pass EXCEPT ![p].at = "log"]
      BY <1>3 DEF CheckLog
    <2>3. UNCHANGED <<log, noticed>>
      BY <1>3 DEF CheckLog
    <2> QED
      BY <2>1, <2>2, <2>3
  <1>4. CASE Interrupt(p)
    BY <1>4 DEF Interrupt
  <1> QED
    BY <1>1, <1>2, <1>3, <1>4

\* A reminder of one type is sent at most once for a payment.
THEOREM SentOnce ==
  RentSpec => []ReminderSentOnce
  <1>1. RentInit => SentInv
    BY DEF RentInit, SentInv, At, Nowhere
  <1>2. RentTypeOK /\ SentInv /\ [RentNext]_rentVars => SentInv'
    <2> SUFFICES ASSUME RentTypeOK, SentInv, [RentNext]_rentVars PROVE SentInv'
      OBVIOUS
    <2>1. CASE Tick \/ Payments \/ UNCHANGED rentVars
      <3>1. UNCHANGED <<log, noticed, pass>>
        BY <2>1 DEF Tick, Payments, CreatePayment, ListPayments,
            RecordRead,
          UnpayRead, Read, WritePayment, rentVars
      <3> QED
        BY <3>1 DEF SentInv, At
    <2>2. ASSUME NEW p \in Passes, Step(p) \/ Interrupt(p) PROVE SentInv'
      <3>1. CASE LogFollowUp(p) /\ pass[p].type \in log
        <4>1. pass' = [pass EXCEPT ![p] = Nowhere] /\ log' = log /\ noticed' = noticed
          BY <3>1 DEF LogFollowUp
        <4> QED
          BY <4>1 DEF SentInv, At, Nowhere, RentTypeOK
      <3>2. CASE LogFollowUp(p) /\ pass[p].type \notin log
        <4>1. /\ pass' = [pass EXCEPT ![p].at = "notify"]
              /\ log' = log \cup {pass[p].type} /\ noticed' = noticed
          BY <3>2 DEF LogFollowUp, Goto
        <4>2. pass[p].type \in Types /\ noticed[pass[p].type] = 0
          BY <3>2 DEF SentInv, RentTypeOK
        <4>3. \A q \in Passes : At(q, "notify") => pass[q].type # pass[p].type
          BY <3>2 DEF SentInv
        <4>4. /\ pass'[p].at = "notify" /\ pass'[p].type = pass[p].type
              /\ \A q \in Passes \ {p} : pass'[q] = pass[q]
          BY <4>1 DEF RentTypeOK
        <4> QED
          BY <4>1, <4>2, <4>3, <4>4 DEF SentInv, At
      <3>3. CASE Notify(p)
        <4>1. /\ At(p, "notify") /\ log' = log
              /\ noticed' = [noticed EXCEPT ![pass[p].type] = @ + 1]
              /\ pass' = [pass EXCEPT ![p] = AfterType(pass[p])]
          BY <3>3 DEF Notify
        <4>2. AfterType(pass[p]).at # "notify"
          BY DEF AfterType, Nowhere, RentTypeOK
        <4>3. pass'[p].at # "notify" /\ \A q \in Passes \ {p} : pass'[q] = pass[q]
          BY <4>1, <4>2 DEF RentTypeOK
        <4>4. \A t \in Types : noticed'[t] = IF t = pass[p].type THEN 1 ELSE noticed[t]
          BY <4>1 DEF SentInv, RentTypeOK
        <4> QED
          BY <4>1, <4>3, <4>4 DEF SentInv, At, RentTypeOK
      <3>4. CASE ~LogFollowUp(p) /\ ~Notify(p)
        <4>1. /\ UNCHANGED <<log, noticed>> /\ pass'[p].at # "notify"
              /\ \A q \in Passes \ {p} : pass'[q] = pass[q]
          BY <2>2, <3>4, RentQuietStep DEF Step
        <4> QED
          BY <4>1 DEF SentInv, At
      <3> QED
        BY <3>1, <3>2, <3>3, <3>4
    <2> QED
      BY <2>1, <2>2 DEF RentNext
  <1>3. SentInv => ReminderSentOnce
    BY DEF SentInv, ReminderSentOnce
  <1> QED
    BY <1>1, <1>2, <1>3, RentTypeCorrect, PTL DEF RentSpec

\* A pass at a level has found, or journaled, every level below it.
Below(here) ==
  here.at \in {"check", "log", "notify"} =>
    /\ here.type \in 2..Levels => here.type - 1 \in log
    /\ here.at = "notify" => here.type \in log

OrderInv == LevelsInOrder /\ \A p \in Passes : Below(pass[p])

\* No level of dunning is journaled before those under it.
THEOREM LevelsAreProgressive ==
  RentSpec => []LevelsInOrder
  <1>1. RentInit => OrderInv
    BY DEF RentInit, OrderInv, LevelsInOrder, Below, Nowhere
  <1>2. RentTypeOK /\ OrderInv /\ [RentNext]_rentVars => OrderInv'
    <2> SUFFICES ASSUME RentTypeOK, OrderInv, [RentNext]_rentVars PROVE OrderInv'
      OBVIOUS
    <2>1. CASE Tick \/ Payments \/ UNCHANGED rentVars
      <3>1. UNCHANGED <<log, pass>>
        BY <2>1 DEF Tick, Payments, CreatePayment, ListPayments,
            RecordRead,
          UnpayRead, Read, WritePayment, rentVars
      <3> QED
        BY <3>1 DEF OrderInv, LevelsInOrder, Below
    <2>2. ASSUME NEW p \in Passes, Step(p) \/ Interrupt(p) PROVE OrderInv'
      <3>0. pass[p].type \in Types
        BY DEF RentTypeOK
      <3>1. \A q \in Passes \ {p} : pass'[q] = pass[q]
        <4>1. CASE LogFollowUp(p) \/ Notify(p)
          BY <4>1 DEF LogFollowUp, Notify, Goto, RentTypeOK
        <4> QED
          BY <2>2, <4>1, RentQuietStep DEF Step
      <3>2. log \subseteq log' /\ LevelsInOrder'
        <4>1. CASE LogFollowUp(p)
          <5>1. log' = log \cup {pass[p].type} /\ Below(pass[p]) /\ pass[p].at = "log"
            BY <4>1 DEF LogFollowUp, OrderInv, At
          <5> QED
            BY <5>1 DEF OrderInv, LevelsInOrder, Below
        <4>2. CASE ~LogFollowUp(p)
          <5>1. log' = log
            BY <2>2, <4>2, RentQuietStep DEF Step, Notify
          <5> QED
            BY <5>1 DEF OrderInv, LevelsInOrder
        <4> QED
          BY <4>1, <4>2
      <3>3. Below(pass[p])
        BY DEF OrderInv
      <3>4. Below(pass[p])'
        <4> USE DEF At, Goto, StartType, Nowhere, Below
        <4>1. CASE Start(p) \/ FindPayment(p) \/ CreateMonth(p)
                    \/ FindLate(p) \/ MarkLate(p)
          BY <4>1 DEF Start, FindPayment, CreateMonth, FindLate,
              MarkLate, RentTypeOK
        <4>2. CASE FindDueSoon(p) \/ FindDunning(p) \/ FindAlert(p)
          <5>1. \/ pass'[p].at \in {"dunning", "alert", "idle"}
                \/ pass'[p].at = "check" /\ pass'[p].type \in {0, 1, Levels + 1}
            BY <4>2 DEF FindDueSoon, FindDunning, FindAlert, RentTypeOK
          <5> QED
            BY <5>1, RentAssumption
        <4>3. ASSUME pass[p].at \in {"check", "notify"}, pass[p].type \in log,
                     log' = log, pass' = [pass EXCEPT ![p] = AfterType(pass[p])]
              PROVE  Below(pass[p])'
          <5>1. pass'[p] = AfterType(pass[p])
            BY <4>3 DEF RentTypeOK
          <5>2. \/ pass'[p].at \in {"dunning", "alert", "idle"}
                \/ /\ pass'[p].at = "check"
                   /\ pass'[p].type = pass[p].type + 1 /\ pass[p].type \in 1..Levels - 1
            BY <5>1, AfterTypeCases DEF PassType, RentTypeOK
          <5>3. pass'[p].at = "check" => pass'[p].type - 1 = pass[p].type
            BY <5>2, RentAssumption
          <5>4. pass'[p].at # "notify"
            BY <5>2
          <5>5. pass'[p].at \in {"check", "log", "notify"} => pass'[p].at = "check"
            BY <5>2
          <5> QED
            BY <4>3, <5>3, <5>4, <5>5
        <4>4. CASE CheckLog(p)
          <5>1. CASE pass[p].type \in log
            BY <4>3, <4>4, <5>1 DEF CheckLog
          <5>2. CASE pass[p].type \notin log
            <6>1. pass' = [pass EXCEPT ![p].at = "log"] /\ pass[p].at = "check" /\ log' = log
              BY <4>4, <5>2 DEF CheckLog
            <6>2. pass'[p].at = "log" /\ pass'[p].type = pass[p].type
              BY <6>1 DEF RentTypeOK
            <6> QED
              BY <3>3, <6>1, <6>2
          <5> QED
            BY <5>1, <5>2
        <4>5. CASE LogFollowUp(p)
          BY <3>2, <3>3, <4>5 DEF LogFollowUp, RentTypeOK
        <4>6. CASE Notify(p)
          BY <3>3, <4>3, <4>6 DEF Notify
        <4>7. CASE Interrupt(p)
          BY <4>7 DEF Interrupt, RentTypeOK
        <4> QED
          BY <2>2, <4>1, <4>2, <4>4, <4>5, <4>6, <4>7 DEF Step
      <3>5. \A q \in Passes \ {p} : Below(pass[q])'
        BY <3>1, <3>2 DEF OrderInv, Below
      <3> QED
        BY <3>2, <3>4, <3>5 DEF OrderInv
    <2> QED
      BY <2>1, <2>2 DEF RentNext
  <1>3. OrderInv => LevelsInOrder
    BY DEF OrderInv
  <1> QED
    BY <1>1, <1>2, <1>3, RentTypeCorrect, PTL DEF RentSpec

=============================================================================
