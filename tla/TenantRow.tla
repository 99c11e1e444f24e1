----------------------------- MODULE TenantRow -----------------------------
(***************************************************************************)
(* The row of a tenant (TenantsService.update and remove, PlansService,    *)
(* TenantBrandingService) and the images it shows (StorageService).  Every *)
(* request reads the row, works on its copy and saves the whole of it:     *)
(* TypeORM writes each column that differs, inserts a row that is gone,    *)
(* and makes a loaded list of users the list, so that a user of the tenant *)
(* who is not in it is left without one.                                   *)
(***************************************************************************)
EXTENDS Naturals, FiniteSets

CONSTANTS TenantJobs,     \* requests at work
          Kinds,          \* "logo", "banner", "favicon" or "dashboard-banner"
          Plans, NoPlan,
          Officers,       \* users of the tenant, or to be
          MaxTenantAsks   \* bound: requests

ASSUME TenantRowAssumption == NoPlan \notin Plans /\ MaxTenantAsks \in Nat

VARIABLES tenant,      \* the row
          planRows,    \* the plans there are
          officer,     \* user -> "new", "ours", "none" (tenantId null), "other" or "gone"
          stored,      \* the images in the bucket, by number
          tenantJob, tenantAsks,
          images,      \* history: image number -> its kind
          stale,       \* history: a copy older than another's save was saved
          halved,      \* history: a request stopped with an image deleted or stored
          undeleted,   \* history: images whose deletion failed, which nobody minds
          during,      \* history: users who came or went while an update held its list
          moved,       \* history: users who were given to another tenant
          firstPlan    \* history: the plan the tenant was first given

tenantVars == <<tenant, planRows, officer, stored, tenantJob, tenantAsks, images, stale, halved,
                undeleted, during, moved, firstPlan>>
tenantPast == <<images, stale, halved, undeleted, during, moved, firstPlan>>

Shows == [k \in Kinds |-> 0]
IdleTenantJob == [step |-> "idle",
                  row |-> [here |-> FALSE, plan |-> NoPlan, colour |-> 0, image |-> Shows],
                  users |-> {}, kind |-> CHOOSE k \in Kinds : TRUE, plan |-> NoPlan, late |-> FALSE,
                  deleted |-> FALSE]
Ours == {u \in Officers : officer[u] = "ours"}

TenantRowInit ==
    /\ tenant = [here |-> TRUE, plan |-> NoPlan, colour |-> 0, image |-> Shows]
    /\ planRows = Plans
    /\ officer = [u \in Officers |-> "new"]
    /\ stored = {} /\ images = <<>>
    /\ tenantJob = [j \in TenantJobs |-> IdleTenantJob]
    /\ tenantAsks = 0
    /\ stale = FALSE /\ halved = FALSE /\ undeleted = {} /\ during = {} /\ moved = {}
    /\ firstPlan = NoPlan

\* findOne, or NotFoundException
FindTenant(j, job) ==
    /\ tenantJob[j].step = "idle" /\ tenantAsks < MaxTenantAsks /\ tenant.here
    /\ tenantJob' = [tenantJob EXCEPT ![j] = job]
    /\ tenantAsks' = tenantAsks + 1
    /\ UNCHANGED <<tenant, planRows, officer, stored, tenantPast>>

\* the row is written: the copies others hold are old now
TenantWritten(j) ==
    tenantJob' = [i \in TenantJobs |->
        IF i = j THEN IdleTenantJob
        ELSE [tenantJob[i] EXCEPT !.late = tenantJob[i].step # "idle"]]

\* tenantsRepo.save, which the foreign key refuses when the plan of the copy is gone
SaveTenant(j, row) ==
    /\ row.plan \in planRows \union {NoPlan}
    /\ tenant' = row
    /\ stale' = (stale \/ tenantJob[j].late)
    /\ TenantWritten(j)
    /\ UNCHANGED <<planRows, tenantAsks>>

\* Mutant: the plan asked for, whatever was loaded
PlanAsIs(had, p) == IF p = NoPlan THEN had ELSE p

\* Object.assign(tenant, dto) with the plan loaded: the plan that is there prevails over
\* the planId of the form
PlanSaved(had, p) == IF had = NoPlan THEN p ELSE had

\* the list of users, saved: those on it who are there are the tenant's, the others of the
\* tenant are nobody's
ListSaved(u, users) ==
    IF u \in users THEN IF officer[u] = "gone" THEN "gone" ELSE "ours"
    ELSE IF officer[u] = "ours" THEN "none" ELSE officer[u]

\* TenantsService.update, with a plan or without; findOne loads the users as well.  A slug
\* of another tenant is a stop (TenantJobStops).
UpdateTenant(j, p) ==
    FindTenant(j, [IdleTenantJob EXCEPT !.step = "update", !.row = tenant, !.users = Ours,
                                        !.plan = p])
UpdateTenantSave(j) ==
    LET job == tenantJob[j]
        plan == PlanSaved(job.row.plan, job.plan)
    IN /\ job.step = "update"
       /\ SaveTenant(j, [job.row EXCEPT !.plan = plan])
       /\ officer' = [u \in Officers |-> ListSaved(u, job.users)]
       /\ firstPlan' = IF firstPlan = NoPlan THEN job.plan ELSE firstPlan
       /\ UNCHANGED <<stored, images, halved, undeleted, during, moved>>

\* updateBranding: a colour or another setting
Branding(j) == FindTenant(j, [IdleTenantJob EXCEPT !.step = "colour", !.row = tenant])
BrandingSave(j) ==
    /\ tenantJob[j].step = "colour"
    /\ SaveTenant(j, [tenantJob[j].row EXCEPT !.colour = 1 - @])
    /\ UNCHANGED <<officer, stored, images, halved, undeleted, during, moved, firstPlan>>

\* uploadImage and deleteImage
UploadImage(j, k) ==
    FindTenant(j, [IdleTenantJob EXCEPT !.step = "clearFor", !.row = tenant, !.kind = k])
DeleteImage(j, k) ==
    FindTenant(j, [IdleTenantJob EXCEPT !.step = "clear", !.row = tenant, !.kind = k])

\* Mutant: no key is found in the url
NoKeyOf(n) == {}

\* extractKeyFromUrl
KeyOf(n) == IF n = 0 THEN {} ELSE {n}

\* storage.delete of the image the copy shows; an error is ignored
Clear(j, fails) ==
    LET job == tenantJob[j]
        old == KeyOf(job.row.image[job.kind])
    IN /\ job.step \in {"clearFor", "clear"}
       /\ stored' = IF fails THEN stored ELSE stored \ old
       /\ undeleted' = IF fails THEN undeleted \union {job.row.image[job.kind]} ELSE undeleted
       /\ tenantJob' = [tenantJob EXCEPT ![j].deleted = TRUE,
              ![j].step = IF job.step = "clear" THEN "deleteSave" ELSE "store"]
       /\ UNCHANGED <<tenant, planRows, officer, tenantAsks, images, stale, halved, during,
                      moved, firstPlan>>
\* storage.upload, under a new name
Store(j) ==
    LET n == Cardinality(DOMAIN images) + 1 IN
    /\ tenantJob[j].step = "store"
    /\ stored' = stored \union {n}
    /\ images' = [i \in 1 .. n |-> IF i = n THEN tenantJob[j].kind ELSE images[i]]
    /\ tenantJob' = [tenantJob EXCEPT ![j].step = "uploadSave",
                                      ![j].row.image[tenantJob[j].kind] = n]
    /\ UNCHANGED <<tenant, planRows, officer, tenantAsks, stale, halved, undeleted, during,
                   moved, firstPlan>>
ImageSave(j) ==
    LET job == tenantJob[j] IN
    /\ job.step \in {"uploadSave", "deleteSave"}
    /\ SaveTenant(j, IF job.step = "uploadSave" THEN job.row
                     ELSE [job.row EXCEPT !.image[job.kind] = 0])
    /\ UNCHANGED <<officer, stored, images, halved, undeleted, during, moved, firstPlan>>

\* a request is refused, fails, or its process dies, between two statements
TenantJobStops(j) ==
    /\ tenantJob[j].step # "idle"
    /\ halved' = (halved \/ tenantJob[j].deleted)
    /\ tenantJob' = [tenantJob EXCEPT ![j] = IdleTenantJob]
    /\ UNCHANGED <<tenant, planRows, officer, stored, tenantAsks, images, stale, undeleted,
                   during, moved, firstPlan>>

\* TenantsService.remove: the users of the tenant go with it, its images stay
RemoveTenant ==
    /\ tenant.here
    /\ tenant' = [IdleTenantJob.row EXCEPT !.here = FALSE]
    /\ officer' = [u \in Officers |-> IF officer[u] = "ours" THEN "gone" ELSE officer[u]]
    /\ tenantJob' = [i \in TenantJobs |->
           [tenantJob[i] EXCEPT !.late = tenantJob[i].step # "idle"]]
    /\ firstPlan' = NoPlan
    /\ UNCHANGED <<planRows, stored, tenantAsks, images, stale, halved, undeleted, during, moved>>
\* PlansService.remove: the tenants of the plan are left without one
RemovePlan(p) ==
    /\ p \in planRows /\ planRows' = planRows \ {p}
    /\ tenant' = [tenant EXCEPT !.plan = IF @ = p THEN NoPlan ELSE @]
    /\ firstPlan' = IF firstPlan = p THEN NoPlan ELSE firstPlan
    /\ tenantJob' = [i \in TenantJobs |-> [tenantJob[i] EXCEPT
           !.late = @ \/ (tenantJob[i].step # "idle" /\ tenant.plan = p)]]
    /\ UNCHANGED <<officer, stored, tenantAsks, images, stale, halved, undeleted, during, moved>>

\* UsersService: a user is created in the tenant, moved to another, or removed
OfficerBecomes(u, state) ==
    /\ officer' = [officer EXCEPT ![u] = state]
    /\ during' = IF \E j \in TenantJobs : tenantJob[j].step = "update" THEN during \union {u}
                 ELSE during
    /\ moved' = IF state = "other" THEN moved \union {u} ELSE moved
    /\ UNCHANGED <<tenant, planRows, stored, tenantJob, tenantAsks, images, stale, halved,
                   undeleted, firstPlan>>
CreateOfficer(u) == officer[u] = "new" /\ tenant.here /\ OfficerBecomes(u, "ours")
MoveOfficer(u) == officer[u] = "ours" /\ OfficerBecomes(u, "other")
RemoveOfficer(u) == officer[u] \in {"ours", "other", "none"} /\ OfficerBecomes(u, "gone")

TenantRowNext ==
    \/ RemoveTenant
    \/ \E p \in Plans : RemovePlan(p)
    \/ \E u \in Officers : CreateOfficer(u) \/ MoveOfficer(u) \/ RemoveOfficer(u)
    \/ \E j \in TenantJobs :
          \/ UpdateTenantSave(j) \/ Branding(j) \/ BrandingSave(j) \/ Store(j) \/ ImageSave(j)
          \/ TenantJobStops(j)
          \/ \E p \in Plans \union {NoPlan} : UpdateTenant(j, p)
          \/ \E k \in Kinds : UploadImage(j, k) \/ DeleteImage(j, k)
          \/ \E fails \in BOOLEAN : Clear(j, fails)

TenantRowSpec == TenantRowInit /\ [][TenantRowNext]_tenantVars

----------------------------------------------------------------------------
TenantState == [here : BOOLEAN, plan : Plans \union {NoPlan}, colour : {0, 1},
                image : [Kinds -> Nat]]
TenantJobState == [step : {"idle", "update", "colour", "clearFor", "clear", "store",
                           "uploadSave", "deleteSave"},
                   row : TenantState, users : SUBSET Officers,
                   kind : Kinds \union {IdleTenantJob.kind}, plan : Plans \union {NoPlan},
                   late : BOOLEAN, deleted : BOOLEAN]

TenantRowTypeOK ==
    /\ tenant \in TenantState /\ planRows \subseteq Plans
    /\ tenant.plan \in planRows \union {NoPlan} /\ firstPlan \in Plans \union {NoPlan}
    /\ officer \in [Officers -> {"new", "ours", "none", "other", "gone"}]
    /\ tenantJob \in [TenantJobs -> TenantJobState]
    /\ Cardinality(DOMAIN images) \in Nat /\ DOMAIN images = 1 .. Cardinality(DOMAIN images)
    /\ images \in [DOMAIN images -> Kinds] /\ stored \subseteq DOMAIN images
    /\ stale \in BOOLEAN /\ halved \in BOOLEAN /\ moved \subseteq Officers

Running(k) == {j \in TenantJobs : tenantJob[j].deleted /\ tenantJob[j].kind = k}

\* An image the tenant shows is of the kind it is shown as; it is in the bucket, and only
\* such images are, unless a request that deleted or stored one stopped before it saved, a
\* copy older than another's save was saved, or a request for that kind is at work; what a
\* failed deletion left stays, and so does what a removed tenant had.
ShownIsStored ==
    /\ \A k \in Kinds :
          tenant.image[k] # 0 =>
              /\ images[tenant.image[k]] = k
              /\ tenant.image[k] \in stored \/ stale \/ halved \/ Running(k) # {}
    /\ \A n \in stored :
          \/ tenant.image[images[n]] = n \/ n \in undeleted
          \/ ~tenant.here \/ stale \/ halved \/ Running(images[n]) # {}

\* A user is left without a tenant, or taken back from another, only by an update that had
\* its list of users before the user came or went.
UsersStay ==
    \A u \in Officers :
        officer[u] = "none" \/ (officer[u] = "ours" /\ u \in moved) => u \in during

\* The tenant keeps the plan it was first given, whatever plan later forms ask for, unless
\* an older copy was saved.
PlanStays == stale \/ tenant.plan = firstPlan

TenantRowHolds == ShownIsStored /\ UsersStay /\ PlanStays

----------------------------------------------------------------------------
(* The inductive invariant behind TenantRowHolds *)

\* A row shows images of the kinds it shows them as.
ShowsKinds(row) ==
    \A k \in Kinds : row.image[k] # 0 => row.image[k] \in DOMAIN images /\ images[row.image[k]] = k

HasStored(j) == tenantJob[j].step = "uploadSave"
NewImage(j) == tenantJob[j].row.image[tenantJob[j].kind]

\* An image that is stored is shown, or about to be, unless it was to be deleted, the tenant
\* was removed or a request went wrong.
StoredIsShown(n) ==
    \/ tenant.image[images[n]] = n \/ n \in undeleted \/ ~tenant.here \/ stale \/ halved
    \/ \E j \in TenantJobs : HasStored(j) /\ NewImage(j) = n

\* A request that is not late holds the row as it is, but for the image it has stored.
RowIsCurrent(j) ==
    LET job == tenantJob[j] IN
    /\ tenant.here
    /\ job.row.here /\ job.row.plan = tenant.plan
    /\ \A k \in Kinds : job.row.image[k] = tenant.image[k] \/ (HasStored(j) /\ k = job.kind)

\* From the deletion on, the image the tenant shows is not stored, or not minded.
IsCleared(j) ==
    LET k == tenantJob[j].kind IN
    tenant.image[k] \notin stored \/ tenant.image[k] \in undeleted

\* The image a request has stored is in the bucket, and no other row shows it.
StoredIsOwn(j) ==
    LET k == tenantJob[j].kind IN
    /\ NewImage(j) \in stored /\ tenant.image[k] # NewImage(j)
    /\ \A i \in TenantJobs \ {j} : tenantJob[i].row.image[k] # NewImage(j)

\* The list of users that an update holds is that of the tenant's users, but for those who
\* came or went meanwhile, or went with the tenant.
ListIsCurrent(j) ==
    \A u \in Officers \ during :
        IF u \in tenantJob[j].users THEN officer[u] \in {"ours", "gone"}
        ELSE officer[u] # "ours"

JobImagesHold(j) ==
    LET job == tenantJob[j] IN
    /\ ShowsKinds(job.row)
    /\ job.step # "idle" /\ ~job.late => RowIsCurrent(j)
    /\ job.step \in {"clearFor", "clear", "store", "uploadSave", "deleteSave"} =>
          job.kind \in Kinds
    /\ job.deleted <=> job.step \in {"store", "uploadSave", "deleteSave"}
    /\ job.deleted => job.late \/ IsCleared(j)
    /\ HasStored(j) => StoredIsOwn(j)

ImagesHold ==
    /\ ShownIsStored /\ ShowsKinds(tenant)
    /\ \A n \in stored : StoredIsShown(n)
    /\ \A j \in TenantJobs : JobImagesHold(j)

OfficersHold ==
    /\ UsersStay
    /\ \A u \in moved \ during : officer[u] \in {"other", "gone"}
    /\ \A j \in TenantJobs : tenantJob[j].step = "update" => ListIsCurrent(j)

TenantInv == TenantRowTypeOK /\ ImagesHold /\ OfficersHold /\ PlanStays
=============================================================================
