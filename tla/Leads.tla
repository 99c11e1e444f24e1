------------------------------- MODULE Leads -------------------------------
(***************************************************************************)
(* LeadsService: the leads of the sales funnel.  A checkout finds or makes *)
(* the lead of its address, the bot and the back office create, edit and   *)
(* remove leads by hand, and subscribers and checkout sessions point to    *)
(* them.  Nothing in the database makes an address unique, and each edit   *)
(* saves the whole row.                                                    *)
(***************************************************************************)
EXTENDS Naturals, FiniteSets

CONSTANTS LeadJobs,      \* requests at work
          Written,       \* addresses as they are written
          Normal,        \* an address, trimmed and in lower case
          Offers,        \* plans
          NoOffer,
          MaxLeadRows, MaxLeadAsks  \* bounds: rows, requests

ASSUME LeadsAssumption ==
    /\ Normal \in [Written -> Written] /\ Written # {}
    /\ \A a \in Written : Normal[Normal[a]] = Normal[a]
    /\ NoOffer \notin Offers /\ MaxLeadRows \in Nat /\ MaxLeadAsks \in Nat

VARIABLES leadRow,     \* number -> the row
          offersHere,  \* the plans that have a row
          subscribed,  \* the leads that subscribers or sessions point to
          leadJob, leadAsks,
          madeBy,      \* history: number -> "checkout", "late checkout" or "hand"
          edited,      \* history: leads whose address was edited, or that were removed
          lastOffer,   \* history: number -> the plan of the last checkout, or of the first
                       \* form that named one, unless that plan was removed since
          overwritten  \* history: leads saved from a copy older than another's save

leadVars == <<leadRow, offersHere, subscribed, leadJob, leadAsks, madeBy, edited, lastOffer,
              overwritten>>
leadPast == <<madeBy, edited, lastOffer, overwritten>>

LeadIds == DOMAIN leadRow
LeadsHere == {l \in LeadIds : leadRow[l].here}
NoRow == [here |-> FALSE, email |-> CHOOSE a \in Written : TRUE, offer |-> NoOffer]
IdleLeadJob == [step |-> "idle", lead |-> 0, row |-> NoRow, asks |-> NoRow, late |-> FALSE]
Row(email, offer) == [here |-> TRUE, email |-> email, offer |-> offer]
With(f, n, x) == [i \in DOMAIN f \union {n} |-> IF i = n THEN x ELSE f[i]]

LeadsInit ==
    /\ leadRow = <<>> /\ madeBy = <<>> /\ lastOffer = <<>>
    /\ offersHere = Offers
    /\ subscribed = {} /\ edited = {} /\ overwritten = {}
    /\ leadJob = [j \in LeadJobs |-> IdleLeadJob]
    /\ leadAsks = 0

AsksLead(j, job) ==
    /\ leadJob[j].step = "idle" /\ leadAsks < MaxLeadAsks
    /\ leadAsks' = leadAsks + 1
    /\ leadJob' = [leadJob EXCEPT ![j] = job]
    /\ UNCHANGED <<leadRow, offersHere, subscribed, leadPast>>

\* job j wrote lead l: what the others read of it, or of its address, is old now
LeadWritten(j, l, email) ==
    leadJob' = [i \in LeadJobs |->
        IF i = j THEN IdleLeadJob
        ELSE [leadJob[i] EXCEPT !.late = @ \/ leadJob[i].lead = l
                 \/ (leadJob[i].step = "make" /\ leadJob[i].asks.email = email)]]

\* the foreign key of planId: a row of a removed plan is refused
OfferIsThere(row) == row.offer \in offersHere \union {NoOffer}

InsertLead(j, row, by) ==
    LET n == Cardinality(LeadIds) + 1 IN
    /\ n <= MaxLeadRows /\ OfferIsThere(row)
    /\ leadRow' = With(leadRow, n, row)
    /\ madeBy' = With(madeBy, n, by)
    /\ lastOffer' = With(lastOffer, n, row.offer)
    /\ LeadWritten(j, n, row.email)
    /\ UNCHANGED <<offersHere, subscribed, edited, overwritten>>

\* create, by hand: the address as it is written
CreateLead(j, a, p) ==
    /\ leadJob[j].step = "idle" /\ leadAsks < MaxLeadAsks /\ leadAsks' = leadAsks + 1
    /\ InsertLead(j, Row(a, p), "hand")

\* leadsRepo.save: a lead that is gone comes back
SaveLead(j, row, offer) ==
    LET l == leadJob[j].lead IN
    /\ OfferIsThere(row)
    /\ leadRow' = [leadRow EXCEPT ![l] = row]
    /\ overwritten' = IF leadJob[j].late THEN overwritten \union {l} ELSE overwritten
    /\ lastOffer' = [lastOffer EXCEPT ![l] = offer]
    /\ LeadWritten(j, l, row.email)
    /\ UNCHANGED <<offersHere, subscribed, leadAsks, madeBy>>

\* Mutant: looked for as it is written
AsWrittenIn(a) == a

\* dto.email.trim().toLowerCase()
NormalOf(a) == Normal[a]

\* upsertByEmail, of a checkout: a lead with the normalised address, or none
Upsert(j, a, p) ==
    LET found == {l \in LeadsHere : leadRow[l].email = NormalOf(a)}
        job == [IdleLeadJob EXCEPT !.asks = Row(NormalOf(a), p)]
    IN \/ found = {} /\ AsksLead(j, [job EXCEPT !.step = "make"])
       \/ \E l \in found :
             AsksLead(j, [job EXCEPT !.step = "upsert", !.lead = l, !.row = leadRow[l]])
UpsertCreate(j) ==
    /\ leadJob[j].step = "make" /\ UNCHANGED leadAsks
    /\ InsertLead(j, leadJob[j].asks, IF leadJob[j].late THEN "late checkout" ELSE "checkout")
\* no plan was loaded with the lead: it takes the plan of the checkout
UpsertSave(j) ==
    LET job == leadJob[j] IN
    /\ job.step = "upsert" /\ UNCHANGED edited
    /\ SaveLead(j, [job.row EXCEPT !.offer = job.asks.offer], job.asks.offer)

\* Mutant: the plan asked for, whatever was loaded
OfferAsked(had, p) == IF p = NoOffer THEN had ELSE p

\* update loads the plan, which prevails over the planId of the form
OfferSaved(had, p) == IF had = NoOffer THEN p ELSE had

\* update: an address, a plan, or neither
UpdateLead(j, l, a, p) ==
    /\ l \in LeadsHere
    /\ AsksLead(j, [IdleLeadJob EXCEPT !.step = "update", !.lead = l, !.asks = Row(a, p),
                                       !.row = leadRow[l]])
UpdateLeadSave(j) ==
    LET job == leadJob[j] IN
    /\ job.step = "update"
    /\ SaveLead(j, [job.row EXCEPT !.email = job.asks.email,
                                   !.offer = OfferSaved(@, job.asks.offer)],
                IF lastOffer[job.lead] = NoOffer THEN job.asks.offer ELSE lastOffer[job.lead])
    /\ edited' = IF job.asks.email = job.row.email THEN edited ELSE edited \union {job.lead}

\* remove: refused while a subscriber or a session points to the lead
RemoveLead(l) ==
    /\ l \in LeadsHere \ subscribed
    /\ leadRow' = [leadRow EXCEPT ![l].here = FALSE]
    /\ leadJob' = [i \in LeadJobs |-> [leadJob[i] EXCEPT !.late = @ \/ leadJob[i].lead = l]]
    /\ edited' = edited \union {l}
    /\ UNCHANGED <<offersHere, subscribed, leadAsks, madeBy, lastOffer, overwritten>>
\* PlansService.remove: the leads of the plan are left without one (SET NULL); whether a
\* subscriber or a session of the plan forbids it is not modelled
RemoveOffer(p) ==
    /\ p \in offersHere /\ offersHere' = offersHere \ {p}
    /\ leadRow' = [l \in LeadIds |->
                     [leadRow[l] EXCEPT !.offer = IF @ = p THEN NoOffer ELSE @]]
    /\ lastOffer' = [l \in LeadIds |-> IF lastOffer[l] = p THEN NoOffer ELSE lastOffer[l]]
    /\ UNCHANGED <<subscribed, leadJob, leadAsks, madeBy, edited, overwritten>>
\* a subscriber or a session of the lead is inserted
Subscribe(l) ==
    /\ l \in LeadsHere \ subscribed /\ subscribed' = subscribed \union {l}
    /\ UNCHANGED <<leadRow, offersHere, leadJob, leadAsks, leadPast>>
LeadJobStops(j) ==
    /\ leadJob[j].step # "idle"
    /\ leadJob' = [leadJob EXCEPT ![j] = IdleLeadJob]
    /\ UNCHANGED <<leadRow, offersHere, subscribed, leadAsks, leadPast>>

LeadsNext ==
    \/ \E l \in LeadIds : RemoveLead(l) \/ Subscribe(l)
    \/ \E p \in Offers : RemoveOffer(p)
    \/ \E j \in LeadJobs :
          \/ UpsertCreate(j) \/ UpsertSave(j) \/ UpdateLeadSave(j) \/ LeadJobStops(j)
          \/ \E a \in Written, p \in Offers \union {NoOffer} :
                CreateLead(j, a, p) \/ \E l \in LeadIds : UpdateLead(j, l, a, p)
          \/ \E a \in Written, p \in Offers : Upsert(j, a, p)

LeadsSpec == LeadsInit /\ [][LeadsNext]_leadVars

----------------------------------------------------------------------------
LeadState == [here : BOOLEAN, email : Written, offer : Offers \union {NoOffer}]
LeadJobState == [step : {"idle", "make", "upsert", "update"}, lead : Nat, row : LeadState,
                 asks : LeadState, late : BOOLEAN]

LeadsTypeOK ==
    /\ Cardinality(LeadIds) \in Nat /\ LeadIds = 1 .. Cardinality(LeadIds)
    /\ leadRow \in [LeadIds -> LeadState]
    /\ madeBy \in [LeadIds -> {"checkout", "late checkout", "hand"}]
    /\ lastOffer \in [LeadIds -> Offers \union {NoOffer}]
    /\ leadJob \in [LeadJobs -> LeadJobState]
    /\ subscribed \subseteq LeadIds /\ offersHere \subseteq Offers

\* Two leads that checkouts made have one address, however written, only when one had looked
\* for it before the other was written, or when an address was edited or a lead came back;
\* and a lead has the plan of its last checkout, or else the first that a form gave it, and
\* none once that plan is removed, unless a copy older than another's save was saved.
LeadsAgree ==
    /\ \A l, k \in LeadsHere :
          /\ l # k /\ Normal[leadRow[l].email] = Normal[leadRow[k].email]
          /\ {madeBy[l], madeBy[k]} \subseteq {"checkout", "late checkout"}
          => "late checkout" \in {madeBy[l], madeBy[k]} \/ {l, k} \intersect edited # {}
    /\ \A l \in LeadsHere : leadRow[l].offer = lastOffer[l] \/ l \in overwritten

----------------------------------------------------------------------------
(* The inductive invariant behind LeadsAgree *)

\* A lead is there, and one that a checkout made has a normal address, unless it was edited
\* or removed; and what LeadsAgree says of the plans is true of removed leads as well.
LeadIsFound(l) ==
    /\ l \in edited \/ leadRow[l].here
    /\ l \in edited \/ madeBy[l] = "hand" \/ Normal[leadRow[l].email] = leadRow[l].email
    /\ leadRow[l].offer = lastOffer[l] \/ l \in overwritten

\* A checkout that found no lead is late once there is one; a request that holds the copy of
\* a lead is late, or the copy is the lead, or has a plan removed since, and its address is
\* the lead's, or the lead was edited.
LeadJobIsLate(j) ==
    LET job == leadJob[j] IN
    /\ job.step = "make" =>
          /\ job.asks.here /\ Normal[job.asks.email] = job.asks.email
          /\ job.late \/ \A l \in LeadsHere : leadRow[l].email # job.asks.email
    /\ job.step \in {"upsert", "update"} =>
          /\ job.lead \in LeadIds /\ job.row.here
          /\ \/ job.late \/ job.row = leadRow[job.lead]
             \/ job.row.offer \in Offers \ offersHere
          /\ job.lead \in edited \/ job.row.email = leadRow[job.lead].email

LeadsInv ==
    /\ LeadsTypeOK /\ LeadsAgree
    /\ \A l \in LeadIds : LeadIsFound(l)
    /\ \A j \in LeadJobs : LeadJobIsLate(j)
=============================================================================
