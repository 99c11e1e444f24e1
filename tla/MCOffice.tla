------------------------------ MODULE MCOffice ------------------------------
(***************************************************************************)
(* Chat.tla, ChatGateway.tla, Voters.tla, VoterLists.tla, Geocoder.tla,    *)
(* Visits.tla, HelpRecords.tla and CabinetDesk.tla for TLC.  They share no *)
(* state, so a behaviour is one of a single part.                          *)
(***************************************************************************)
EXTENDS Chat, ChatGateway, Voters, VoterLists, Geocoder, Visits, HelpRecords, CabinetDesk, TLC

VARIABLE part

vars == <<part, chatVars, gatewayVars, voterVars, listVars, geocoderVars, visitVars, helpVars,
          deskVars>>

\* spreadsheets of voters: a line twice and one unnamed; a help record for a voter of the
\* same file, and one whose name is spelled otherwise; refused lines; leaders to be made
Line == [named |-> TRUE, key |-> "key", spelled |-> TRUE, leader |-> "ana", help |-> FALSE,
         refused |-> FALSE, town |-> "t", state |-> "s1"]
Helped == [Line EXCEPT !.help = TRUE]
VoterFiles ==
    {<<Line, [Line EXCEPT !.named = FALSE], Line>>,
     <<Line, Helped>>,
     <<Line, [Helped EXCEPT !.spelled = FALSE, !.leader = "bia"],
       [Line EXCEPT !.key = NoKey, !.state = "s2"]>>,
     <<[Line EXCEPT !.refused = TRUE], Line, [Line EXCEPT !.key = NoKey, !.state = "s2"]>>,
     <<[Helped EXCEPT !.refused = TRUE], Helped>>,
     <<Helped, [Helped EXCEPT !.state = "s2"]>>}

\* spreadsheets of help records: one type in two spellings; a line without one, a refused
\* one, and one of nobody's
Record == [type |-> "Saude", person |-> "rui", hood |-> "centro", lead |-> "ana",
           status |-> "COMPLETED", refused |-> FALSE]
HelpSheets ==
    {<<Record, [Record EXCEPT !.type = "saude", !.status = "UNKNOWN"]>>,
     <<[Record EXCEPT !.type = None], [Record EXCEPT !.refused = TRUE, !.lead = None],
       [Record EXCEPT !.person = None, !.status = None]>>}
InLowerCase == [n \in TypeNames |-> IF n = "Saude" THEN "saude" ELSE n]

\* two tabs of one user and one of another
UserOfSocket == [s \in Sockets |-> IF s \in ChatJobs THEN "ana" ELSE "rui"]

\* the attempts of an address with a street, and of one with neither street nor hood
AttemptsMade == {<<"street", "town">>, <<"town", "town">>}

\* two voters of one name and phone, in two ways of writing it
PhonesWritten == {[digits |-> "62", marks |-> {"(", ")"}]}
CardOf == [c \in Electors |-> [name |-> "rui", phone |-> [digits |-> "62",
               marks |-> {"-"} \union (IF c = "rui" THEN {"(", ")"} ELSE {})]]]

\* what is alike in each of the parts has the same names: one permutation serves them all
Symmetry == Permutations(ChatJobs)

Init ==
    /\ part \in {"chat", "gateway", "voters", "lists", "geocoder", "visits", "help",
                "desk"}
    /\ ChatInit /\ GatewayInit /\ VotersInit /\ ListsInit /\ GeocoderInit
    /\ VisitsInit /\ HelpInit /\ DeskInit
    /\ part # "chat" => meant = ChatUsers
    /\ part # "gateway" => about = "presence"
    /\ part # "lists" => asks = "pages"

Next ==
    /\ UNCHANGED part
    /\ \/ /\ part = "chat" /\ ChatNext
          /\ UNCHANGED <<gatewayVars, voterVars, listVars, geocoderVars, visitVars, helpVars,
                         deskVars>>
       \/ /\ part = "gateway" /\ GatewayNext
          /\ UNCHANGED <<chatVars, voterVars, listVars, geocoderVars, visitVars, helpVars,
                         deskVars>>
       \/ /\ part = "voters" /\ VotersNext
          /\ UNCHANGED <<chatVars, gatewayVars, listVars, geocoderVars, visitVars, helpVars,
                         deskVars>>
       \/ /\ part = "lists" /\ ListsNext
          /\ UNCHANGED <<chatVars, gatewayVars, voterVars, geocoderVars, visitVars, helpVars,
                         deskVars>>
       \/ /\ part = "geocoder" /\ GeocoderNext
          /\ UNCHANGED <<chatVars, gatewayVars, voterVars, listVars, visitVars, helpVars,
                         deskVars>>
       \/ /\ part = "visits" /\ VisitsNext
          /\ UNCHANGED <<chatVars, gatewayVars, voterVars, listVars, geocoderVars, helpVars,
                         deskVars>>
       \/ /\ part = "help" /\ HelpNext
          /\ UNCHANGED <<chatVars, gatewayVars, voterVars, listVars, geocoderVars, visitVars,
                         deskVars>>
       \/ /\ part = "desk" /\ DeskNext
          /\ UNCHANGED <<chatVars, gatewayVars, voterVars, listVars, geocoderVars, visitVars,
                         helpVars>>

Spec == Init /\ [][Next]_vars

\* The variables of the eight parts keep their types and satisfy the inductive invariants
\* that the proofs rest on.
OfficeTypeOK ==
    /\ part = "chat" => ChatInv
    /\ part = "gateway" => GatewayInv
    /\ part = "voters" => VotersInv
    /\ part = "lists" => ListsInv
    /\ part = "geocoder" => GeocoderInv
    /\ part = "visits" => VisitsInv
    /\ part = "help" => HelpInv
    /\ part = "desk" => DeskInv

\* The conversations follow their users (ChatFollowsUsers), and so does what the open
\* clients show of them (ClientsHear).
ChatIsFollowed ==
    /\ part = "chat" => ChatFollowsUsers
    /\ part = "gateway" => ClientsHear

\* The voters are kept in order by those who write them (VotersInOrder), shown and changed
\* by those who may, in full (ListsAreTrue), and placed as well as can be (GeocoderIsFair).
VotersAreKept ==
    /\ part = "voters" => VotersInOrder
    /\ part = "lists" => ListsAreTrue
    /\ part = "geocoder" => GeocoderIsFair

\* Help records, their types, imports and cabinet visits agree (RecordsAgree), and so do
\* the visitors, the dashboard and the voters they are compared with (DeskIsKept); the
\* figures of the neighborhoods add up to the lists they are of (FiguresAddUp).
RecordsAreKept ==
    /\ part = "help" => RecordsAgree
    /\ part = "desk" => DeskIsKept
    /\ part = "lists" => FiguresAddUp
=============================================================================
