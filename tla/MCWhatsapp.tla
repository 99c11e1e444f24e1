----------------------------- MODULE MCWhatsapp -----------------------------
(***************************************************************************)
(* The four parts of WhatsApp for TLC: connections, the messages of one of *)
(* them, the media cache, and the lists and figures of the messages.  They *)
(* share no state, so a behaviour is one of a single part.                 *)
(***************************************************************************)
EXTENDS WhatsappConnection, WhatsappMessages, MediaCache, WhatsappFigures, TLC

VARIABLE part

vars == <<part, connectionVars, messageVars, mediaVars, figureVars>>

\* what is alike in each of the parts has the same names: one permutation serves them all
Symmetry == Permutations(ConnectJobs) \union Permutations(Phones)

\* ids are interchangeable: of the connections there are at first, one order stands for all
AtFirst == CHOOSE ids \in [1 .. Cardinality(Connections) -> Connections] :
              \A i, k \in DOMAIN ids : ids[i] = ids[k] => i = k

Init ==
    /\ part \in {"connections", "messages", "media", "figures"}
    /\ ConnectionInit /\ WhatsappMessagesInit /\ MediaCacheInit /\ FiguresInit
    /\ part # "figures" => reader = "list"
    /\ IF part = "connections" THEN \A i \in DOMAIN created : created[i] = AtFirst[i]
                               ELSE created = <<>>

Next ==
    /\ UNCHANGED part
    /\ \/ /\ part = "connections" /\ ConnectionNext
          /\ UNCHANGED <<messageVars, mediaVars, figureVars>>
       \/ /\ part = "messages" /\ WhatsappMessagesNext
          /\ UNCHANGED <<connectionVars, mediaVars, figureVars>>
       \/ /\ part = "media" /\ MediaCacheNext
          /\ UNCHANGED <<connectionVars, messageVars, figureVars>>
       \/ /\ part = "figures" /\ FiguresNext
          /\ UNCHANGED <<connectionVars, messageVars, mediaVars>>

Spec == Init /\ [][Next]_vars

\* Each part keeps its types and the whole of its inductive invariant, from which its
\* other properties are proved.
WhatsappTypeOK ==
    /\ part = "connections" => ConnectionInv
    /\ part = "messages" => MessagesInv
    /\ part = "media" => MediaInv
    /\ part = "figures" => FiguresInv

\* What requests read while others write is true: the media cache is accounted for
\* (MediaCacheAccounted), the pages of the list of chats cover it, the figures add up, and
\* "reply later" follows the clicks (PagesCoverTheList, FiguresAddUp, FlagFollowsClicks).
ReadsAreTrue ==
    /\ part = "media" => MediaCacheAccounted
    /\ part = "figures" => PagesCoverTheList /\ FiguresAddUp /\ FlagFollowsClicks
=============================================================================
