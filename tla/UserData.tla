------------------------------- MODULE UserData -------------------------------
(***************************************************************************)
(* What the plugin holds of one user, handed out or taken away as a whole  *)
(* (Privacy/UserDataManager): WordPress asks for an export or an erasure   *)
(* page by page, each page a request, and the deletion of the user takes   *)
(* everything in one request, batch by batch.  The user goes on creating   *)
(* and deleting meanwhile, and a row may refuse to go.                     *)
(***************************************************************************)
EXTENDS Naturals, FiniteSets, FiniteSetsExt

CONSTANTS
    PageSize,       \* PAGE_SIZE
    MaxRows,        \* bound on the rows of either table at the beginning
    MaxDataChanges  \* bound on what the user does

ASSUME UserDataAssumption ==
    PageSize \in Nat \ {0} /\ MaxRows \in Nat /\ MaxDataChanges \in Nat

VARIABLES
    signatureRows, \* the ids of the user's signatures, in the order of created_at
    assetRows,     \* the ids of the user's assets
    stubborn,      \* assets whose row refuses to go
    dataChanges,   \* how often the user has changed something
    handling       \* what is being done with all of it, and how far it is

userDataVars == <<signatureRows, assetRows, stubborn, dataChanges, handling>>

RowIds == 1..(MaxRows + MaxDataChanges)
NoRows == [signatures |-> {}, assets |-> {}]
AllRows == [signatures |-> signatureRows, assets |-> assetRows]

\* `there` is what existed when it began, and `given` what the export holds.
NotHandled == [kind |-> "none", at |-> "done", page |-> 1, batch |-> {}, previous |-> 0,
               there |-> NoRows, given |-> NoRows, calm |-> TRUE]

UserDataInit ==
    /\ \E n, m \in 0..MaxRows : signatureRows = 1..n /\ assetRows = 1..m
    /\ stubborn \in SUBSET assetRows
    /\ dataChanges = 0
    /\ handling = NotHandled

-----------------------------------------------------------------------------
(* The user. *)

Touches(keeps) ==
    /\ dataChanges < MaxDataChanges /\ dataChanges' = dataChanges + 1
    /\ handling' = [handling EXCEPT !.calm = @ /\ keeps]
    /\ UNCHANGED stubborn

Creates ==
    /\ Touches(TRUE)
    /\ LET id == MaxRows + dataChanges'
       IN  \/ signatureRows' = signatureRows \cup {id} /\ UNCHANGED assetRows
           \/ assetRows' = assetRows \cup {id} /\ UNCHANGED signatureRows

Removes ==
    /\ Touches(FALSE)
    /\ \/ \E id \in signatureRows : signatureRows' = signatureRows \ {id} /\ UNCHANGED assetRows
       \/ \E id \in assetRows \ stubborn :
             assetRows' = assetRows \ {id} /\ UNCHANGED signatureRows

-----------------------------------------------------------------------------
(* Pages. *)

\* ORDER BY id ASC LIMIT PAGE_SIZE OFFSET (page - 1) * PAGE_SIZE
Page(rows, page) ==
    {id \in rows : LET before == Cardinality({other \in rows : other < id})
                   IN  (page - 1) * PageSize <= before /\ before < page * PageSize}

\* Faulty: the full pages only.
FullPages(rows) == Cardinality(rows) \div PageSize

PagesOf(rows) == (Cardinality(rows) + PageSize - 1) \div PageSize

BeginsWith(kind) ==
    /\ handling.kind = "none"
    /\ handling' = [NotHandled EXCEPT !.kind = kind, !.at = "asks", !.there = AllRows]
    /\ UNCHANGED <<signatureRows, assetRows, stubborn, dataChanges>>

\* export(): signatures first, then assets; how many pages of signatures there are
\* is counted again by each request.
ExportsPage ==
    /\ handling.kind = "export" /\ handling.at = "asks"
    /\ LET assets == Page(assetRows, handling.page - PagesOf(signatureRows))
       IN  handling' =
             IF handling.page <= PagesOf(signatureRows)
             THEN [handling EXCEPT !.page = @ + 1,
                      !.given.signatures = @ \cup Page(signatureRows, handling.page)]
             ELSE [handling EXCEPT !.page = @ + 1, !.given.assets = @ \cup assets,
                      !.at = IF Cardinality(assets) < PageSize THEN "done" ELSE "asks"]
    /\ UNCHANGED <<signatureRows, assetRows, stubborn, dataChanges>>

\* The rows of the batch go one by one, with their files.  Pages are counted no
\* further than there could be any.
DeletesBatch ==
    /\ assetRows' = assetRows \ (handling.batch \ stubborn)
    /\ IF Cardinality(handling.batch) >= PageSize
       THEN /\ handling' = [handling EXCEPT !.at = "asks", !.batch = {},
                                !.page = IF @ > MaxRows THEN @ ELSE @ + 1]
            /\ UNCHANGED signatureRows
       ELSE /\ handling' = [handling EXCEPT !.at = "done", !.batch = {}]
            /\ signatureRows' = {}
    /\ UNCHANGED <<stubborn, dataChanges>>

\* Faulty: goes on to the page WordPress names.
ErasesFromPage ==
    /\ handling.kind = "erase" /\ handling.at = "asks"
    /\ handling' = [handling EXCEPT !.at = "deletes", !.batch = Page(assetRows, handling.page)]
    /\ UNCHANGED <<signatureRows, assetRows, stubborn, dataChanges>>

\* erase(): what was deleted no longer counts, so each request takes the first page.
ErasesFrom ==
    /\ handling.kind = "erase" /\ handling.at = "asks"
    /\ handling' = [handling EXCEPT !.at = "deletes", !.batch = Page(assetRows, 1)]
    /\ UNCHANGED <<signatureRows, assetRows, stubborn, dataChanges>>

ErasesBatch == handling.kind = "erase" /\ handling.at = "deletes" /\ DeletesBatch

\* Faulty: no look at the batch before.
PurgeReadsOn ==
    /\ handling.kind = "purge" /\ handling.at = "asks"
    /\ handling' = [handling EXCEPT !.at = "deletes", !.batch = Page(assetRows, 1)]
    /\ UNCHANGED <<signatureRows, assetRows, stubborn, dataChanges>>

\* purge_user(): a batch that begins with the row the last one began with ends it.
PurgeReads ==
    /\ handling.kind = "purge" /\ handling.at = "asks"
    /\ LET batch == Page(assetRows, 1)
       IN  IF batch = {} \/ Min(batch) = handling.previous
           THEN /\ handling' = [handling EXCEPT !.at = "done"]
                /\ signatureRows' = {}
           ELSE /\ handling' = [handling EXCEPT !.at = "deletes", !.batch = batch,
                                   !.previous = Min(batch)]
                /\ UNCHANGED signatureRows
    /\ UNCHANGED <<assetRows, stubborn, dataChanges>>

PurgesBatch == handling.kind = "purge" /\ handling.at = "deletes" /\ DeletesBatch

\* on_delete_user() with somebody to reassign to
Reassigns ==
    /\ handling.kind = "none"
    /\ handling' = [NotHandled EXCEPT !.kind = "reassign", !.there = AllRows]
    /\ signatureRows' = {} /\ assetRows' = {}
    /\ UNCHANGED <<stubborn, dataChanges>>

UserDataNext ==
    \/ Creates \/ Removes
    \/ \E kind \in {"export", "erase", "purge"} : BeginsWith(kind)
    \/ ExportsPage \/ ErasesFrom \/ ErasesBatch \/ PurgeReads \/ PurgesBatch \/ Reassigns

UserDataSpec == UserDataInit /\ [][UserDataNext]_userDataVars

-----------------------------------------------------------------------------
Rows == [signatures : SUBSET RowIds, assets : SUBSET RowIds]

UserDataTypeOK ==
    /\ signatureRows \subseteq RowIds /\ assetRows \subseteq RowIds
    /\ stubborn \subseteq 1..MaxRows /\ dataChanges \in 0..MaxDataChanges
    /\ handling.kind \in {"none", "export", "erase", "purge", "reassign"}
    /\ handling.at \in {"asks", "deletes", "done"} /\ handling.page \in Nat
    /\ handling.batch \subseteq RowIds /\ handling.previous \in {0} \cup RowIds
    /\ handling.there \in Rows /\ handling.given \in Rows /\ handling.calm \in BOOLEAN

\* The deletion of a user ends, although rows refuse to go.
PurgeOver == handling.kind = "purge" => handling.at = "done"

LeftSignatures == signatureRows \cap handling.there.signatures
LeftAssets == assetRows \cap handling.there.assets

\* The whole of the user's data is meant, whatever is created between two pages: an
\* export that is done holds every row that was there when it began (unless rows were
\* deleted meanwhile, which moves the pages), an erasure that is done has left none
\* but those that refuse to go, and the deletion of the user none at all where none
\* refuses.
AllOfTheUser ==
    handling.at = "done" =>
        CASE handling.kind = "export" -> handling.calm =>
                /\ handling.there.signatures \subseteq handling.given.signatures
                /\ handling.there.assets \subseteq handling.given.assets
          [] handling.kind = "erase" -> LeftSignatures = {} /\ LeftAssets \subseteq stubborn
          [] handling.kind \in {"purge", "reassign"} ->
                LeftSignatures = {} /\ (stubborn = {} => LeftAssets = {})
          [] OTHER -> TRUE
=============================================================================
