---------------------------- MODULE BrowserProofs ----------------------------
(***************************************************************************)
(* What the browser and the mail client keep between two answers of the    *)
(* site, for any number of calls, files, mailboxes, events, blocks and     *)
(* columns: the nonce of a tab, the files the editor makes of its blocks,  *)
(* the signature the add-in has at hand, the texts of a linked signature,  *)
(* the tree of the document and the columns of a container.                *)
(***************************************************************************)
EXTENDS RestNonce, AssetSync, OutlookLaunch, LinkRules, DocumentTree, ColumnLayout,
        FiniteSetTheorems, SequenceTheorems, WellFoundedInduction, TLAPS

-----------------------------------------------------------------------------
(* The nonce of a tab. *)

\* The oldest tick a request under way can stem from: a tick passes only after a
\* moment without any request.
Oldest == IF quiet THEN tick ELSE tick - 1

\* What is under way carries nonces that are young enough; and a call that was sent
\* with a nonce the tab has replaced since finds a young one in its place.
NonceInv ==
    /\ RestNonceTypeOK
    /\ refresh.at = "minted" => refresh.nonce >= Oldest
    /\ \A c \in Tabs :
          /\ call[c].at # "refused"
          /\ call[c].at = "resent" => call[c].nonce >= Oldest
          /\ call[c].at \in {"sent", "rejected"} /\ restNonce # call[c].nonce
                => restNonce >= Oldest

\* Nothing is under way in a tab that was just opened.
LEMMA InitNonce == RestNonceInit => NonceInv
BY RestNonceAssumption DEF RestNonceInit, NonceInv, RestNonceTypeOK, NotOpen, NoRefresh, Over

\* A step that is no tick either leaves the oldest tick as it is, or nothing is
\* under way after it, and then the invariant says nothing but the types.
LEMMA OldestStays ==
    ASSUME RestNonceTypeOK, RestNonceTypeOK', Quietly, tick' = tick,
           \A c \in Tabs : call'[c].at # "refused",
           Oldest' = Oldest => NonceInv'
    PROVE  NonceInv'
<1>1. CASE quiet' = quiet
  BY <1>1 DEF Oldest
<1>2. CASE refresh'.at = "none" /\ \A c \in Tabs : call'[c].at \in Over
  BY <1>2 DEF NonceInv, Over
<1> QED BY <1>1, <1>2 DEF Quietly, RestNonceTypeOK

\* Twelve hours pass.
LEMMA TickStep == NonceInv /\ Ticks => NonceInv'
<1> SUFFICES ASSUME NonceInv, Ticks PROVE NonceInv'
  OBVIOUS
<1> USE DEF Ticks
<1>1. RestNonceTypeOK'
  BY RestNonceAssumption DEF NonceInv, RestNonceTypeOK
<1>2. CASE refresh.at = "none" /\ \A c \in Tabs : call[c].at \in Over
  BY <1>1, <1>2 DEF NonceInv, Over
<1>3. CASE ~(refresh.at = "none" /\ \A c \in Tabs : call[c].at \in Over)
  <2>1. Oldest' = Oldest
    <3>1. quiet /\ ~quiet'
      BY <1>3, Zenon
    <3>2. tick' - 1 = tick
      BY DEF NonceInv, RestNonceTypeOK
    <3> QED BY <3>1, <3>2 DEF Oldest
  <2>2. refresh' = refresh /\ call' = call /\ restNonce' = restNonce
    OBVIOUS
  <2> QED BY ONLY NonceInv, <1>1, <2>1, <2>2 DEF NonceInv
<1> QED BY <1>2, <1>3

\* A call goes out, with the nonce of the tab.
LEMMA FetchStep ==
    ASSUME NonceInv, NEW c \in Tabs, Fetches(c)
    PROVE  NonceInv'
<1> USE DEF Fetches
<1>1. RestNonceTypeOK'
  BY DEF NonceInv, RestNonceTypeOK, Over, Quietly
<1>2. ASSUME Oldest' = Oldest PROVE NonceInv'
  BY <1>1, <1>2 DEF NonceInv, RestNonceTypeOK
<1>3. \A d \in Tabs : call'[d].at # "refused"
  BY DEF NonceInv, RestNonceTypeOK
<1> QED BY <1>1, <1>2, <1>3, OldestStays DEF NonceInv

\* The server takes the nonce of every second attempt.
LEMMA CheckStep ==
    ASSUME NonceInv, NEW c \in Tabs, ServerChecks(c)
    PROVE  NonceInv'
<1> USE DEF ServerChecks
<1>1. call[c].at = "resent" => Accepts(call[c].nonce)
  BY DEF NonceInv, RestNonceTypeOK, Oldest, Accepts
<1>2. /\ call[c].at \in {"sent", "resent"}
      /\ \/ call' = [call EXCEPT ![c] = NotOpen]
         \/ /\ call[c].at = "sent"
            /\ call' = [call EXCEPT ![c] = [at |-> "rejected", nonce |-> call[c].nonce]]
  BY <1>1 DEF NonceInv, RestNonceTypeOK
<1>3. RestNonceTypeOK'
  BY <1>2, RestNonceAssumption DEF NonceInv, RestNonceTypeOK, Over, Quietly, NotOpen
<1>4. ASSUME Oldest' = Oldest PROVE NonceInv'
  BY <1>2, <1>3, <1>4 DEF NonceInv, RestNonceTypeOK, NotOpen
<1>5. \A d \in Tabs : call'[d].at # "refused"
  BY <1>2 DEF NonceInv, RestNonceTypeOK, NotOpen
<1> QED BY <1>3, <1>4, <1>5, OldestStays DEF NonceInv

\* A call that was turned away goes out again with what another call has fetched,
\* or waits for a refresh.
LEMMA RejectedStep ==
    ASSUME NonceInv, NEW c \in Tabs, Rejected(c)
    PROVE  NonceInv'
<1> USE DEF Rejected
<1>1. /\ call[c].at = "rejected"
      /\ \/ /\ restNonce # call[c].nonce
            /\ call' = [call EXCEPT ![c] = [at |-> "resent", nonce |-> restNonce]]
            /\ refresh' = refresh
         \/ /\ call' = [call EXCEPT ![c] = [at |-> "waits", nonce |-> call[c].nonce]]
            /\ refresh' = IF refresh.at = "none" THEN [at |-> "sent", nonce |-> refresh.nonce]
                          ELSE refresh
  BY DEF Refresh, NonceInv, RestNonceTypeOK
<1>2. RestNonceTypeOK'
  BY <1>1 DEF NonceInv, RestNonceTypeOK, Over, Quietly
<1>3. ASSUME Oldest' = Oldest PROVE NonceInv'
  BY <1>1, <1>2, <1>3 DEF NonceInv, RestNonceTypeOK
<1>4. \A d \in Tabs : call'[d].at # "refused"
  BY <1>1 DEF NonceInv, RestNonceTypeOK
<1> QED BY <1>2, <1>3, <1>4, OldestStays DEF NonceInv

\* The keep-alive, and the answer of the server to a refresh.
LEMMA RefreshStep ==
    ASSUME NonceInv, KeepsAlive \/ Mints
    PROVE  NonceInv'
<1>1. /\ UNCHANGED <<tick, restNonce, call>> /\ Quietly
      /\ \/ refresh' = [at |-> "sent", nonce |-> refresh.nonce]
         \/ refresh' = [at |-> "minted", nonce |-> tick]
  BY DEF KeepsAlive, Mints, Refresh, NonceInv, RestNonceTypeOK
<1>2. RestNonceTypeOK'
  BY <1>1 DEF NonceInv, RestNonceTypeOK, Quietly
<1>3. ASSUME Oldest' = Oldest PROVE NonceInv'
  BY <1>1, <1>2, <1>3 DEF NonceInv, RestNonceTypeOK, Oldest
<1> QED BY <1>1, <1>2, <1>3, OldestStays DEF NonceInv

\* The refresh arrives at the tab, or does not.
LEMMA ArrivalStep ==
    ASSUME NonceInv, Refreshed \/ RefreshFails
    PROVE  NonceInv'
<1>1. /\ tick' = tick /\ Quietly /\ refresh' = NoRefresh
      /\ \/ /\ refresh.at = "minted" /\ restNonce' = refresh.nonce
            /\ call' = [c \in Tabs |-> IF call[c].at = "waits"
                                       THEN [at |-> "resent", nonce |-> refresh.nonce]
                                       ELSE call[c]]
         \/ /\ restNonce' = restNonce
            /\ call' = [c \in Tabs |-> IF call[c].at = "waits"
                                       THEN [at |-> "gaveUp", nonce |-> 0] ELSE call[c]]
  BY DEF Refreshed, RefreshFails, WaitersGet
<1>2. RestNonceTypeOK'
  BY <1>1, RestNonceAssumption DEF NonceInv, RestNonceTypeOK, Over, Quietly, NoRefresh
<1>3. ASSUME Oldest' = Oldest PROVE NonceInv'
  BY <1>1, <1>2, <1>3 DEF NonceInv, RestNonceTypeOK, NoRefresh
<1>4. \A d \in Tabs : call'[d].at # "refused"
  BY <1>1 DEF NonceInv, RestNonceTypeOK
<1> QED BY <1>1, <1>2, <1>3, <1>4, OldestStays DEF NonceInv

LEMMA NonceStep == NonceInv /\ [RestNonceNext]_nonceVars => NonceInv'
<1> SUFFICES ASSUME NonceInv, [RestNonceNext]_nonceVars PROVE NonceInv'
  OBVIOUS
<1>1. CASE Ticks
  BY <1>1, TickStep
<1>2. CASE KeepsAlive \/ Mints
  BY <1>2, RefreshStep
<1>3. CASE Refreshed \/ RefreshFails
  BY <1>3, ArrivalStep
<1>4. ASSUME NEW c \in Tabs, Fetches(c) \/ ServerChecks(c) \/ Rejected(c) PROVE NonceInv'
  BY <1>4, FetchStep, CheckStep, RejectedStep
<1>5. CASE UNCHANGED nonceVars
  BY <1>5 DEF nonceVars, NonceInv, RestNonceTypeOK, Oldest
<1> QED BY <1>1, <1>2, <1>3, <1>4, <1>5 DEF RestNonceNext

\* The inductive invariant of the nonce of a tab.
THEOREM NonceInvariant == RestNonceSpec => []NonceInv
BY InitNonce, NonceStep, PTL DEF RestNonceSpec

\* No call is refused after its retry, for any number of calls and ticks: the calls
\* share one refresh, and what it brings is young enough for all of them.
THEOREM RetriesAreTaken == RestNonceSpec => []NoNeedlessRefusal
<1>1. NonceInv => NoNeedlessRefusal
  BY DEF NonceInv, NoNeedlessRefusal
<1> QED BY <1>1, NonceInvariant, PTL

-----------------------------------------------------------------------------
(* The files of the editor. *)

\* Whether the file of a block is to be made: it is not the content's.
Behind(b) == b \in FileBlocks \ selected /\ file[b] # content[b]

\* No file is forgotten: what is behind is due, under way or has failed, or the timer
\* has found the run busy; and what is remembered as failed did fail.
FilesInv ==
    /\ AssetSyncTypeOK
    /\ \A b \in FileBlocks :
          /\ Behind(b) => Item(b) \in timer \cup run \cup failures \/ dropped
          /\ failed[b] # 0 => [id |-> b, hash |-> failed[b]] \in failures

LEMMA InitFiles == AssetSyncInit => FilesInv
<1> SUFFICES ASSUME AssetSyncInit PROVE FilesInv
  OBVIOUS
<1>1. Cardinality(selected) <= 1
  <2>1. Cardinality({}) = 0
    BY FS_EmptySet
  <2> QED BY <2>1 DEF AssetSyncInit
<1>2. \A b \in FileBlocks : Item(b) \in timer /\ Item(b) \in [id : FileBlocks, hash : Contents]
  BY DEF AssetSyncInit, Item
<1>3. timer \subseteq [id : FileBlocks, hash : Contents]
  BY DEF AssetSyncInit, Item
<1>4. AssetSyncTypeOK
  <2>1. edits \in 0..MaxEdits
    BY AssetSyncAssumption DEF AssetSyncInit
  <2>2. {panelDue, busy, dropped} \subseteq BOOLEAN /\ busy = (run # {})
    BY DEF AssetSyncInit
  <2>3. file \in [FileBlocks -> {0} \cup Contents] /\ failed \in [FileBlocks -> {0} \cup Contents]
    BY DEF AssetSyncInit
  <2>4. content \in [FileBlocks -> Contents] /\ selected \subseteq FileBlocks
    BY DEF AssetSyncInit
  <2>5. panelRuns = {} /\ run = {} /\ failures = {}
    BY DEF AssetSyncInit
  <2> QED BY <1>1, <1>3, <2>1, <2>2, <2>3, <2>4, <2>5 DEF AssetSyncTypeOK
<1> QED BY <1>2, <1>4 DEF FilesInv, AssetSyncInit

\* The effect of the document's changes finds everything that is behind.
LEMMA EffectFindsAll ==
    ASSUME Effect, content' \in [FileBlocks -> Contents], file' \in [FileBlocks -> {0} \cup Contents]
    PROVE  /\ dropped' = FALSE
           /\ timer' \subseteq [id : FileBlocks, hash : Contents]
           /\ \A b \in FileBlocks : Behind(b)' => Item(b)' \in timer' \/ failed'[b] = content'[b]
<1>1. timer' = {i \in Pending(content', file', selected') : failed'[i.id] # i.hash}
  BY DEF Effect
<1>2. timer' \subseteq [id : FileBlocks, hash : Contents]
  BY <1>1 DEF Pending
<1>3. ASSUME NEW b \in FileBlocks, Behind(b)', failed'[b] # content'[b]
      PROVE  Item(b)' \in timer'
  <2>1. Item(b)' = [id |-> b, hash |-> content'[b]]
    BY DEF Item
  <2>2. Item(b)' \in Pending(content', file', selected')
    BY <1>3, <2>1 DEF Pending, Behind
  <2> QED BY <1>1, <1>3, <2>1, <2>2
<1> QED BY <1>2, <1>3 DEF Effect

\* A step that runs the effect forgets nothing, whatever was behind before it.
LEMMA EffectStep ==
    ASSUME FilesInv, AssetSyncTypeOK', Effect, UNCHANGED <<failed, failures>>
    PROVE  FilesInv'
<1>1. \A b \in FileBlocks : Behind(b)' => Item(b)' \in timer' \/ failed'[b] = content'[b]
  BY EffectFindsAll DEF AssetSyncTypeOK
<1>2. \A b \in FileBlocks : failed'[b] # 0 => [id |-> b, hash |-> failed'[b]] \in failures'
  BY DEF FilesInv
<1>3. \A b \in FileBlocks : content'[b] # 0 /\ Item(b)' = [id |-> b, hash |-> content'[b]]
  BY AssetSyncAssumption DEF AssetSyncTypeOK, Item
<1>4. \A b \in FileBlocks : Behind(b)' => Item(b)' \in timer' \cup failures'
  BY <1>1, <1>2, <1>3
<1> QED BY <1>2, <1>4 DEF FilesInv

LEMMA SelectStep == \A sel \in {{}} \cup {{b} : b \in FileBlocks} : FilesInv /\ Select(sel) => FilesInv'
<1> SUFFICES ASSUME NEW sel \in {{}} \cup {{b} : b \in FileBlocks}, FilesInv, Select(sel)
             PROVE  FilesInv'
  OBVIOUS
<1>1. Cardinality(sel) <= 1 /\ sel \subseteq FileBlocks
  <2>1. Cardinality({}) = 0 /\ \A b \in FileBlocks : Cardinality({b}) = 1
    BY FS_EmptySet, FS_Singleton
  <2> QED BY <2>1
<1>2. timer' \subseteq [id : FileBlocks, hash : Contents] /\ dropped' = FALSE
  BY EffectFindsAll DEF Select, FilesInv, AssetSyncTypeOK
<1>3. panelRuns' \subseteq [id : FileBlocks, hash : Contents] /\ panelDue' \in BOOLEAN
  BY DEF Select, FilesInv, AssetSyncTypeOK, Item, PanelEffect
<1>4. AssetSyncTypeOK'
  <2>1. selected' = sel /\ UNCHANGED <<content, file, run, busy, failed, failures, edits>>
    BY DEF Select
  <2>2. {panelDue', busy', dropped'} \subseteq BOOLEAN /\ busy' = (run' # {})
    BY <1>2, <1>3, <2>1 DEF FilesInv, AssetSyncTypeOK
  <2>3. Cardinality(selected') <= 1 /\ selected' \subseteq FileBlocks
    BY <1>1, <2>1
  <2> QED BY <1>1, <1>2, <1>3, <2>1, <2>2, <2>3 DEF FilesInv, AssetSyncTypeOK
<1> QED BY <1>4, EffectStep DEF Select

LEMMA ContentStep == \A b \in FileBlocks, h \in Contents : FilesInv /\ ChangeContent(b, h) => FilesInv'
<1> SUFFICES ASSUME NEW b \in FileBlocks, NEW h \in Contents, FilesInv, ChangeContent(b, h)
             PROVE  FilesInv'
  OBVIOUS
<1>1. content' \in [FileBlocks -> Contents] /\ edits' \in 0..MaxEdits /\ panelDue' \in BOOLEAN
  <2>1. content' \in [FileBlocks -> Contents] /\ edits' \in 0..MaxEdits
    BY AssetSyncAssumption DEF ChangeContent, FilesInv, AssetSyncTypeOK
  <2>2. panelDue' \in BOOLEAN
    BY DEF ChangeContent, FilesInv, AssetSyncTypeOK, PanelEffect
  <2> QED BY <2>1, <2>2
<1>2. timer' \subseteq [id : FileBlocks, hash : Contents] /\ dropped' = FALSE
  BY <1>1, EffectFindsAll DEF ChangeContent, FilesInv, AssetSyncTypeOK
<1>3. AssetSyncTypeOK'
  BY <1>1, <1>2 DEF ChangeContent, FilesInv, AssetSyncTypeOK
<1> QED BY <1>3, EffectStep DEF ChangeContent

\* An answer: either the effect runs, or what arrived is nobody's content any more
\* or was there already.
LEMMA ArrivesStep ==
    ASSUME FilesInv, NEW i \in [id : FileBlocks, hash : Contents], Arrives(i),
           UNCHANGED <<failures, edits>>,
           panelRuns' \subseteq panelRuns, run' \subseteq run, busy' = (run' # {}),
           run \subseteq run' \cup {i}
    PROVE  FilesInv'
<1> USE DEF Arrives
<1>1. CASE content[i.id] = i.hash /\ file[i.id] # i.hash
  <2>1. file' \in [FileBlocks -> {0} \cup Contents] /\ panelDue' \in BOOLEAN
    BY <1>1 DEF FilesInv, AssetSyncTypeOK, PanelEffect
  <2>2. Effect /\ UNCHANGED <<failed, failures, content, selected, edits>>
    BY <1>1
  <2>3. timer' \subseteq [id : FileBlocks, hash : Contents] /\ dropped' = FALSE
    BY <2>1, <2>2, EffectFindsAll DEF FilesInv, AssetSyncTypeOK
  <2>4. AssetSyncTypeOK'
    BY <2>1, <2>2, <2>3 DEF FilesInv, AssetSyncTypeOK
  <2> QED BY <2>2, <2>4, EffectStep
<1>2. CASE ~(content[i.id] = i.hash /\ file[i.id] # i.hash)
  <2>1. UNCHANGED <<content, selected, failed, file, timer, dropped, panelDue>>
    BY <1>2, Zenon
  <2>2. AssetSyncTypeOK'
    BY <2>1 DEF FilesInv, AssetSyncTypeOK
  <2>3. ASSUME NEW b \in FileBlocks, Behind(b)'
        PROVE  Item(b)' \in timer' \cup run' \cup failures' \/ dropped'
    <3>1. Behind(b) /\ Item(b)' = Item(b)
      BY <2>1, <2>3 DEF Behind, Item
    <3>2. Item(b) # i
      BY <1>2, <3>1 DEF Item, Behind
    <3> QED BY <2>1, <3>1, <3>2 DEF FilesInv
  <2> QED BY <2>1, <2>2, <2>3 DEF FilesInv
<1> QED BY <1>1, <1>2

LEMMA PanelStep ==
    FilesInv /\ (PanelFires \/ \E i \in panelRuns : PanelUploaded(i) \/ PanelUploadFails(i))
        => FilesInv'
<1> SUFFICES ASSUME FilesInv,
                    PanelFires \/ \E i \in panelRuns : PanelUploaded(i) \/ PanelUploadFails(i)
             PROVE  FilesInv'
  OBVIOUS
<1>1. CASE \E i \in panelRuns : PanelUploaded(i)
  <2>1. PICK i \in panelRuns : PanelUploaded(i)
    BY <1>1
  <2>2. i \in [id : FileBlocks, hash : Contents] /\ busy = (run # {})
    BY DEF FilesInv, AssetSyncTypeOK
  <2> QED BY <2>1, <2>2, ArrivesStep DEF PanelUploaded
<1>2. CASE PanelFires \/ \E i \in panelRuns : PanelUploadFails(i)
  <2>1. /\ UNCHANGED <<content, file, selected, timer, run, busy, failed, failures, dropped, edits>>
        /\ panelDue' \in BOOLEAN
        /\ panelRuns' \subseteq panelRuns \cup {Item(b) : b \in selected}
    BY <1>2 DEF PanelFires, PanelUploadFails, FilesInv, AssetSyncTypeOK
  <2>2. AssetSyncTypeOK'
    BY <2>1 DEF FilesInv, AssetSyncTypeOK, Item
  <2> QED BY <2>1, <2>2 DEF FilesInv, Behind, Item
<1> QED BY <1>1, <1>2

LEMMA TimerStep == FilesInv /\ TimerFires => FilesInv'
<1> SUFFICES ASSUME FilesInv, TimerFires PROVE FilesInv'
  OBVIOUS
<1>1. AssetSyncTypeOK'
  BY DEF TimerFires, FilesInv, AssetSyncTypeOK
<1>2. busy \/ run = {}
  BY DEF FilesInv, AssetSyncTypeOK
<1> QED BY <1>1, <1>2 DEF TimerFires, FilesInv, Behind, Item

\* A file of the background run was uploaded, or failed, which is remembered.
LEMMA RunStep == \A i \in run : FilesInv /\ (Uploaded(i) \/ UploadFails(i)) => FilesInv'
<1> SUFFICES ASSUME NEW i \in run, FilesInv, Uploaded(i) \/ UploadFails(i) PROVE FilesInv'
  OBVIOUS
<1>1. i \in [id : FileBlocks, hash : Contents]
  BY DEF FilesInv, AssetSyncTypeOK
<1>2. CASE Uploaded(i)
  BY <1>1, <1>2, ArrivesStep DEF Uploaded, Leaves
<1>3. CASE UploadFails(i)
  <2>1. AssetSyncTypeOK'
    BY <1>1, <1>3 DEF UploadFails, Leaves, FilesInv, AssetSyncTypeOK
  <2>2. i = [id |-> i.id, hash |-> i.hash]
    BY <1>1
  <2>3. \A b \in FileBlocks : failed'[b] # 0 => [id |-> b, hash |-> failed'[b]] \in failures'
    BY <1>1, <1>3, <2>2 DEF UploadFails, FilesInv, AssetSyncTypeOK
  <2>4. \A b \in FileBlocks : Behind(b)' => Behind(b) /\ Item(b)' = Item(b)
    BY <1>3 DEF UploadFails, Behind, Item
  <2> QED BY <1>3, <2>1, <2>3, <2>4 DEF UploadFails, Leaves, FilesInv
<1> QED BY <1>2, <1>3

LEMMA FilesStep == FilesInv /\ [AssetSyncNext]_assetVars => FilesInv'
<1> SUFFICES ASSUME FilesInv, [AssetSyncNext]_assetVars PROVE FilesInv'
  OBVIOUS
<1>1. CASE UNCHANGED assetVars
  BY <1>1 DEF assetVars, FilesInv, AssetSyncTypeOK, Behind, Item
<1> QED BY <1>1, SelectStep, ContentStep, PanelStep, TimerStep, RunStep DEF AssetSyncNext

\* The inductive invariant of the uploads of the editor.
THEOREM FilesInvariant == AssetSyncSpec => []FilesInv
BY InitFiles, FilesStep, PTL DEF AssetSyncSpec

\* For any number of blocks, contents and edits, and in whichever order uploads arrive or
\* fail: when nothing is due or under way, no file of a block that is not selected is
\* behind, unless its upload failed or a timer was dropped over a run.
THEOREM NoFileLost == AssetSyncSpec => []NoFileForgotten
<1>1. FilesInv => NoFileForgotten
  <2> SUFFICES ASSUME FilesInv, timer = {}, ~busy, ~dropped, NEW b \in FileBlocks \ selected,
                      file[b] # content[b]
               PROVE  Item(b) \in failures
    BY DEF NoFileForgotten
  <2>1. run = {}
    BY DEF FilesInv, AssetSyncTypeOK
  <2>2. Behind(b)
    BY DEF Behind
  <2> QED BY <2>1, <2>2 DEF FilesInv
<1> QED BY <1>1, FilesInvariant, PTL

-----------------------------------------------------------------------------
(* The copy of the add-in. *)

\* What is cached was the signature of its mailbox when it came, and if it is that no
\* longer, then it has been so since.
Dated(entry) ==
    entry # NoCopy => /\ entry.of \in Mailboxes /\ entry.html \in Htmls /\ entry.at <= hour
                      /\ entry.html = served[entry.of] \/ until[entry.html] >= entry.at

\* That holds of every copy there is; an answer under way has been overtaken, if it has,
\* within this hour; and nothing ended later than now.
CopiesInv ==
    /\ OutlookTypeOK
    /\ \A h \in Htmls : until[h] <= hour
    /\ Dated(copy)
    /\ \A e \in LaunchEvents :
          /\ Dated(compose[e].found)
          /\ AtWork(e) => compose[e].mailbox \in Mailboxes
          /\ compose[e].at = "answered" /\ compose[e].answer # 0 =>
                \/ compose[e].answer = served[compose[e].mailbox]
                \/ until[compose[e].answer] = hour

\* The numbers of the signatures.
LEMMA Numbered ==
    /\ Cardinality(Mailboxes) \in Nat /\ Mailboxes = 1..Cardinality(Mailboxes)
    /\ Htmls \subseteq Nat \ {0}
    /\ \A m \in Mailboxes : m \in Htmls
    /\ \A n \in 1..MaxSiteChanges : Cardinality(Mailboxes) + n \in Htmls
<1>1. Cardinality(Mailboxes) \in Nat
  BY OutlookAssumption, FS_CardinalityType
<1> QED BY <1>1, OutlookAssumption DEF Htmls

LEMMA Bounds ==
    /\ MaxEvents \in Nat /\ MaxOpen \in Nat /\ MaxSiteChanges \in Nat
    /\ CacheTtl \in Nat /\ StaleMax \in Nat /\ MaxHour \in Nat
    /\ 0 < CacheTtl /\ CacheTtl < StaleMax
BY OutlookAssumption

LEMMA NoCopyIsACopy == NoCopy \in Copies
BY Bounds, Numbered DEF NoCopy, Copies

LEMMA NotRaisedIsAHandler ==
    /\ NotRaised \in Handlers
    /\ NotRaised.at = "unraised" /\ NotRaised.found = NoCopy /\ ~NotRaised.siteFailed
BY NoCopyIsACopy DEF NotRaised, Handlers

LEMMA InitCopies == OutlookInit => CopiesInv
<1> SUFFICES ASSUME OutlookInit PROVE CopiesInv
  OBVIOUS
<1>1. served \in [Mailboxes -> {0} \cup Htmls] /\ until \in [Htmls -> 0..MaxHour]
  BY Bounds, Numbered DEF OutlookInit
<1>2. \A e \in LaunchEvents : compose[e] = NotRaised
  BY DEF OutlookInit
<1>3. OutlookTypeOK
  BY <1>1, <1>2, Bounds, NoCopyIsACopy, NotRaisedIsAHandler DEF OutlookInit, OutlookTypeOK
<1>4. \A h \in Htmls : until[h] <= hour
  BY DEF OutlookInit
<1> QED BY <1>2, <1>3, <1>4, NotRaisedIsAHandler DEF OutlookInit, CopiesInv, Dated, AtWork

\* What a copy that is usable says of what it holds.
LEMMA UsableIsRecent ==
    ASSUME OutlookTypeOK, NEW entry \in Copies, NEW mailbox, NEW age \in Nat,
           Usable(entry, mailbox, age), Dated(entry)
    PROVE  /\ entry.of = mailbox
           /\ entry.html = served[entry.of] \/ hour - until[entry.html] < age
BY Bounds DEF Usable, Dated, OutlookTypeOK, Copies

\* The site has another signature for a mailbox, or none: what is cached dates from
\* before, whosever it is.
LEMMA SiteStep == \A m \in Mailboxes : CopiesInv /\ SiteChanges(m) => CopiesInv'
<1> SUFFICES ASSUME NEW m \in Mailboxes, CopiesInv, SiteChanges(m) PROVE CopiesInv'
  OBVIOUS
<1>1. PICK html \in {Cardinality(Mailboxes) + siteChanges', 0} :
          served' = [served EXCEPT ![m] = html]
  BY DEF SiteChanges
<1>2. siteChanges' \in 1..MaxSiteChanges
  BY Bounds DEF SiteChanges, CopiesInv, OutlookTypeOK
<1>3. html \in {0} \cup Htmls
  BY <1>2, Bounds, Numbered
<1>4. served' \in [Mailboxes -> {0} \cup Htmls]
  BY <1>1, <1>3 DEF CopiesInv, OutlookTypeOK
<1>5. /\ until' \in [Htmls -> 0..MaxHour]
      /\ \A h \in Htmls : until'[h] = IF h = served[m] THEN hour ELSE until[h]
      /\ \A h \in Htmls : until[h] <= until'[h] /\ until'[h] <= hour
  BY Bounds DEF SiteChanges, CopiesInv, OutlookTypeOK
<1>6. UNCHANGED <<hour, copy, raised, compose>>
  BY DEF SiteChanges
<1>7. OutlookTypeOK'
  BY <1>2, <1>4, <1>5, <1>6 DEF CopiesInv, OutlookTypeOK
<1>8. \A b \in Mailboxes : served'[b] = served[b] \/ b = m
  BY <1>1 DEF CopiesInv, OutlookTypeOK
<1>9. ASSUME NEW entry \in Copies, Dated(entry) PROVE Dated(entry)'
  <2> SUFFICES ASSUME entry # NoCopy
               PROVE  /\ entry.of \in Mailboxes /\ entry.html \in Htmls /\ entry.at <= hour'
                      /\ entry.html = served'[entry.of] \/ until'[entry.html] >= entry.at
    BY Zenon DEF Dated
  <2>1. /\ entry.of \in Mailboxes /\ entry.html \in Htmls /\ entry.at <= hour
        /\ entry.html = served[entry.of] \/ until[entry.html] >= entry.at
    BY <1>9 DEF Dated
  <2>2. entry.at \in Nat /\ hour \in Nat /\ until[entry.html] \in Nat /\ until'[entry.html] \in Nat
    BY <2>1, <1>5, Bounds DEF Copies, CopiesInv, OutlookTypeOK
  <2> QED BY <2>1, <2>2, <1>5, <1>6, <1>8
<1>10. Dated(copy)' /\ \A e \in LaunchEvents : Dated(compose[e].found)'
  <2>1. copy \in Copies /\ Dated(copy) /\ copy' = copy
    BY <1>6 DEF CopiesInv, OutlookTypeOK
  <2>2. \A e \in LaunchEvents : compose[e].found \in Copies /\ Dated(compose[e].found)
    BY DEF CopiesInv, OutlookTypeOK, Handlers
  <2> QED BY <1>6, <1>9, <2>1, <2>2 DEF Dated
<1>11. ASSUME NEW e \in LaunchEvents, compose[e].at = "answered", compose[e].answer # 0
       PROVE  \/ compose[e].answer = served'[compose[e].mailbox]
              \/ until'[compose[e].answer] = hour
  BY <1>5, <1>8, <1>11 DEF CopiesInv, OutlookTypeOK, Handlers, AtWork
<1> QED BY <1>5, <1>6, <1>7, <1>10, <1>11 DEF CopiesInv, AtWork

\* An hour passes while nobody waits for an answer.
LEMMA HourStep == CopiesInv /\ HourPasses => CopiesInv'
<1> SUFFICES ASSUME CopiesInv, HourPasses PROVE CopiesInv'
  OBVIOUS
<1>1. hour' = hour + 1 /\ hour' \in 0..MaxHour /\ hour \in Nat
  BY Bounds DEF HourPasses, CopiesInv, OutlookTypeOK
<1>2. UNCHANGED <<served, siteChanges, until, copy, raised, compose>>
  BY DEF HourPasses
<1>3. OutlookTypeOK'
  BY <1>1, <1>2 DEF CopiesInv, OutlookTypeOK
<1>4. ASSUME NEW entry \in Copies, Dated(entry) PROVE Dated(entry)'
  BY <1>1, <1>2, <1>4, Bounds, Numbered DEF Dated, Copies
<1>5. Dated(copy)' /\ \A e \in LaunchEvents : Dated(compose[e].found)'
  <2>1. copy \in Copies /\ Dated(copy) /\ copy' = copy
    BY <1>2 DEF CopiesInv, OutlookTypeOK
  <2>2. \A e \in LaunchEvents : compose[e].found \in Copies /\ Dated(compose[e].found)
    BY DEF CopiesInv, OutlookTypeOK, Handlers
  <2> QED BY <1>2, <1>4, <2>1, <2>2 DEF Dated
<1>6. \A e \in LaunchEvents : compose[e].at # "answered"
  BY DEF HourPasses, AtWork
<1>7. \A h \in Htmls : until'[h] <= hour'
  BY <1>1, <1>2, Bounds DEF CopiesInv, OutlookTypeOK
<1> QED BY <1>2, <1>3, <1>5, <1>6, <1>7 DEF CopiesInv, AtWork

\* Of every step of a handler: the handler it leaves is in order, and so is what it caches.
LEMMA HandlerStep ==
    ASSUME CopiesInv, NEW e \in LaunchEvents, NEW handler,
           UNCHANGED <<hour, served, siteChanges, until>>,
           compose' = [compose EXCEPT ![e] = handler],
           handler \in Handlers,
           copy' \in Copies, Dated(copy'), raised' \in 0..MaxEvents,
           Dated(handler.found),
           handler.at \notin {"unraised", "over"} => handler.mailbox \in Mailboxes,
           handler.at = "answered" /\ handler.answer # 0 =>
              handler.answer = served[handler.mailbox] \/ until[handler.answer] = hour
    PROVE  CopiesInv'
<1>1. \A d \in LaunchEvents : compose'[d] = IF d = e THEN handler ELSE compose[d]
  BY DEF CopiesInv, OutlookTypeOK
<1>2. OutlookTypeOK'
  BY <1>1 DEF CopiesInv, OutlookTypeOK
<1>3. \A entry : Dated(entry)' <=> Dated(entry')
  BY DEF Dated
<1>4. \A d \in LaunchEvents : Dated(compose'[d].found)
  BY <1>1 DEF CopiesInv
<1>5. Dated(copy)' /\ \A d \in LaunchEvents : Dated(compose[d].found)'
  BY <1>4 DEF Dated
<1> QED BY <1>1, <1>2, <1>5 DEF CopiesInv, AtWork

\* The handler of the event is over.
LEMMA EndStep ==
    ASSUME CopiesInv, NEW e \in LaunchEvents, Ends(e),
           UNCHANGED <<hour, served, siteChanges, until, copy, raised>>
    PROVE  CopiesInv'
<1> DEFINE over == [NotRaised EXCEPT !.at = "over", !.completed = compose[e].completed]
<1>1. compose[e].completed \in 0..1 /\ copy \in Copies /\ Dated(copy) /\ raised \in 0..MaxEvents
  BY DEF CopiesInv, OutlookTypeOK, Handlers
<1>2. over \in Handlers /\ over.at = "over" /\ over.found = NoCopy
  BY <1>1, NotRaisedIsAHandler DEF Handlers
<1> HIDE DEF over
<1>3. Completed(over) \in Handlers /\ Completed(over).at = "over" /\ Completed(over).found = NoCopy
  BY <1>2 DEF Completed, Handlers
<1>4. compose' = [compose EXCEPT ![e] = Completed(over)]
  BY DEF Ends, over
<1>5. Dated(Completed(over).found) /\ Dated(copy') /\ copy' \in Copies /\ raised' \in 0..MaxEvents
  BY <1>1, <1>3 DEF Dated
<1> QED BY <1>3, <1>4, <1>5, HandlerStep

LEMMA RaisedStep == \A e \in LaunchEvents, m \in Mailboxes : CopiesInv /\ Raised(e, m) => CopiesInv'
<1> SUFFICES ASSUME NEW e \in LaunchEvents, NEW m \in Mailboxes, CopiesInv, Raised(e, m)
             PROVE  CopiesInv'
  OBVIOUS
<1> DEFINE handler == [NotRaised EXCEPT !.at = "reads", !.mailbox = m]
<1>1. /\ handler \in Handlers /\ handler.at = "reads" /\ handler.mailbox = m
      /\ handler.found = NoCopy
  BY NotRaisedIsAHandler DEF Handlers
<1>2. compose' = [compose EXCEPT ![e] = handler] /\ UNCHANGED <<hour, served, siteChanges, until, copy>>
  BY DEF Raised
<1>4. copy' \in Copies /\ Dated(copy') /\ raised' \in 0..MaxEvents
  BY Bounds DEF Raised, CopiesInv, OutlookTypeOK
<1>5. Dated(handler.found)
  BY <1>1 DEF Dated
<1> HIDE DEF handler
<1> QED BY <1>1, <1>2, <1>4, <1>5, HandlerStep

LEMMA ReadsStep == \A e \in LaunchEvents : CopiesInv /\ ReadsCopy(e) => CopiesInv'
<1> SUFFICES ASSUME NEW e \in LaunchEvents, CopiesInv, ReadsCopy(e) PROVE CopiesInv'
  OBVIOUS
<1>1. PICK found \in {copy, NoCopy}, at \in {"applies", "asks"} :
          compose' = [compose EXCEPT ![e].found = found, ![e].at = at]
  BY DEF ReadsCopy
<1> DEFINE handler == [compose[e] EXCEPT !.found = found, !.at = at]
<1>2. compose' = [compose EXCEPT ![e] = handler]
  BY <1>1 DEF CopiesInv, OutlookTypeOK, Handlers
<1>3. found \in Copies /\ Dated(found)
  BY NoCopyIsACopy DEF CopiesInv, OutlookTypeOK, Handlers, Dated
<1>4. handler \in Handlers
  BY <1>3 DEF CopiesInv, OutlookTypeOK, Handlers
<1>5. UNCHANGED <<hour, served, siteChanges, until, copy, raised>> /\ compose[e].at = "reads"
  BY DEF ReadsCopy
<1>6. handler.found = found /\ handler.at = at /\ handler.mailbox \in Mailboxes
  BY <1>5 DEF CopiesInv, OutlookTypeOK, Handlers, AtWork
<1>7. copy' \in Copies /\ Dated(copy') /\ raised' \in 0..MaxEvents
  BY <1>5 DEF CopiesInv, OutlookTypeOK, Handlers
<1> HIDE DEF handler
<1> QED BY <1>2, <1>3, <1>4, <1>5, <1>6, <1>7, HandlerStep

LEMMA AnswersStep == \A e \in LaunchEvents : CopiesInv /\ SiteAnswers(e) => CopiesInv'
<1> SUFFICES ASSUME NEW e \in LaunchEvents, CopiesInv, SiteAnswers(e) PROVE CopiesInv'
  OBVIOUS
<1> DEFINE handler == [compose[e] EXCEPT !.at = "answered", !.answer = served[compose[e].mailbox]]
<1>1. compose' = [compose EXCEPT ![e] = handler]
  BY DEF SiteAnswers, CopiesInv, OutlookTypeOK, Handlers
<1>2. UNCHANGED <<hour, served, siteChanges, until, copy, raised>> /\ compose[e].at = "asks"
  BY DEF SiteAnswers
<1>3. compose[e].mailbox \in Mailboxes
  BY <1>2 DEF CopiesInv, AtWork
<1>4. served[compose[e].mailbox] \in {0} \cup Htmls
  BY <1>3 DEF CopiesInv, OutlookTypeOK, Handlers
<1>5. handler \in Handlers
  BY <1>4 DEF CopiesInv, OutlookTypeOK, Handlers
<1>6. /\ handler.found = compose[e].found /\ handler.at = "answered"
      /\ handler.mailbox = compose[e].mailbox /\ handler.answer = served[compose[e].mailbox]
  BY DEF CopiesInv, OutlookTypeOK, Handlers
<1>7. copy' \in Copies /\ Dated(copy') /\ raised' \in 0..MaxEvents /\ Dated(compose[e].found)
  BY <1>2 DEF CopiesInv, OutlookTypeOK, Handlers
<1> HIDE DEF handler
<1> QED BY <1>1, <1>2, <1>3, <1>5, <1>6, <1>7, HandlerStep

LEMMA AnswerComesStep == \A e \in LaunchEvents : CopiesInv /\ AnswerArrives(e) => CopiesInv'
<1> SUFFICES ASSUME NEW e \in LaunchEvents, CopiesInv, AnswerArrives(e) PROVE CopiesInv'
  OBVIOUS
<1>1. UNCHANGED <<hour, served, siteChanges, until, raised>> /\ compose[e].at = "answered"
  BY DEF AnswerArrives
<1>2. CASE compose[e].answer = 0
  BY <1>1, <1>2, EndStep DEF AnswerArrives
<1>3. CASE compose[e].answer # 0
  <2> DEFINE fresh == [of |-> compose[e].mailbox, html |-> compose[e].answer, at |-> hour]
             handler == [compose[e] EXCEPT !.at = "applies", !.found = fresh, !.answer = 0]
  <2>1. copy' \in {fresh, copy} /\ compose' = [compose EXCEPT ![e] = handler]
    BY <1>3 DEF AnswerArrives, CopiesInv, OutlookTypeOK, Handlers
  <2>2. /\ compose[e].mailbox \in Mailboxes /\ compose[e].answer \in Htmls
        /\ \/ compose[e].answer = served[compose[e].mailbox]
           \/ until[compose[e].answer] = hour
    BY <1>1, <1>3 DEF CopiesInv, OutlookTypeOK, Handlers, AtWork
  <2>3. hour \in 0..MaxHour /\ hour \in Nat
    BY Bounds DEF CopiesInv, OutlookTypeOK, Handlers
  <2>4. fresh \in Copies /\ Dated(fresh)
    BY <2>2, <2>3 DEF Copies, Dated
  <2> HIDE DEF fresh
  <2>5. handler \in Handlers
    BY <2>4 DEF CopiesInv, OutlookTypeOK, Handlers
  <2>6. handler.found = fresh /\ handler.at = "applies" /\ handler.mailbox = compose[e].mailbox
    BY DEF CopiesInv, OutlookTypeOK, Handlers
  <2>7. copy' \in Copies /\ Dated(copy') /\ raised' \in 0..MaxEvents
    BY <1>1, <2>1, <2>4 DEF CopiesInv, OutlookTypeOK, Handlers
  <2> HIDE DEF handler
  <2> QED BY <1>1, <2>1, <2>2, <2>4, <2>5, <2>6, <2>7, HandlerStep
<1> QED BY <1>2, <1>3

LEMMA FailsStep == \A e \in LaunchEvents : CopiesInv /\ FetchFails(e) => CopiesInv'
<1> SUFFICES ASSUME NEW e \in LaunchEvents, CopiesInv, FetchFails(e) PROVE CopiesInv'
  OBVIOUS
<1>1. /\ UNCHANGED <<hour, served, siteChanges, until, copy, raised>>
      /\ compose[e].at \in {"asks", "answered"}
  BY DEF FetchFails
<1>2. CASE Ends(e)
  BY <1>1, <1>2, EndStep
<1>3. CASE compose' = [compose EXCEPT ![e].at = "applies", ![e].siteFailed = TRUE]
  <2> DEFINE handler == [compose[e] EXCEPT !.at = "applies", !.siteFailed = TRUE]
  <2>1. compose' = [compose EXCEPT ![e] = handler]
    BY <1>3 DEF CopiesInv, OutlookTypeOK, Handlers
  <2>2. handler \in Handlers
    BY DEF CopiesInv, OutlookTypeOK, Handlers
  <2>3. /\ handler.found = compose[e].found /\ handler.at = "applies"
        /\ handler.mailbox = compose[e].mailbox /\ compose[e].mailbox \in Mailboxes
    BY <1>1 DEF CopiesInv, OutlookTypeOK, Handlers, AtWork
  <2>4. copy' \in Copies /\ Dated(copy') /\ raised' \in 0..MaxEvents /\ Dated(compose[e].found)
    BY <1>1 DEF CopiesInv, OutlookTypeOK, Handlers
  <2> HIDE DEF handler
  <2> QED BY <1>1, <2>1, <2>2, <2>3, <2>4, HandlerStep
<1> QED BY <1>2, <1>3 DEF FetchFails

LEMMA SafetyStep == \A e \in LaunchEvents : CopiesInv /\ SafetyFires(e) => CopiesInv'
<1> SUFFICES ASSUME NEW e \in LaunchEvents, CopiesInv, SafetyFires(e) PROVE CopiesInv'
  OBVIOUS
<1> DEFINE handler == [compose[e] EXCEPT !.completed = 1]
<1>1. UNCHANGED <<hour, served, siteChanges, until, copy, raised>> /\ AtWork(e)
  BY DEF SafetyFires
<1>2. compose' = [compose EXCEPT ![e] = handler]
  BY DEF SafetyFires, Completed, CopiesInv, OutlookTypeOK, Handlers
<1>3. handler \in Handlers
  BY DEF CopiesInv, OutlookTypeOK, Handlers
<1>4. /\ handler.found = compose[e].found /\ handler.at = compose[e].at
      /\ handler.mailbox = compose[e].mailbox /\ handler.answer = compose[e].answer
  BY DEF CopiesInv, OutlookTypeOK, Handlers
<1>5. copy' \in Copies /\ Dated(copy') /\ raised' \in 0..MaxEvents
  BY <1>1 DEF CopiesInv, OutlookTypeOK, Handlers
<1>6. /\ Dated(compose[e].found) /\ compose[e].mailbox \in Mailboxes
      /\ compose[e].at = "answered" /\ compose[e].answer # 0 =>
            compose[e].answer = served[compose[e].mailbox] \/ until[compose[e].answer] = hour
  BY <1>1 DEF CopiesInv
<1> HIDE DEF handler
<1> QED BY <1>1, <1>2, <1>3, <1>4, <1>5, <1>6, HandlerStep

LEMMA CopiesStep == CopiesInv /\ [OutlookNext]_outlookVars => CopiesInv'
<1> SUFFICES ASSUME CopiesInv, [OutlookNext]_outlookVars PROVE CopiesInv'
  OBVIOUS
<1>1. CASE UNCHANGED outlookVars
  BY <1>1 DEF outlookVars, CopiesInv, OutlookTypeOK, Dated, AtWork
<1>2. ASSUME NEW e \in LaunchEvents, Applied(e) \/ RuntimeEnds(e) PROVE CopiesInv'
  BY <1>2, EndStep DEF Applied, RuntimeEnds
<1> QED BY <1>1, <1>2, HourStep, SiteStep, RaisedStep, ReadsStep, AnswersStep, AnswerComesStep,
           FailsStep, SafetyStep DEF OutlookNext

\* What a handler takes is recent when it takes it.
LEMMA TakesStep ==
    ASSUME CopiesInv, OutlookNext, NEW e \in LaunchEvents,
           compose'[e].at = "applies", compose[e].at # "applies"
    PROVE  LET entry == compose'[e].found
               limit == IF compose'[e].siteFailed THEN StaleMax ELSE CacheTtl
           IN  /\ entry.of = compose[e].mailbox
               /\ \/ entry.html = served[entry.of]
                  \/ hour - until[entry.html] < limit
<1> USE DEF CopiesInv, OutlookTypeOK, Handlers
<1>1. ~UNCHANGED compose
  OBVIOUS
<1>2. PICK d \in LaunchEvents :
          \/ \E m \in Mailboxes : Raised(d, m)
          \/ ReadsCopy(d) \/ SiteAnswers(d) \/ AnswerArrives(d) \/ FetchFails(d)
          \/ Applied(d) \/ SafetyFires(d) \/ RuntimeEnds(d)
  BY <1>1 DEF OutlookNext, HourPasses, SiteChanges
<1>3. ASSUME NEW handler, compose' = [compose EXCEPT ![d] = handler]
      PROVE  d = e /\ handler = compose'[e]
  BY <1>3
<1>4. ~Ends(d)
  <2>1. ASSUME NEW handler PROVE Completed([NotRaised EXCEPT !.at = "over", !.completed = handler]).at # "applies"
    BY NotRaisedIsAHandler DEF Completed
  <2> QED BY <1>3, <2>1 DEF Ends
<1>5. ~\E m \in Mailboxes : Raised(d, m)
  <2>1. \A m : [NotRaised EXCEPT !.at = "reads", !.mailbox = m].at = "reads"
    BY NotRaisedIsAHandler
  <2> QED BY <1>3, <2>1 DEF Raised
<1>6. ~SiteAnswers(d) /\ ~SafetyFires(d)
  BY DEF SiteAnswers, SafetyFires, Completed
<1>7. ReadsCopy(d) \/ AnswerArrives(d) \/ FetchFails(d)
  BY <1>2, <1>4, <1>5, <1>6 DEF Applied, RuntimeEnds
<1>8. d = e
  BY <1>4, <1>7 DEF ReadsCopy, AnswerArrives, FetchFails
<1>9. CASE ReadsCopy(e)
  <2>1. PICK found \in {copy, NoCopy} :
          compose' = [compose EXCEPT
              ![e].found = found,
              ![e].at = IF Usable(found, compose[e].mailbox, CacheTtl) THEN "applies" ELSE "asks"]
    BY <1>9 DEF ReadsCopy
  <2>2. compose'[e].found = found /\ Usable(found, compose[e].mailbox, CacheTtl)
    BY <2>1
  <2>3. found \in Copies /\ Dated(found) /\ CacheTtl \in Nat
    BY NoCopyIsACopy, Bounds DEF Dated
  <2>4. /\ found.of = compose[e].mailbox
        /\ found.html = served[found.of] \/ hour - until[found.html] < CacheTtl
    BY <2>2, <2>3, UsableIsRecent
  <2>5. found.html \in Htmls /\ hour \in Int /\ (found.html \in Htmls => until[found.html] \in Int)
    BY <2>2, <2>3, Bounds DEF Usable, Dated
  <2> QED BY <2>2, <2>4, <2>5, Bounds
<1>10. CASE AnswerArrives(e)
  <2> DEFINE fresh == [of |-> compose[e].mailbox, html |-> compose[e].answer, at |-> hour]
  <2>1. compose[e].answer # 0 /\ compose'[e].found = fresh /\ compose[e].at = "answered"
    BY <1>4, <1>8, <1>10 DEF AnswerArrives
  <2>2. fresh.html = served[fresh.of] \/ until[fresh.html] = hour
    BY <2>1
  <2>3. hour - hour = 0 /\ 0 < CacheTtl /\ 0 < StaleMax
    BY Bounds
  <2> QED BY <2>1, <2>2, <2>3
<1>11. CASE FetchFails(e)
  <2>1. /\ compose' = [compose EXCEPT ![e].at = "applies", ![e].siteFailed = TRUE]
        /\ Usable(compose[e].found, compose[e].mailbox, StaleMax)
    BY <1>4, <1>8, <1>11 DEF FetchFails
  <2>2. compose'[e].found = compose[e].found /\ compose'[e].siteFailed
    BY <2>1
  <2>3. compose[e].found \in Copies /\ Dated(compose[e].found) /\ StaleMax \in Nat
    BY Bounds
  <2> QED BY <2>1, <2>2, <2>3, UsableIsRecent
<1> QED BY <1>7, <1>8, <1>9, <1>10, <1>11

\* The inductive invariant of the cache of the add-in.
THEOREM CopiesInvariant == OutlookSpec => []CopiesInv
BY InitCopies, CopiesStep, PTL DEF OutlookSpec

\* For any number of mailboxes, events, and changes on the site: what a handler inserts
\* is a signature of its own mailbox that the site has, or had within the hour, or within
\* the seven days when the site could not be reached.
THEOREM InsertsRecent == OutlookSpec => SignatureIsRecent
<1> DEFINE Recent(e) ==
        compose'[e].at = "applies" /\ compose[e].at # "applies" =>
              LET entry == compose'[e].found
                  limit == IF compose'[e].siteFailed THEN StaleMax ELSE CacheTtl
              IN  /\ entry.of = compose[e].mailbox
                  /\ \/ entry.html = served[entry.of]
                     \/ hour - until[entry.html] < limit
<1>1. CopiesInv /\ [OutlookNext]_outlookVars => [\A e \in LaunchEvents : Recent(e)]_outlookVars
  BY TakesStep
<1> QED BY <1>1, CopiesInvariant, PTL DEF SignatureIsRecent, OutlookSpec

-----------------------------------------------------------------------------
(* The texts of a linked signature: where no tab saves texts of an older template, its
   overrides are exactly what its employee typed. *)

Texts == [TextBlocks -> {0} \cup Words]
Docs == [text : Texts, over : Texts, locks : SUBSET TextBlocks]

Tab == [open : BOOLEAN, mode : Modes, doc : Docs, mine : Texts]

\* What a tab knows as the employee's is what its document lists as overrides, and
\* is what it shows, unless the block was deleted there.
TabsKnowOwn ==
    \A e \in Editors : editor[e].open =>
       /\ editor[e].mine = editor[e].doc.over
       /\ \A b \in TextBlocks :
             editor[e].mine[b] # 0 => editor[e].doc.text[b] \in {0, editor[e].mine[b]}

LinkInv ==
    /\ LinkRulesTypeOK
    /\ OverridesAreOwn
    /\ TabsKnowOwn

\* The types by the names used here.
LEMMA TabTypes ==
    /\ LinkRulesTypeOK => editor \in [Editors -> Tab] /\ signature.doc \in Docs
    /\ LinkRulesTypeOK <=>
          /\ template \in Templates /\ signature \in [linked : BOOLEAN, doc : Docs]
          /\ editor \in [Editors -> Tab] /\ ownWords \in Texts
          /\ templateUpdates \in 0..MaxTemplateUpdates /\ typings \in 0..MaxTypings
BY DEF LinkRulesTypeOK, Tab, Docs, Texts

\* A refresh keeps the types of what it is given.
LEMMA RefreshTypes ==
    ASSUME NEW t \in Templates, NEW over \in Texts
    PROVE  /\ ApplicableOverrides(t, over) \in Texts
           /\ RefreshFrom(t, over) \in Docs
BY LinkRulesAssumption DEF ApplicableOverrides, RefreshFrom, Texts, Docs, Templates, Takes

\* What a refresh stores: the overrides that apply, each on its block, and the
\* template's texts on the others.
LEMMA RefreshShows ==
    ASSUME NEW t \in Templates, NEW over \in Texts
    PROVE  /\ RefreshFrom(t, over).over = ApplicableOverrides(t, over)
           /\ \A b \in TextBlocks :
                 RefreshFrom(t, over).text[b] =
                    IF ApplicableOverrides(t, over)[b] = 0 THEN t.text[b]
                    ELSE ApplicableOverrides(t, over)[b]
BY DEF RefreshFrom, ApplicableOverrides

\* So a signature that was refreshed from its template with the employee's words
\* has them as its overrides.
LEMMA RefreshIsOwn ==
    ASSUME NEW t \in Templates, NEW over \in Texts,
           template' = t, signature'.doc = RefreshFrom(t, over),
           ownWords' = ApplicableOverrides(t, over)
    PROVE  OverridesAreOwn'
<1> SUFFICES ASSUME signature'.linked,
                    NEW b \in TextBlocks
             PROVE  /\ signature'.doc.over = ownWords'
                    /\ IF ownWords'[b] = 0
                       THEN template'.mode # "free" => signature'.doc.text[b] = template'.text[b]
                       ELSE signature'.doc.text[b] = ownWords'[b]
  BY RefreshShows DEF OverridesAreOwn
<1> QED BY RefreshShows

LEMMA InitLinks == LinkRulesInit => LinkInv
<1> SUFFICES ASSUME LinkRulesInit PROVE LinkInv
  OBVIOUS
<1> USE DEF LinkRulesInit
<1>1. NoWords \in Texts /\ EmptyDoc \in Docs /\ template \in Templates
  BY DEF NoWords, Texts, EmptyDoc, Docs
<1>2. ApplicableOverrides(template, NoWords) = NoWords
  BY DEF ApplicableOverrides, NoWords
<1>3. RefreshFrom(template, NoWords) \in Docs
  BY <1>1, RefreshTypes
<1>4. LinkRulesTypeOK
  BY <1>1, <1>3, LinkRulesAssumption
  DEF LinkRulesTypeOK, Texts, Docs, NotEditing, Modes
<1>5. OverridesAreOwn
  BY <1>1, <1>2, RefreshShows DEF OverridesAreOwn, NoWords
<1>6. TabsKnowOwn
  BY DEF TabsKnowOwn, NotEditing
<1> QED BY <1>4, <1>5, <1>6 DEF LinkInv

\* What a tab may become: a document whose listed texts are those it shows, and the
\* tab takes for the employee's.
LEMMA TabChanges ==
    ASSUME LinkInv, NEW e \in Editors, NEW m \in Modes, NEW d \in Docs,
           \A b \in TextBlocks : d.over[b] # 0 => d.text[b] \in {0, d.over[b]},
           editor' = [editor EXCEPT ![e] = [open |-> TRUE, mode |-> m, doc |-> d,
                                            mine |-> d.over]]
    PROVE  /\ TabsKnowOwn'
           /\ editor' \in [Editors -> Tab]
<1>1. editor \in [Editors -> Tab]
  BY TabTypes DEF LinkInv
<1>2. [open |-> TRUE, mode |-> m, doc |-> d, mine |-> d.over] \in Tab
  BY DEF Tab, Docs
<1>3. editor' \in [Editors -> Tab]
  BY <1>1, <1>2
<1>4. ASSUME NEW f \in Editors, editor'[f].open
      PROVE  /\ editor'[f].mine = editor'[f].doc.over
             /\ \A b \in TextBlocks :
                   editor'[f].mine[b] # 0
                      => editor'[f].doc.text[b] \in {0, editor'[f].mine[b]}
  <2>1. CASE f = e
    <3>1. editor'[f].mine = d.over /\ editor'[f].doc = d
      BY <1>1, <2>1
    <3> QED BY <3>1
  <2>2. CASE f # e
    <3>1. editor'[f] = editor[f]
      BY <1>1, <2>2
    <3> QED BY <3>1, <1>4 DEF LinkInv, TabsKnowOwn
  <2> QED BY <2>1, <2>2
<1> QED BY <1>3, <1>4 DEF TabsKnowOwn

\* A tab takes over what is stored.
LEMMA OpenStep == ASSUME LinkInv, NEW e \in Editors, OpenEditor(e) PROVE LinkInv'
<1> USE DEF OpenEditor
<1>1. signature.doc \in Docs /\ signature.doc.over = ownWords /\ template.mode \in Modes
  BY DEF LinkInv, LinkRulesTypeOK, OverridesAreOwn, Docs, Texts, Templates
<1>2. \A b \in TextBlocks : ownWords[b] # 0 => signature.doc.text[b] \in {0, ownWords[b]}
  BY DEF LinkInv, OverridesAreOwn
<1>3. TabsKnowOwn' /\ editor' \in [Editors -> Tab]
  BY <1>1, <1>2, TabChanges
<1>4. LinkRulesTypeOK'
  BY <1>3, TabTypes DEF LinkInv, LinkRulesTypeOK, Templates
<1>5. OverridesAreOwn'
  BY DEF LinkInv, OverridesAreOwn
<1> QED BY <1>3, <1>4, <1>5 DEF LinkInv

\* A tab is edited, by typing or deleting: nothing else changes.
LEMMA EditKeeps ==
    ASSUME LinkInv, NEW e \in Editors, NEW b \in TextBlocks, EditsBlock(e, b),
           TabsKnowOwn', editor' \in [Editors -> Tab]
    PROVE  LinkInv'
<1>1. /\ typings < MaxTypings /\ typings' = typings + 1
      /\ UNCHANGED <<template, signature, ownWords, templateUpdates>>
  BY DEF EditsBlock
<1>2. typings' \in 0..MaxTypings
  BY <1>1, LinkRulesAssumption DEF LinkInv, LinkRulesTypeOK
<1>3. LinkRulesTypeOK'
  <2>1. LinkRulesTypeOK
    BY DEF LinkInv
  <2> QED BY <1>1, <1>2, <2>1, TabTypes DEF LinkRulesTypeOK, Tab, Docs, Texts
<1>4. OverridesAreOwn'
  BY <1>1 DEF LinkInv, OverridesAreOwn
<1> QED BY <1>3, <1>4 DEF LinkInv

\* What a tab holds.
LEMMA TabHolds ==
    ASSUME LinkInv, NEW e \in Editors
    PROVE  /\ editor[e] \in Tab
           /\ editor[e].open => editor[e].mine = editor[e].doc.over
           /\ editor[e].open => \A b \in TextBlocks :
                 editor[e].doc.over[b] # 0
                    => editor[e].doc.text[b] \in {0, editor[e].doc.over[b]}
BY TabTypes DEF LinkInv, TabsKnowOwn

\* A tab by its parts, and with a text typed into it.
TabOf(o, m, x, y, z, n) ==
    [open |-> o, mode |-> m, doc |-> [text |-> x, over |-> y, locks |-> z], mine |-> n]

TypedInto(t, b, w) == [t EXCEPT !.doc.text[b] = w, !.doc.over[b] = w, !.mine[b] = w]

LEMMA TypedTab ==
    ASSUME NEW o, NEW m, NEW n, NEW x, NEW y, NEW z, NEW b, NEW w
    PROVE  TypedInto(TabOf(o, m, x, y, z, n), b, w)
             = TabOf(o, m, [x EXCEPT ![b] = w], [y EXCEPT ![b] = w], z, [n EXCEPT ![b] = w])
<1> USE DEF TypedInto, TabOf
<1> DEFINE r == [open |-> o, mode |-> m, doc |-> [text |-> x, over |-> y, locks |-> z],
                 mine |-> n]
           typed == [open |-> o, mode |-> m, mine |-> n,
                     doc |-> [text |-> [x EXCEPT ![b] = w], over |-> y, locks |-> z]]
           listed == [open |-> o, mode |-> m, mine |-> n,
                      doc |-> [text |-> [x EXCEPT ![b] = w], over |-> [y EXCEPT ![b] = w],
                               locks |-> z]]
<1>1. [r EXCEPT !.doc.text[b] = w] = typed
  OBVIOUS
<1>2. [typed EXCEPT !.doc.over[b] = w] = listed
  OBVIOUS
<1>3. [r EXCEPT !.doc.text[b] = w, !.doc.over[b] = w, !.mine[b] = w]
        = [[[r EXCEPT !.doc.text[b] = w] EXCEPT !.doc.over[b] = w] EXCEPT !.mine[b] = w]
  OBVIOUS
<1>4. [r EXCEPT !.doc.text[b] = w, !.doc.over[b] = w, !.mine[b] = w]
        = [listed EXCEPT !.mine[b] = w]
  <2> HIDE DEF r, typed, listed
  <2> QED BY <1>1, <1>2, <1>3
<1>5. [listed EXCEPT !.mine[b] = w] = [listed EXCEPT !.mine = [n EXCEPT ![b] = w]]
  OBVIOUS
<1> QED BY <1>4, <1>5

\* The employee types: the text is on the block and among the overrides.
LEMMA TypeStep ==
    ASSUME LinkInv, NEW e \in Editors, NEW b \in TextBlocks, NEW w \in Words,
           TypeText(e, b, w)
    PROVE  LinkInv'
<1> DEFINE doc == editor[e].doc
           new == [text |-> [doc.text EXCEPT ![b] = w], over |-> [doc.over EXCEPT ![b] = w],
                   locks |-> doc.locks]
<1>1. EditsBlock(e, b) /\ editor[e].open
  BY DEF TypeText, EditsBlock
<1>2. doc \in Docs /\ new \in Docs /\ editor[e].mode \in Modes
  BY TabHolds DEF Docs, Texts, Tab
<1>3. editor' = [editor EXCEPT ![e] = [open |-> TRUE, mode |-> editor[e].mode, doc |-> new,
                                       mine |-> new.over]]
  <2> DEFINE tab == editor[e]
  <2>1. tab \in Tab /\ tab.open = TRUE /\ tab.mine = doc.over
    BY <1>1, TabHolds DEF Tab
  <2>2. tab = TabOf(tab.open, tab.mode, doc.text, doc.over, doc.locks, tab.mine)
    BY <1>2, <2>1 DEF Tab, Docs, TabOf
  <2>3. TypedInto(tab, b, w) = TabOf(TRUE, tab.mode, new.text, new.over, doc.locks, new.over)
    <3>1. TypedInto(tab, b, w)
            = TabOf(tab.open, tab.mode, [doc.text EXCEPT ![b] = w],
                    [doc.over EXCEPT ![b] = w], doc.locks, [tab.mine EXCEPT ![b] = w])
      <4> HIDE DEF doc, tab
      <4> QED BY <2>2, TypedTab
    <3> QED BY <2>1, <3>1
  <2>4. editor' = [editor EXCEPT ![e] = TypedInto(editor[e], b, w)]
    BY DEF TypeText, TypedInto
  <2> QED BY <2>3, <2>4 DEF TabOf
<1>4. \A c \in TextBlocks : new.over[c] # 0 => new.text[c] \in {0, new.over[c]}
  BY <1>1, <1>2, TabHolds DEF Docs, Texts
<1>5. TabsKnowOwn' /\ editor' \in [Editors -> Tab]
  <2> HIDE DEF new
  <2> QED BY <1>2, <1>3, <1>4, TabChanges
<1> QED BY <1>1, <1>5, EditKeeps

\* The employee deletes a block: its override stays.
LEMMA DeleteStep ==
    ASSUME LinkInv, NEW e \in Editors, NEW b \in TextBlocks, DeleteText(e, b)
    PROVE  LinkInv'
<1> DEFINE doc == editor[e].doc
           new == [text |-> [doc.text EXCEPT ![b] = 0], over |-> doc.over, locks |-> doc.locks]
<1>1. EditsBlock(e, b) /\ editor[e].open
  BY DEF DeleteText, EditsBlock
<1>2. doc \in Docs /\ new \in Docs /\ editor[e].mode \in Modes
  BY TabHolds DEF Docs, Texts, Tab
<1>3. editor' = [editor EXCEPT ![e] = [open |-> TRUE, mode |-> editor[e].mode, doc |-> new,
                                       mine |-> new.over]]
  <2>1. ASSUME NEW t \in Tab, t = editor[e]
        PROVE  [t EXCEPT !.doc.text[b] = 0]
                  = [open |-> TRUE, mode |-> t.mode, doc |-> new, mine |-> new.over]
    <3>1. t.open = TRUE /\ t.mine = t.doc.over /\ t.doc = doc
      BY <1>1, <2>1, TabHolds DEF Tab
    <3>2. [t EXCEPT !.doc.text[b] = 0]
            = [open |-> t.open, mode |-> t.mode, mine |-> t.mine,
               doc |-> [t.doc EXCEPT !.text[b] = 0]]
      BY DEF Tab
    <3>3. [t.doc EXCEPT !.text[b] = 0] = new
      BY <1>2, <3>1 DEF Docs
    <3> QED BY <3>1, <3>2, <3>3
  <2>2. editor \in [Editors -> Tab]
    BY TabTypes DEF LinkInv
  <2> QED BY <2>1, <2>2, TabHolds DEF DeleteText
<1>4. \A c \in TextBlocks : new.over[c] # 0 => new.text[c] \in {0, new.over[c]}
  BY <1>1, <1>2, TabHolds DEF Docs, Texts
<1>5. TabsKnowOwn' /\ editor' \in [Editors -> Tab]
  <2> HIDE DEF new
  <2> QED BY <1>2, <1>3, <1>4, TabChanges
<1> QED BY <1>1, <1>5, EditKeeps

\* The template is saved again and the signature refreshed.
LEMMA TemplateStep ==
    ASSUME LinkInv, NEW t \in Templates, SaveTemplate(t)
    PROVE  LinkInv'
<1> USE DEF SaveTemplate
<1>1. ownWords \in Texts /\ ApplicableOverrides(t, ownWords) \in Texts
      /\ RefreshFrom(t, ownWords) \in Docs
  BY RefreshTypes DEF LinkInv, LinkRulesTypeOK, Texts
<1>2. CASE signature.linked
  <2>1. signature' = [signature EXCEPT !.doc = RefreshFrom(t, ownWords)]
    BY <1>2 DEF LinkInv, OverridesAreOwn
  <2>2. LinkRulesTypeOK'
    BY <1>1, <2>1, LinkRulesAssumption DEF LinkInv, LinkRulesTypeOK, Docs, Texts
  <2>3. signature'.doc = RefreshFrom(t, ownWords)
    BY <2>1 DEF LinkInv, LinkRulesTypeOK
  <2>4. OverridesAreOwn'
    BY <1>1, <2>3, RefreshIsOwn
  <2> QED BY <2>2, <2>4 DEF LinkInv, TabsKnowOwn
<1>3. CASE ~signature.linked
  <2>1. LinkRulesTypeOK'
    BY <1>1, <1>3, LinkRulesAssumption DEF LinkInv, LinkRulesTypeOK, Docs, Texts
  <2> QED BY <1>3, <2>1 DEF LinkInv, TabsKnowOwn, OverridesAreOwn
<1> QED BY <1>2, <1>3

\* A free copy has no overrides any more, and every tab is closed or reloads.
LEMMA DetachStep == ASSUME LinkInv, NEW e \in Editors, DetachLinked(e) PROVE LinkInv'
<1> USE DEF DetachLinked
<1>1. NoWords \in Texts
  BY DEF NoWords, Texts
<1>2. LinkRulesTypeOK'
  BY <1>1, LinkRulesAssumption
  DEF LinkInv, LinkRulesTypeOK, Texts, NotEditing, EmptyDoc, Modes
<1>3. OverridesAreOwn' /\ TabsKnowOwn'
  BY DEF OverridesAreOwn, TabsKnowOwn, NotEditing
<1> QED BY <1>2, <1>3 DEF LinkInv

\* A tab that takes over what was stored.
SavedInto(t, d, n) == [t EXCEPT !.doc = d, !.mine = n]

LEMMA SavedTab ==
    ASSUME NEW o, NEW m, NEW n, NEW x, NEW y, NEW z, NEW d, NEW k
    PROVE  SavedInto(TabOf(o, m, x, y, z, n), d, k)
             = [open |-> o, mode |-> m, doc |-> d, mine |-> k]
<1> DEFINE r == TabOf(o, m, x, y, z, n)
           shown == [open |-> o, mode |-> m, doc |-> d, mine |-> n]
<1>1. [r EXCEPT !.doc = d] = shown
  BY DEF TabOf
<1>2. [shown EXCEPT !.mine = k] = [open |-> o, mode |-> m, doc |-> d, mine |-> k]
  OBVIOUS
<1>3. SavedInto(r, d, k) = [[r EXCEPT !.doc = d] EXCEPT !.mine = k]
  BY DEF SavedInto
<1> QED
  <2> HIDE DEF r, shown
  <2>1. SavedInto(r, d, k) = [shown EXCEPT !.mine = k]
    BY <1>1, <1>3
  <2> QED BY <1>2, <2>1 DEF r

\* What a save of the tab keeps of the employee's words.
KeptWords(e) ==
    [b \in TextBlocks |->
       IF editor[e].doc.text[b] # 0 \/ editor[e].mine[b] # 0 THEN editor[e].mine[b]
       ELSE ownWords[b]]

\* Where the design is enforced, the overrides found in what is sent are these words:
\* a text that differs from the template's is the employee's, as none is old.
LEMMA FoundIsKept ==
    ASSUME LinkInv, NEW e \in Editors, editor[e].open, signature.linked,
           ~ShowsOldText(e)
    PROVE  ApplicableOverrides(template,
              [b \in TextBlocks |-> Candidate(template, editor[e].doc, signature.doc, b)])
             = ApplicableOverrides(template, KeptWords(e))
<1>1. signature.doc.over = ownWords
  BY DEF LinkInv, OverridesAreOwn
<1>2. ASSUME NEW b \in TextBlocks, Takes(template, b)
      PROVE  Candidate(template, editor[e].doc, signature.doc, b) = KeptWords(e)[b]
  <2>1. CASE editor[e].doc.text[b] = 0
    BY <1>1, <2>1, TabHolds DEF Candidate, KeptWords
  <2>2. CASE editor[e].doc.text[b] # 0 /\ editor[e].mine[b] # 0
    BY <2>2, TabHolds DEF Candidate, KeptWords
  <2>3. CASE editor[e].doc.text[b] # 0 /\ editor[e].mine[b] = 0
    <3>1. editor[e].doc.text[b] = template.text[b] /\ editor[e].doc.over[b] = 0
      BY <1>2, <2>3, TabHolds DEF ShowsOldText
    <3> QED BY <2>3, <3>1 DEF Candidate, KeptWords
  <2> QED BY <2>1, <2>2, <2>3
<1> QED BY <1>2 DEF ApplicableOverrides

\* What is stored by a save, and what the tab takes over, are the employee's words.
LEMMA SaveLinkedStep ==
    ASSUME ~StaleTexts, LinkInv, NEW e \in Editors, SaveLinked(e)
    PROVE  LinkInv'
<1> DEFINE found == [b \in TextBlocks |->
                       Candidate(template, editor[e].doc, signature.doc, b)]
<1>1. /\ editor[e].open /\ signature.linked /\ ~ShowsOldText(e)
      /\ UNCHANGED <<template, templateUpdates, typings>>
      /\ signature' = [signature EXCEPT !.doc = Enforce(template, editor[e].doc, signature.doc)]
      /\ ownWords' = IF template.mode = "free" THEN editor[e].mine
                     ELSE ApplicableOverrides(template, KeptWords(e))
      /\ editor' = [editor EXCEPT ![e] =
                       [editor[e] EXCEPT !.doc = signature'.doc, !.mine = ownWords']]
  BY DEF SaveLinked, KeptWords
<1>2. /\ template \in Templates /\ signature \in [linked : BOOLEAN, doc : Docs]
      /\ ownWords \in Texts /\ editor \in [Editors -> Tab] /\ editor[e] \in Tab
      /\ templateUpdates \in 0..MaxTemplateUpdates /\ typings \in 0..MaxTypings
  BY TabTypes DEF LinkInv
<1>3. signature'.linked /\ signature'.doc = Enforce(template, editor[e].doc, signature.doc)
  BY <1>1, <1>2
<1>4. KeptWords(e) \in Texts
  BY <1>2 DEF KeptWords, Texts, Tab
<1>5. /\ signature'.doc \in Docs
      /\ ownWords' = signature'.doc.over
      /\ \A b \in TextBlocks :
            signature'.doc.over[b] # 0
               => signature'.doc.text[b] \in {0, signature'.doc.over[b]}
      /\ OverridesAreOwn'
  <2>1. CASE template.mode = "free"
    <3>1. signature'.doc = editor[e].doc /\ ownWords' = editor[e].mine
      BY <1>1, <1>3, <2>1 DEF Enforce
    <3>2. editor[e].doc \in Docs
      BY <1>2 DEF Tab
    <3> QED BY <1>1, <2>1, <3>1, <3>2, TabHolds DEF OverridesAreOwn
  <2>2. CASE template.mode # "free"
    <3>1. signature'.doc = RefreshFrom(template, found)
      BY <1>3, <2>2 DEF Enforce
    <3>2. ApplicableOverrides(template, found) = ApplicableOverrides(template, KeptWords(e))
      BY <1>1, FoundIsKept
    <3>3. RefreshFrom(template, found) = RefreshFrom(template, KeptWords(e))
      BY <3>2 DEF RefreshFrom
    <3>4. signature'.doc = RefreshFrom(template, KeptWords(e))
      BY <3>1, <3>3
    <3>5. ownWords' = ApplicableOverrides(template, KeptWords(e))
      BY <1>1, <2>2
    <3>6. /\ signature'.doc \in Docs
          /\ signature'.doc.over = ApplicableOverrides(template, KeptWords(e))
          /\ \A b \in TextBlocks :
                signature'.doc.over[b] # 0 => signature'.doc.text[b] = signature'.doc.over[b]
      BY <1>2, <1>4, <3>4, RefreshTypes, RefreshShows
    <3>7. OverridesAreOwn'
      BY <1>1, <1>2, <1>4, <3>4, <3>5, RefreshIsOwn
    <3> QED BY <3>5, <3>6, <3>7
  <2> QED BY <2>1, <2>2
<1>6. editor' = [editor EXCEPT ![e] = [open |-> TRUE, mode |-> editor[e].mode,
                                       doc |-> signature'.doc,
                                       mine |-> signature'.doc.over]]
  <2>1. [editor[e] EXCEPT !.doc = signature'.doc, !.mine = ownWords']
          = [open |-> TRUE, mode |-> editor[e].mode, doc |-> signature'.doc,
             mine |-> signature'.doc.over]
    <3> DEFINE t == editor[e]
    <3>1. t.open = TRUE
      BY <1>1, <1>2 DEF Tab
    <3>2. t = TabOf(t.open, t.mode, t.doc.text, t.doc.over, t.doc.locks, t.mine)
      BY <1>2 DEF Tab, Docs, TabOf
    <3>3. SavedInto(t, signature'.doc, ownWords')
            = [open |-> t.open, mode |-> t.mode, doc |-> signature'.doc, mine |-> ownWords']
      <4> HIDE DEF t
      <4> QED BY <3>2, SavedTab
    <3> QED BY <1>5, <3>1, <3>3 DEF SavedInto
  <2> QED BY <1>1, <2>1
<1>7. editor[e].mode \in Modes
  BY <1>2 DEF Tab
<1>8. TabsKnowOwn' /\ editor' \in [Editors -> Tab]
  BY <1>5, <1>6, <1>7, TabChanges
<1>9. ownWords' \in Texts /\ signature' \in [linked : BOOLEAN, doc : Docs]
  <2>1. signature' = [signature EXCEPT !.doc = signature'.doc]
    BY <1>1, <1>3
  <2> QED BY <1>2, <1>5, <2>1 DEF Docs
<1>10. LinkRulesTypeOK'
  BY <1>1, <1>2, <1>8, <1>9 DEF LinkRulesTypeOK, Tab, Docs, Texts
<1> QED BY <1>5, <1>8, <1>10 DEF LinkInv

\* Every step keeps the invariant.
LEMMA LinkStep ==
    ASSUME ~StaleTexts, LinkInv, [LinkRulesNext]_linkVars PROVE LinkInv'
<1>1. CASE UNCHANGED linkVars
  BY <1>1 DEF linkVars, LinkInv, LinkRulesTypeOK, OverridesAreOwn, TabsKnowOwn
<1>2. CASE LinkRulesNext
  BY <1>2, OpenStep, SaveLinkedStep, DetachStep, DeleteStep, TypeStep, TemplateStep
  DEF LinkRulesNext
<1> QED BY <1>1, <1>2

\* Where no tab saves texts of an older template, the invariant holds throughout.
THEOREM LinkInvariant == ASSUME ~StaleTexts PROVE LinkRulesSpec => []LinkInv
<1>1. LinkRulesInit => LinkInv
  BY InitLinks
<1>2. LinkInv /\ [LinkRulesNext]_linkVars => LinkInv'
  BY LinkStep
<1> QED BY <1>1, <1>2, PTL DEF LinkRulesSpec

\* A template update, a save of any tab and a detachment leave the employee's words on
\* the signature, and no others, if no tab sends back texts of an older template: the
\* run stale_editor shows that this condition is needed.
THEOREM OverridesStayOwn ==
    ASSUME ~StaleTexts PROVE LinkRulesSpec => []OverridesAreOwn
<1>1. LinkInv => OverridesAreOwn
  BY DEF LinkInv
<1> QED BY <1>1, LinkInvariant, PTL

\* Where stale texts are saved too, the types still hold.
LEMMA SavedTypes ==
    ASSUME LinkRulesTypeOK, NEW e \in Editors
    PROVE  Enforce(template, editor[e].doc, signature.doc) \in Docs
<1>1. /\ template \in Templates /\ signature \in [linked : BOOLEAN, doc : Docs]
      /\ editor[e] \in Tab
  BY TabTypes
<1>2. editor[e].doc \in Docs /\ signature.doc \in Docs
  BY <1>1 DEF Tab
<1> DEFINE found == [b \in TextBlocks |-> Candidate(template, editor[e].doc, signature.doc, b)]
<1>3. ASSUME NEW b \in TextBlocks
      PROVE  Candidate(template, editor[e].doc, signature.doc, b) \in {0} \cup Words
  <2>1. /\ editor[e].doc.text[b] \in {0} \cup Words /\ editor[e].doc.over[b] \in {0} \cup Words
        /\ signature.doc.over[b] \in {0} \cup Words
    BY <1>2 DEF Docs, Texts
  <2> QED BY <2>1 DEF Candidate
<1>4. found \in Texts
  BY <1>3 DEF Texts
<1>5. RefreshFrom(template, found) \in Docs
  <2> HIDE DEF found
  <2> QED BY <1>1, <1>4, RefreshTypes
<1> QED BY <1>2, <1>5 DEF Enforce

LEMMA TabOfTypes ==
    ASSUME NEW o \in BOOLEAN, NEW m \in Modes, NEW n \in Texts, NEW x \in Texts, NEW y \in Texts,
           NEW z \in SUBSET TextBlocks
    PROVE  TabOf(o, m, x, y, z, n) \in Tab
BY DEF TabOf, Tab, Docs

LEMMA LinkTypesStep == LinkRulesTypeOK /\ [LinkRulesNext]_linkVars => LinkRulesTypeOK'
<1> SUFFICES ASSUME LinkRulesTypeOK, [LinkRulesNext]_linkVars PROVE LinkRulesTypeOK'
  OBVIOUS
<1>0. /\ template \in Templates /\ signature \in [linked : BOOLEAN, doc : Docs]
      /\ editor \in [Editors -> Tab] /\ ownWords \in Texts
      /\ templateUpdates \in 0..MaxTemplateUpdates /\ typings \in 0..MaxTypings
  BY TabTypes
<1> DEFINE Types == /\ template \in Templates /\ signature \in [linked : BOOLEAN, doc : Docs]
                    /\ editor \in [Editors -> Tab] /\ ownWords \in Texts
                    /\ templateUpdates \in 0..MaxTemplateUpdates /\ typings \in 0..MaxTypings
<1>1. ASSUME Types' PROVE LinkRulesTypeOK'
  BY <1>1 DEF LinkRulesTypeOK, Tab, Docs, Texts
<1>2. signature.doc \in Docs /\ template.mode \in Modes /\ NoWords \in Texts
      /\ NotEditing \in Tab
  BY <1>0 DEF Templates, NoWords, Texts, NotEditing, EmptyDoc, Tab, Docs, Modes
<1>3. ASSUME NEW e \in Editors
      PROVE  /\ editor[e] \in Tab /\ editor[e].doc \in Docs /\ editor[e].mine \in Texts
             /\ editor[e].mode \in Modes
  BY <1>0 DEF Tab
<1>4. CASE UNCHANGED linkVars
  BY <1>0, <1>1, <1>4 DEF linkVars
<1>5. ASSUME NEW e \in Editors, OpenEditor(e) PROVE LinkRulesTypeOK'
  <2>1. PICK t : t = [open |-> TRUE, mode |-> template.mode, doc |-> signature.doc,
                      mine |-> ownWords]
    OBVIOUS
  <2>2. t \in Tab
    BY <1>0, <1>2, <2>1 DEF Tab
  <2>3. editor' \in [Editors -> Tab]
    BY <1>0, <1>5, <2>1, <2>2 DEF OpenEditor
  <2> QED BY <1>0, <1>1, <1>5, <2>3 DEF OpenEditor
<1>6. ASSUME NEW e \in Editors, NEW b \in TextBlocks, EditsBlock(e, b),
             editor' \in [Editors -> Tab]
      PROVE  LinkRulesTypeOK'
  <2>1. typings' \in 0..MaxTypings
    BY <1>0, <1>6, LinkRulesAssumption DEF EditsBlock
  <2> QED BY <1>0, <1>1, <1>6, <2>1 DEF EditsBlock
<1>7. ASSUME NEW e \in Editors, NEW b \in TextBlocks, NEW w \in Words, TypeText(e, b, w)
      PROVE  LinkRulesTypeOK'
  <2>1. PICK t : t = editor[e]
    OBVIOUS
  <2>2. t \in Tab /\ t.doc \in Docs /\ t.mine \in Texts /\ t.doc.text \in Texts /\ t.doc.over \in Texts
    BY <1>3, <2>1 DEF Docs
  <2>3. t = TabOf(t.open, t.mode, t.doc.text, t.doc.over, t.doc.locks, t.mine)
    BY <2>2 DEF Tab, Docs, TabOf
  <2>4. TypedInto(t, b, w) = TabOf(t.open, t.mode, [t.doc.text EXCEPT ![b] = w],
                                   [t.doc.over EXCEPT ![b] = w], t.doc.locks, [t.mine EXCEPT ![b] = w])
    BY <2>3, TypedTab
  <2>5. [t.doc.text EXCEPT ![b] = w] \in Texts /\ [t.doc.over EXCEPT ![b] = w] \in Texts
        /\ [t.mine EXCEPT ![b] = w] \in Texts
    BY <2>2 DEF Texts
  <2>6. t.open \in BOOLEAN /\ t.mode \in Modes /\ t.doc.locks \in SUBSET TextBlocks
    BY <2>2 DEF Tab, Docs
  <2>7. TypedInto(t, b, w) \in Tab
    BY <2>4, <2>5, <2>6, TabOfTypes
  <2>8. PICK s : s = TypedInto(t, b, w)
    OBVIOUS
  <2>9. EditsBlock(e, b) /\ editor' = [editor EXCEPT ![e] = s]
    BY <1>7, <2>1, <2>8 DEF TypeText, TypedInto
  <2>10. editor' \in [Editors -> Tab]
    <3>1. s \in Tab
      BY <2>7, <2>8
    <3> QED BY <1>0, <2>9, <3>1
  <2> QED BY <1>6, <2>9, <2>10
<1>8. ASSUME NEW e \in Editors, NEW b \in TextBlocks, DeleteText(e, b) PROVE LinkRulesTypeOK'
  <2>1. PICK t : t = editor[e]
    OBVIOUS
  <2>2. PICK s : s = [t EXCEPT !.doc.text[b] = 0]
    OBVIOUS
  <2>3. s \in Tab
    <3>1. PICK text : text = [t.doc.text EXCEPT ![b] = 0]
      OBVIOUS
    <3>2. t \in Tab /\ t.doc \in Docs /\ t.doc.text \in Texts
      BY <1>3, <2>1 DEF Docs
    <3>3. text \in Texts
      BY <3>1, <3>2 DEF Texts
    <3>4. PICK doc : doc = [t.doc EXCEPT !.text = text]
      OBVIOUS
    <3>5. doc \in Docs
      BY <3>2, <3>3, <3>4 DEF Docs
    <3>6. s = [t EXCEPT !.doc = doc]
      BY <2>2, <3>1, <3>2, <3>4 DEF Tab, Docs
    <3> QED BY <3>2, <3>5, <3>6 DEF Tab
  <2>4. editor' = [editor EXCEPT ![e] = s]
    <3>1. editor' = [editor EXCEPT ![e].doc.text[b] = 0]
      BY <1>8 DEF DeleteText
    <3>2. editor' = [editor EXCEPT ![e] = [editor[e] EXCEPT !.doc.text[b] = 0]]
      BY <1>0, <3>1, Zenon
    <3> QED BY <2>1, <2>2, <3>2
  <2> QED BY <1>0, <1>6, <1>8, <2>3, <2>4 DEF DeleteText
<1>9. ASSUME NEW e \in Editors, SaveLinked(e) PROVE LinkRulesTypeOK'
  <2>1. PICK doc : doc = Enforce(template, editor[e].doc, signature.doc)
    OBVIOUS
  <2>2. doc \in Docs
    BY <2>1, SavedTypes
  <2>3. signature' = [signature EXCEPT !.doc = doc]
    BY <2>1, <1>9 DEF SaveLinked
  <2>4. signature' \in [linked : BOOLEAN, doc : Docs] /\ signature'.doc = doc
    BY <1>0, <2>2, <2>3
  <2>5. ownWords' = IF template.mode = "free" THEN editor[e].mine
                    ELSE ApplicableOverrides(template, KeptWords(e))
    BY <1>9 DEF SaveLinked, KeptWords
  <2>6. KeptWords(e) \in Texts
    BY <1>0, <1>3 DEF KeptWords, Texts
  <2>7. ownWords' \in Texts
    BY <1>0, <1>3, <2>5, <2>6, RefreshTypes
  <2>8. PICK s : s = [editor[e] EXCEPT !.doc = signature'.doc, !.mine = ownWords']
    OBVIOUS
  <2>9. s \in Tab
    BY <1>3, <2>2, <2>4, <2>7, <2>8 DEF Tab
  <2>10. editor' = [editor EXCEPT ![e] = s] /\ UNCHANGED <<template, templateUpdates, typings>>
    BY <1>9, <2>8 DEF SaveLinked
  <2>11. editor' \in [Editors -> Tab]
    BY <1>0, <2>9, <2>10
  <2> QED BY <1>0, <1>1, <2>4, <2>7, <2>10, <2>11
<1>10. ASSUME NEW e \in Editors, DetachLinked(e) PROVE LinkRulesTypeOK'
  <2>1. [editor[e].doc EXCEPT !.over = NoWords] \in Docs
    BY <1>2, <1>3 DEF Docs
  <2>2. signature' \in [linked : BOOLEAN, doc : Docs] /\ editor' \in [Editors -> Tab]
        /\ ownWords' \in Texts
    BY <1>2, <1>10, <2>1 DEF DetachLinked
  <2> QED BY <1>0, <1>1, <1>10, <2>2 DEF DetachLinked
<1>11. ASSUME NEW t \in Templates, SaveTemplate(t) PROVE LinkRulesTypeOK'
  <2>1. signature.doc.over \in Texts
    BY <1>2 DEF Docs
  <2>2. PICK doc : doc = RefreshFrom(t, signature.doc.over)
    OBVIOUS
  <2>3. doc \in Docs
    BY <2>1, <2>2, RefreshTypes
  <2>4. signature' = IF signature.linked THEN [signature EXCEPT !.doc = doc] ELSE signature
    BY <1>11, <2>2 DEF SaveTemplate
  <2>5. signature' \in [linked : BOOLEAN, doc : Docs]
    BY <1>0, <2>3, <2>4
  <2>6. ownWords' \in Texts
    BY <1>0, <1>11, RefreshTypes DEF SaveTemplate
  <2>7. templateUpdates' \in 0..MaxTemplateUpdates
    BY <1>0, <1>11, LinkRulesAssumption DEF SaveTemplate
  <2> QED BY <1>0, <1>1, <1>11, <2>5, <2>6, <2>7 DEF SaveTemplate
<1> QED BY <1>4, <1>5, <1>7, <1>8, <1>9, <1>10, <1>11 DEF LinkRulesNext

\* Whatever tabs save, the stored documents and the tabs keep their types.
THEOREM LinkTypesHold == LinkRulesSpec => []LinkRulesTypeOK
<1>1. LinkRulesInit => LinkRulesTypeOK
  BY InitLinks DEF LinkInv
<1> QED BY <1>1, LinkTypesStep, PTL DEF LinkRulesSpec

-----------------------------------------------------------------------------
(* Numbers. *)

LEMMA LeastNumber ==
    ASSUME NEW S \in SUBSET Nat, S # {}
    PROVE  Min(S) \in S /\ \A n \in S : Min(S) <= n
<1> DEFINE Upto(n) == 0 .. n
           T == {Upto(n) : n \in S}
           R == StrictSubsetOrdering(Nat)
<1>1. T \subseteq FiniteSubsetsOf(Nat)
  <2>1. \A n \in S : Upto(n) \subseteq Nat /\ IsFiniteSet(Upto(n))
    BY FS_Interval
  <2> QED BY <2>1 DEF FiniteSubsetsOf
<1>2. T # {}
  OBVIOUS
<1>3. PICK x \in T : \A y \in T : ~ (<<y, x>> \in R)
  <2>1. IsWellFoundedOn(R, FiniteSubsetsOf(Nat))
    BY FS_StrictSubsetOrderingWellFounded
  <2> HIDE DEF T, R
  <2> QED BY <1>1, <1>2, <2>1, WFMin
<1>4. PICK m \in S : x = Upto(m)
  BY <1>3
<1>5. \A n \in S : m <= n
  <2> SUFFICES ASSUME NEW n \in S, n < m PROVE FALSE
    OBVIOUS
  <2>1. /\ Upto(n) \subseteq Nat /\ Upto(m) \subseteq Nat /\ Upto(n) \subseteq Upto(m)
        /\ m \in Upto(m) /\ m \notin Upto(n)
    OBVIOUS
  <2>2. <<Upto(n), Upto(m)>> \in R
    <3> HIDE DEF Upto
    <3> QED BY <2>1 DEF StrictSubsetOrdering
  <2> QED BY <1>3, <1>4, <2>2
<1> QED BY <1>5 DEF Min

\* Induction over the numbers up to N.
LEMMA UpTo ==
    ASSUME NEW N \in Nat, NEW Good, 0 \in Good,
           \A n \in Nat : n < N /\ n \in Good => n + 1 \in Good
    PROVE  \A n \in 0..N : n \in Good
<1> DEFINE Bad == {n \in 0..N : n \notin Good}
<1> SUFFICES ASSUME Bad # {} PROVE FALSE
  OBVIOUS
<1>1. Bad \in SUBSET Nat
  OBVIOUS
<1>2. PICK m \in Bad : \A n \in Bad : m <= n
  <2> HIDE DEF Bad
  <2> QED BY <1>1, LeastNumber
<1>3. m # 0 /\ m \in Nat /\ m <= N
  OBVIOUS
<1>4. m - 1 \in Nat /\ m - 1 < N /\ m - 1 \in 0..N /\ ~(m <= m - 1)
  BY <1>3
<1>5. m - 1 \notin Bad
  <2> HIDE DEF Bad
  <2> QED BY <1>2, <1>4
<1>6. m - 1 \in Good
  BY <1>4, <1>5
<1>7. (m - 1) + 1 \in Good
  BY <1>4, <1>6
<1>8. (m - 1) + 1 = m
  BY <1>3
<1> QED BY <1>7, <1>8

-----------------------------------------------------------------------------
(* The tree of blocks. *)

\* How deep each block is: one deeper than the container it is in.
Levels(d) ==
    /\ d \in [live -> 0..MaxNesting]
    /\ \A b \in live :
          /\ IF place[b].in = 0 THEN place[b] = Top /\ d[b] = 0
             ELSE /\ place[b].in \in live /\ place[b].column <= columns[place[b].in]
                  /\ d[b] = d[place[b].in] + 1
          /\ columns[b] > 0 => d[b] < MaxNesting

TreeTypes ==
    /\ policy \in {"free", "locks"}
    /\ live \subseteq Blocks /\ locked \subseteq live
    /\ place \in [Blocks -> [in : {0} \cup Blocks, column : 1..MaxColumns]]
    /\ columns \in [Blocks -> 0..MaxColumns]

TreeInv == TreeTypes /\ \E d \in [live -> 0..MaxNesting] : Levels(d)

\* The rounds in which Around() collects the containers of a block.
Round(up, b, n) ==
    IF n = 0 THEN {place[b].in} \ {0}
    ELSE LET inner == up[n - 1]
         IN  inner \cup ({place[c].in : c \in inner} \ {0})
Rounds(b) == CHOOSE up : up = [n \in 0..MaxNesting |-> Round(up, b, n)]

LEMMA NestingIsNat == MaxNesting \in Nat /\ MaxNesting - 1 \in Nat /\ MaxColumns \in Nat /\ MaxColumns > 0
BY DocumentTreeAssumption

LEMMA RoundsExist == ASSUME NEW b PROVE Rounds(b) = [n \in 0..MaxNesting |-> Round(Rounds(b), b, n)]
<1> DEFINE Has(n) == \E up : up = [m \in 0..n |-> Round(up, b, m)]
           Good == {n \in Nat : Has(n)}
<1>1. 0 \in Good
  <2> DEFINE up == [m \in 0..0 |-> {place[b].in} \ {0}]
  <2>1. \A m \in 0..0 : Round(up, b, m) = {place[b].in} \ {0}
    BY DEF Round
  <2>2. up = [m \in 0..0 |-> Round(up, b, m)]
    BY <2>1
  <2>3. Has(0)
    <3> HIDE DEF up
    <3> QED BY <2>2
  <2> QED BY <2>3
<1>2. ASSUME NEW n \in Nat, n \in Good PROVE n + 1 \in Good
  <2>1. PICK old : old = [m \in 0..n |-> Round(old, b, m)]
    BY <1>2
  <2> DEFINE up == [m \in 0..(n + 1) |-> Round(old, b, m)]
  <2>2. \A m \in 0..n : up[m] = old[m]
    <3> SUFFICES ASSUME NEW m \in 0..n PROVE up[m] = old[m]
      OBVIOUS
    <3>1. m \in 0..(n + 1)
      OBVIOUS
    <3>2. up[m] = Round(old, b, m)
      BY <3>1
    <3>3. old[m] = Round(old, b, m)
      BY <2>1
    <3> QED BY <3>2, <3>3
  <2>3. \A m \in 0..(n + 1) : Round(up, b, m) = Round(old, b, m)
    <3> SUFFICES ASSUME NEW m \in 0..(n + 1) PROVE Round(up, b, m) = Round(old, b, m)
      OBVIOUS
    <3>1. m # 0 => m - 1 \in 0..n
      OBVIOUS
    <3>2. m # 0 => up[m - 1] = old[m - 1]
      BY <2>2, <3>1
    <3> HIDE DEF up
    <3> QED BY <3>2 DEF Round
  <2>4. up = [m \in 0..(n + 1) |-> Round(up, b, m)]
    <3>1. [m \in 0..(n + 1) |-> Round(old, b, m)] = [m \in 0..(n + 1) |-> Round(up, b, m)]
      <4> HIDE DEF up
      <4> QED BY <2>3
    <3> QED BY <3>1
  <2>5. Has(n + 1)
    <3> HIDE DEF up
    <3> QED BY <2>4
  <2> QED BY <2>5
<1>3. MaxNesting \in 0..MaxNesting
  BY NestingIsNat
<1>4. MaxNesting \in Good
  <2> HIDE DEF Good
  <2> QED BY <1>1, <1>2, <1>3, UpTo, NestingIsNat
<1>5. Has(MaxNesting)
  BY <1>4
<1> QED BY <1>5 DEF Rounds

LEMMA AroundIsTheLast == ASSUME NEW b PROVE Around(b) = Rounds(b)[MaxNesting]
BY DEF Around, Rounds, Round

LEMMA FirstRound ==
    ASSUME NEW b
    PROVE  /\ Rounds(b)[0] = {place[b].in} \ {0}
           /\ \A n \in 0..(MaxNesting - 1) :
                 Rounds(b)[n + 1] = Rounds(b)[n] \cup ({place[c].in : c \in Rounds(b)[n]} \ {0})
<1> DEFINE R == Rounds(b)
<1>1. R = [n \in 0..MaxNesting |-> Round(R, b, n)]
  BY RoundsExist
<1> HIDE DEF R
<1>2. 0 \in 0..MaxNesting
  BY NestingIsNat
<1>3. R[0] = {place[b].in} \ {0}
  <2>1. R[0] = Round(R, b, 0)
    BY <1>1, <1>2
  <2> QED BY <2>1 DEF Round
<1>4. ASSUME NEW n \in 0..(MaxNesting - 1)
      PROVE  R[n + 1] = R[n] \cup ({place[c].in : c \in R[n]} \ {0})
  <2>1. n + 1 \in 0..MaxNesting /\ n + 1 # 0 /\ (n + 1) - 1 = n
    BY NestingIsNat
  <2>2. R[n + 1] = Round(R, b, n + 1)
    BY <1>1, <2>1
  <2> QED BY <2>1, <2>2 DEF Round
<1> QED BY <1>3, <1>4 DEF R

\* What is around a block is the container it is in and what is around that.
LEMMA RoundsOfParent ==
    ASSUME NEW b, NEW p, p = place[b].in
    PROVE  /\ p = 0 => \A n \in 0..MaxNesting : Rounds(b)[n] = {}
           /\ p # 0 => \A n \in 0..(MaxNesting - 1) : Rounds(b)[n + 1] = {p} \cup Rounds(p)[n]
<1>1. ASSUME p = 0 PROVE \A n \in 0..MaxNesting : Rounds(b)[n] = {}
  <2> DEFINE Good == {n \in 0..MaxNesting : Rounds(b)[n] = {}}
  <2>1. 0 \in Good
    <3>1. Rounds(b)[0] = {place[b].in} \ {0}
      BY FirstRound
    <3>2. {place[b].in} \ {0} = {} /\ 0 \in 0..MaxNesting
      BY <1>1, NestingIsNat
    <3> QED BY <3>1, <3>2
  <2>2. ASSUME NEW n \in Nat, n < MaxNesting, n \in Good PROVE n + 1 \in Good
    <3>1. n \in 0..(MaxNesting - 1) /\ n + 1 \in 0..MaxNesting
      BY <2>2, NestingIsNat
    <3> QED BY <2>2, <3>1, FirstRound
  <2>3. \A n \in 0..MaxNesting : n \in Good
    <3> HIDE DEF Good
    <3> QED BY <2>1, <2>2, UpTo, NestingIsNat
  <2> QED BY <2>3
<1>2. ASSUME p # 0
      PROVE  \A n \in 0..(MaxNesting - 1) : Rounds(b)[n + 1] = {p} \cup Rounds(p)[n]
  <2> DEFINE B == Rounds(b)
             P == Rounds(p)
             Good == {n \in 0..(MaxNesting - 1) : B[n + 1] = {p} \cup P[n] /\ P[0] \subseteq P[n]}
  <2>0. /\ B[0] = {p} /\ P[0] = {place[p].in} \ {0}
        /\ \A n \in 0..(MaxNesting - 1) : B[n + 1] = B[n] \cup ({place[c].in : c \in B[n]} \ {0})
        /\ \A n \in 0..(MaxNesting - 1) : P[n + 1] = P[n] \cup ({place[c].in : c \in P[n]} \ {0})
    BY <1>2, FirstRound
  <2> HIDE DEF B, P
  <2>1. 0 \in Good
    <3>1. 0 \in 0..(MaxNesting - 1) /\ 0 + 1 = 1
      BY NestingIsNat
    <3>2. B[1] = B[0] \cup ({place[c].in : c \in B[0]} \ {0})
      BY <2>0, <3>1
    <3>3. {place[c].in : c \in B[0]} = {place[p].in}
      BY <2>0
    <3> QED BY <2>0, <3>1, <3>2, <3>3
  <2>2. ASSUME NEW n \in Nat, n < MaxNesting - 1, n \in Good PROVE n + 1 \in Good
    <3>1. n \in 0..(MaxNesting - 1) /\ n + 1 \in 0..(MaxNesting - 1)
      BY <2>2, NestingIsNat
    <3>2. B[(n + 1) + 1] = B[n + 1] \cup ({place[c].in : c \in B[n + 1]} \ {0})
      BY <2>0, <3>1
    <3>3. P[n + 1] = P[n] \cup ({place[c].in : c \in P[n]} \ {0})
      BY <2>0, <3>1
    <3>4. {place[c].in : c \in B[n + 1]} = {place[p].in} \cup {place[c].in : c \in P[n]}
      BY <2>2
    <3>5. {place[p].in} \ {0} \subseteq P[n]
      BY <2>0, <2>2
    <3> QED BY <2>2, <3>1, <3>2, <3>3, <3>4, <3>5
  <2>3. \A n \in 0..(MaxNesting - 1) : n \in Good
    <3> HIDE DEF Good
    <3> QED BY <2>1, <2>2, UpTo, NestingIsNat
  <2> QED BY <2>3 DEF B, P
<1> QED BY <1>1, <1>2

\* Once a block is no deeper than the number of rounds, another round adds nothing.
LEMMA RoundsEnd0 ==
    ASSUME NEW d, Levels(d)
    PROVE  \A n \in 0..(MaxNesting - 1) : \A b \in live :
              d[b] <= n + 1 => Rounds(b)[n + 1] = Rounds(b)[n]
<1> DEFINE Good == {n \in 0..(MaxNesting - 1) : \A b \in live :
                      d[b] <= n + 1 => Rounds(b)[n + 1] = Rounds(b)[n]}
<1>0. \A b \in live : d[b] \in Nat
  BY NestingIsNat DEF Levels
<1>1. 0 \in Good
  <2>1. 0 \in 0..(MaxNesting - 1) /\ 0 \in 0..MaxNesting /\ 1 \in 0..MaxNesting
    BY NestingIsNat
  <2>2. ASSUME NEW b \in live, d[b] <= 1 PROVE Rounds(b)[1] = Rounds(b)[0]
    <3>1. CASE place[b].in = 0
      <4>1. \A n1 \in 0..MaxNesting : Rounds(b)[n1] = {}
        BY <3>1, RoundsOfParent
      <4> QED BY <2>1, <4>1
    <3>2. CASE place[b].in # 0
      <4> DEFINE p == place[b].in
      <4>1. p \in live /\ d[b] = d[p] + 1
        BY <3>2 DEF Levels
      <4>2. d[p] = 0
        BY <1>0, <2>2, <4>1
      <4>3. place[p].in = 0
        BY <1>0, <4>1, <4>2 DEF Levels
      <4>4. Rounds(b)[0 + 1] = {p} \cup Rounds(p)[0]
        BY <2>1, <3>2, RoundsOfParent
      <4>5. Rounds(p)[0] = {} /\ Rounds(b)[0] = {p}
        BY <3>2, <4>3, FirstRound
      <4> QED BY <4>4, <4>5
    <3> QED BY <3>1, <3>2
  <2> QED BY <2>1, <2>2
<1>2. ASSUME NEW n \in Nat, n < MaxNesting - 1, n \in Good PROVE n + 1 \in Good
  <2>1. /\ n \in 0..(MaxNesting - 1) /\ n + 1 \in 0..(MaxNesting - 1)
        /\ n + 1 \in 0..MaxNesting /\ (n + 1) + 1 \in 0..MaxNesting
    BY <1>2, NestingIsNat
  <2>2. ASSUME NEW b \in live, d[b] <= (n + 1) + 1
        PROVE  Rounds(b)[(n + 1) + 1] = Rounds(b)[n + 1]
    <3>1. CASE place[b].in = 0
      <4>1. \A n1 \in 0..MaxNesting : Rounds(b)[n1] = {}
        BY <3>1, RoundsOfParent
      <4> QED BY <2>1, <4>1
    <3>2. CASE place[b].in # 0
      <4> DEFINE p == place[b].in
      <4>1. p \in live /\ d[b] = d[p] + 1
        BY <3>2 DEF Levels
      <4>2. d[p] <= n + 1
        BY <1>0, <2>2, <4>1
      <4>3. Rounds(p)[n + 1] = Rounds(p)[n]
        BY <1>2, <4>1, <4>2
      <4>4. /\ Rounds(b)[n + 1] = {p} \cup Rounds(p)[n]
            /\ Rounds(b)[(n + 1) + 1] = {p} \cup Rounds(p)[n + 1]
        BY <2>1, <3>2, RoundsOfParent
      <4> QED BY <4>3, <4>4
    <3> QED BY <3>1, <3>2
  <2> QED BY <2>1, <2>2
<1>3. \A n \in 0..(MaxNesting - 1) : n \in Good
  <2> HIDE DEF Good
  <2> QED BY <1>1, <1>2, UpTo, NestingIsNat
<1> QED BY <1>3

LEMMA AroundParent ==
    ASSUME NEW d, Levels(d), NEW b \in live
    PROVE  IF place[b].in = 0 THEN Around(b) = {}
           ELSE Around(b) = {place[b].in} \cup Around(place[b].in)
<1>1. MaxNesting - 1 \in 0..(MaxNesting - 1) /\ (MaxNesting - 1) + 1 = MaxNesting /\ MaxNesting \in 0..MaxNesting
  BY NestingIsNat
<1>2. CASE place[b].in = 0
  BY <1>1, <1>2, RoundsOfParent, AroundIsTheLast
<1>3. CASE place[b].in # 0
  <2> DEFINE p == place[b].in
  <2>1. p \in live /\ d[p] <= (MaxNesting - 1) + 1
    BY <1>1, <1>3, NestingIsNat DEF Levels
  <2>2. Rounds(p)[MaxNesting] = Rounds(p)[MaxNesting - 1]
    BY <1>1, <2>1, RoundsEnd0
  <2>3. Rounds(b)[MaxNesting] = {p} \cup Rounds(p)[MaxNesting - 1]
    BY <1>1, <1>3, RoundsOfParent
  <2> QED BY <1>3, <2>2, <2>3, AroundIsTheLast
<1> QED BY <1>2, <1>3

\* Induction along the tree, from the top.
LEMMA TreeInduction ==
    ASSUME NEW d, Levels(d), NEW Good,
           \A b \in live : (place[b].in # 0 => place[b].in \in Good) => b \in Good
    PROVE  live \subseteq Good
<1> DEFINE Bad == {b \in live : b \notin Good}
           Deep == {d[b] : b \in Bad}
<1>0. \A b \in live : d[b] \in Nat
  BY NestingIsNat DEF Levels
<1> SUFFICES ASSUME Bad # {} PROVE FALSE
  OBVIOUS
<1>1. Deep \in SUBSET Nat /\ Deep # {}
  BY <1>0
<1>2. PICK m \in Deep : \A n \in Deep : m <= n
  <2> HIDE DEF Deep
  <2> QED BY <1>1, LeastNumber
<1>3. PICK b \in Bad : d[b] = m
  OBVIOUS
<1>4. place[b].in # 0 /\ place[b].in \in Bad
  BY <1>3 DEF Levels
<1>5. d[place[b].in] \in Deep /\ d[b] = d[place[b].in] + 1 /\ d[place[b].in] \in Nat
  BY <1>0, <1>3, <1>4 DEF Levels
<1>6. m <= d[place[b].in]
  <2> HIDE DEF Deep
  <2> QED BY <1>2, <1>5
<1> QED BY <1>3, <1>5, <1>6

LEMMA AroundIsDeep ==
    ASSUME TreeTypes, NEW d, Levels(d), NEW b \in live
    PROVE  /\ Around(b) \subseteq live /\ IsFiniteSet(Around(b)) /\ Depth(b) = d[b]
           /\ \A x \in Around(b) : d[x] < d[b] /\ columns[x] > 0 /\ x # 0
           /\ b \notin Around(b) /\ d[b] \in Nat /\ b # 0 /\ b \in Blocks
<1>0. \A x \in live : d[x] \in Nat /\ x \in Nat /\ x # 0 /\ x \in Blocks
  BY NestingIsNat, DocumentTreeAssumption DEF Levels, TreeTypes
<1> DEFINE Fits(x) == /\ Around(x) \subseteq live /\ IsFiniteSet(Around(x))
                      /\ Cardinality(Around(x)) = d[x]
                      /\ \A y \in Around(x) : d[y] < d[x] /\ columns[y] > 0
           Good == {x \in live : Fits(x)}
<1>1. ASSUME NEW x \in live, place[x].in # 0 => place[x].in \in Good PROVE x \in Good
  <2>1. CASE place[x].in = 0
    <3>1. Around(x) = {} /\ d[x] = 0
      BY <2>1, AroundParent DEF Levels
    <3> QED BY <3>1, FS_EmptySet
  <2>2. CASE place[x].in # 0
    <3> DEFINE p == place[x].in
    <3>1. /\ p \in live /\ d[x] = d[p] + 1 /\ place[x].column <= columns[p]
          /\ Around(x) = {p} \cup Around(p) /\ p \in Good
      BY <1>1, <2>2, AroundParent DEF Levels
    <3>2. Fits(p)
      BY <3>1
    <3>3. p \notin Around(p) /\ d[p] \in Nat
      BY <1>0, <3>1, <3>2
    <3>4. columns[p] > 0
      BY <1>0, <3>1, NestingIsNat DEF TreeTypes
    <3>5. /\ IsFiniteSet(Around(p) \cup {p})
          /\ Cardinality(Around(p) \cup {p}) = Cardinality(Around(p)) + 1
      BY <3>2, <3>3, FS_AddElement
    <3>6. Around(x) = Around(p) \cup {p}
      BY <3>1
    <3>7. \A y \in Around(x) : d[y] < d[x] /\ columns[y] > 0
      BY <1>0, <3>1, <3>2, <3>3, <3>4
    <3> QED BY <3>1, <3>2, <3>5, <3>6, <3>7
  <2> QED BY <2>1, <2>2
<1>2. live \subseteq Good
  <2> HIDE DEF Good
  <2> QED BY <1>1, TreeInduction
<1>3. Fits(b)
  BY <1>2
<1>4. \A x \in Around(b) : x # 0
  BY <1>0, <1>3
<1>5. b \notin Around(b)
  BY <1>0, <1>3
<1> QED BY <1>0, <1>3, <1>4, <1>5 DEF Depth

\* Of two blocks around a third, one is around the other.
LEMMA AroundIsAChain ==
    ASSUME TreeTypes, NEW d, Levels(d), NEW x \in live
    PROVE  \A a, c \in Around(x) : a = c \/ a \in Around(c) \/ c \in Around(a)
<1> DEFINE Fits(y) == \A a, c \in Around(y) : a = c \/ a \in Around(c) \/ c \in Around(a)
           Good == {y \in live : Fits(y)}
<1>1. ASSUME NEW y \in live, place[y].in # 0 => place[y].in \in Good PROVE y \in Good
  <2>1. CASE place[y].in = 0
    BY <2>1, AroundParent
  <2>2. CASE place[y].in # 0
    <3>1. Around(y) = {place[y].in} \cup Around(place[y].in) /\ Fits(place[y].in)
      BY <1>1, <2>2, AroundParent
    <3> QED BY <3>1
  <2> QED BY <2>1, <2>2
<1>2. live \subseteq Good
  <2> HIDE DEF Good
  <2> QED BY <1>1, TreeInduction
<1> QED BY <1>2

\* What is in a block that is in a second one is in the second one.
LEMMA AroundIsTransitive ==
    ASSUME TreeTypes, NEW d, Levels(d), NEW x \in live
    PROVE  \A a \in Around(x) : Around(a) \subseteq Around(x)
<1> DEFINE Fits(y) == \A a \in Around(y) : Around(a) \subseteq Around(y)
           Good == {y \in live : Fits(y)}
<1>1. ASSUME NEW y \in live, place[y].in # 0 => place[y].in \in Good PROVE y \in Good
  <2>1. CASE place[y].in = 0
    BY <2>1, AroundParent
  <2>2. CASE place[y].in # 0
    <3>1. Around(y) = {place[y].in} \cup Around(place[y].in) /\ Fits(place[y].in)
      BY <1>1, <2>2, AroundParent
    <3> QED BY <3>1
  <2> QED BY <2>1, <2>2
<1>2. live \subseteq Good
  <2> HIDE DEF Good
  <2> QED BY <1>1, TreeInduction
<1> QED BY <1>2

\* The blocks below one: each but the first is in a container that is one of them.
LEMMA SubtreeOf ==
    ASSUME TreeTypes, NEW d, Levels(d), NEW b \in live
    PROVE  /\ Subtree(b) \subseteq live /\ b \in Subtree(b) /\ IsFiniteSet(Subtree(b))
           /\ \A x \in Subtree(b) : d[b] <= d[x] /\ d[x] \in Nat
           /\ \A x \in Subtree(b) : x # b => b \in Around(x) /\ place[x].in # 0 /\ place[x].in \in Subtree(b)
           /\ \A x \in live : place[x].in \in Subtree(b) => x \in Subtree(b)
<1>1. \A x \in live : b \in Around(x) <=> IsDescendantOf(b, x)
  BY AroundIsDeep, NestingIsNat DEF IsDescendantOf, Top
<1>2. Subtree(b) = {b} \cup {x \in live : b \in Around(x)}
  BY <1>1 DEF Subtree
<1>3. IsFiniteSet(Blocks) /\ Subtree(b) \in SUBSET Blocks
  BY <1>2, DocumentTreeAssumption DEF TreeTypes
<1>4. IsFiniteSet(Subtree(b))
  BY <1>3, FS_Subset
<1>5. \A x \in Subtree(b) : d[b] <= d[x] /\ d[x] \in Nat
  BY <1>2, AroundIsDeep
<1>6. ASSUME NEW x \in Subtree(b), x # b
      PROVE  b \in Around(x) /\ place[x].in # 0 /\ place[x].in \in Subtree(b)
  <2>1. x \in live /\ b \in Around(x)
    BY <1>2, <1>6
  <2>2. place[x].in # 0 /\ Around(x) = {place[x].in} \cup Around(place[x].in)
    BY <2>1, AroundParent
  <2>3. place[x].in \in live
    BY <2>1, <2>2 DEF Levels
  <2> QED BY <1>2, <2>1, <2>2, <2>3
<1>7. ASSUME NEW x \in live, place[x].in \in Subtree(b) PROVE x \in Subtree(b)
  <2>1. place[x].in # 0
    BY <1>2, <1>7, AroundIsDeep
  <2>2. Around(x) = {place[x].in} \cup Around(place[x].in)
    BY <2>1, AroundParent
  <2> QED BY <1>2, <1>7, <2>2
<1> QED BY <1>2, <1>4, <1>5, <1>6, <1>7

LEMMA InvHasTypes == TreeInv => DocumentTreeTypeOK
<1> SUFFICES ASSUME TreeInv PROVE DocumentTreeTypeOK
  OBVIOUS
<1>1. TreeTypes
  BY DEF TreeInv
<1>2. PICK d \in [live -> 0..MaxNesting] : Levels(d)
  BY DEF TreeInv
<1>3. ASSUME NEW b \in live
      PROVE  /\ b \notin Around(b)
             /\ Around(b) \subseteq Containers /\ place[b] \in Lists
             /\ Depth(b) + (IF columns[b] > 0 THEN 1 ELSE 0) <= MaxNesting
  <2>1. /\ b \notin Around(b) /\ Around(b) \subseteq live /\ Depth(b) = d[b] /\ d[b] \in Nat
        /\ \A x \in Around(b) : columns[x] > 0
    BY <1>1, <1>2, AroundIsDeep
  <2>2. Around(b) \subseteq Containers
    BY <2>1 DEF Containers
  <2>3. d[b] + (IF columns[b] > 0 THEN 1 ELSE 0) <= MaxNesting
    BY <1>2, <2>1, NestingIsNat DEF Levels
  <2>4. place[b] \in Lists
    <3>1. CASE place[b].in = 0
      BY <1>2, <3>1 DEF Levels, Lists
    <3>2. CASE place[b].in # 0
      <4>1. place[b].in \in Around(b) /\ place[b].column <= columns[place[b].in]
        BY <1>2, <3>2, AroundParent DEF Levels
      <4>2. place[b] \in [in : Containers, column : 1..MaxColumns]
        BY <1>1, <2>2, <4>1 DEF TreeTypes
      <4> QED BY <4>1, <4>2 DEF Lists
    <3> QED BY <3>1, <3>2
  <2> QED BY <2>1, <2>2, <2>3, <2>4
<1> QED BY <1>1, <1>3 DEF TreeTypes, DocumentTreeTypeOK

\* The lists of the document, and how deep what is put there will be.
LEMMA ListOf ==
    ASSUME TreeTypes, NEW d, Levels(d), NEW list \in Lists
    PROVE  /\ list \in [in : {0} \cup Blocks, column : 1..MaxColumns]
           /\ list.in = 0 => list = Top /\ DepthOf(list) = 0
           /\ list.in # 0 => /\ list.in \in live /\ list.column <= columns[list.in]
                             /\ DepthOf(list) = d[list.in] + 1
           /\ DepthOf(list) \in Nat
<1>1. Top \in [in : {0} \cup Blocks, column : 1..MaxColumns] /\ Top.in = 0
  BY NestingIsNat DEF Top
<1>2. CASE list = Top
  BY <1>1, <1>2 DEF DepthOf
<1>3. CASE list # Top
  <2>1. /\ list \in [in : Containers, column : 1..MaxColumns]
        /\ list.column <= columns[list.in]
    BY <1>3 DEF Lists
  <2>2. list.in \in live /\ list.in \in Blocks /\ list.in # 0
    BY <2>1, AroundIsDeep DEF Containers
  <2>3. DepthOf(list) = d[list.in] + 1 /\ d[list.in] \in Nat
    BY <1>3, <2>2, AroundIsDeep DEF DepthOf
  <2> QED BY <2>1, <2>2, <2>3
<1> QED BY <1>2, <1>3

-----------------------------------------------------------------------------
(* Each operation keeps the tree a tree. *)

LEMMA LeastOfTwo ==
    ASSUME NEW i \in Int, NEW n \in Int
    PROVE  Min({i, n}) \in {i, n} /\ Min({i, n}) <= i /\ Min({i, n}) <= n
<1>1. \E x \in {i, n} : \A y \in {i, n} : x <= y
  <2>1. CASE i <= n
    <3>1. \A y \in {i, n} : i <= y
      BY <2>1
    <3> QED BY <3>1
  <2>2. CASE ~(i <= n)
    <3>1. \A y \in {i, n} : n <= y
      BY <2>2
    <3> QED BY <3>1
  <2> QED BY <2>1, <2>2
<1>2. /\ Min({i, n}) \in {i, n} /\ \A y \in {i, n} : Min({i, n}) <= y
  BY <1>1 DEF Min
<1> QED BY <1>2

\* An operation on the columns of a container takes its blocks to columns it has.
LEMMA RenumberKeeps ==
    ASSUME TreeInv, NEW c \in Containers, NEW to, Renumber(c, to),
           \A i \in 1..columns[c] : to[i] \in 1..MaxColumns /\ to[i] <= columns'[c],
           columns' \in [Blocks -> 0..MaxColumns],
           \A x \in Blocks : x # c => columns'[x] = columns[x],
           UNCHANGED <<policy, live, locked>>
    PROVE  TreeInv'
<1> USE DEF TreeInv
<1>1. PICK d \in [live -> 0..MaxNesting] : Levels(d)
  OBVIOUS
<1>2. \A b \in live : IF place[b].in = c THEN place'[b] = [place[b] EXCEPT !.column = to[@]]
                      ELSE place'[b] = place[b]
  BY DEF Renumber, TreeTypes
<1>3. ASSUME NEW b \in live
      PROVE  /\ place'[b].in = place[b].in
             /\ IF place[b].in = 0 THEN place'[b] = Top
                ELSE place'[b].column <= columns'[place[b].in]
             /\ place'[b] \in [in : {0} \cup Blocks, column : 1..MaxColumns]
  <2>0. /\ place[b] \in [in : {0} \cup Blocks, column : 1..MaxColumns] /\ c # 0 /\ c \in live
    BY <1>1, AroundIsDeep DEF TreeTypes, Containers
  <2>1. CASE place[b].in = c
    <3>1. place[b].column \in 1..columns[c]
      <4>1. place[b].column <= columns[c] /\ columns[c] \in Nat
        BY <1>1, <2>0, <2>1, NestingIsNat DEF Levels, TreeTypes
      <4> QED BY <2>0, <4>1, NestingIsNat
    <3>2. to[place[b].column] \in 1..MaxColumns /\ to[place[b].column] <= columns'[c]
      BY <3>1
    <3>3. PICK w : w = [place[b] EXCEPT !.column = to[@]]
      OBVIOUS
    <3>4. w.in = c /\ w.column = to[place[b].column] /\ w \in [in : {0} \cup Blocks, column : 1..MaxColumns]
      BY <2>0, <2>1, <3>2, <3>3
    <3>5. place'[b] = w
      BY <1>2, <2>1, <3>3
    <3> QED BY <2>0, <2>1, <3>2, <3>4, <3>5
  <2>2. CASE place[b].in # c
    <3>1. place'[b] = place[b]
      BY <1>2, <2>2
    <3>2. place[b].in # 0 => columns'[place[b].in] = columns[place[b].in]
      BY <2>0, <2>2
    <3> QED BY <1>1, <2>0, <3>1, <3>2 DEF Levels
  <2> QED BY <2>1, <2>2
<1>4. TreeTypes'
  <2>1. place' = [b \in Blocks |-> IF b \in live /\ place[b].in = c
                                   THEN [place[b] EXCEPT !.column = to[@]] ELSE place[b]]
    BY DEF Renumber
  <2>2. \A b \in Blocks : b \notin live => place'[b] = place[b]
    BY <2>1
  <2>3. \A b \in Blocks : place'[b] \in [in : {0} \cup Blocks, column : 1..MaxColumns]
    BY <1>3, <2>2 DEF TreeTypes
  <2>4. place' \in [Blocks -> [in : {0} \cup Blocks, column : 1..MaxColumns]]
    BY <2>1, <2>3
  <2> QED BY <2>4 DEF TreeTypes
<1>5. \A b \in live : columns'[b] > 0 => d[b] < MaxNesting
  BY <1>1 DEF Levels, TreeTypes, Containers
<1>6. Levels(d)'
  BY <1>1, <1>3, <1>5 DEF Levels
<1> QED BY <1>1, <1>4, <1>6

LEMMA SetColumnsKeeps ==
    ASSUME TreeInv, NEW c \in Containers, NEW n \in 1..MaxColumns, SetColumns(c, n)
    PROVE  TreeInv'
<1> DEFINE to == [i \in 1..MaxColumns |-> Min({i, n})]
<1>0. TreeTypes /\ c \in Blocks /\ columns[c] \in 1..MaxColumns
  BY NestingIsNat DEF TreeInv, TreeTypes, Containers
<1>1. Renumber(c, to) /\ UNCHANGED <<policy, live, locked>> /\ columns' = [columns EXCEPT ![c] = n]
  BY DEF SetColumns
<1>2. /\ columns' \in [Blocks -> 0..MaxColumns] /\ columns'[c] = n
      /\ \A x \in Blocks : x # c => columns'[x] = columns[x]
  BY <1>0, <1>1, NestingIsNat DEF TreeTypes
<1>3. ASSUME NEW i \in 1..columns[c] PROVE to[i] \in 1..MaxColumns /\ to[i] <= n
  <2>1. i \in 1..MaxColumns
    BY <1>0, NestingIsNat
  <2>2. to[i] = Min({i, n})
    BY <2>1
  <2>3. Min({i, n}) \in {i, n} /\ Min({i, n}) <= n
    <3>1. i \in Int /\ n \in Int
      BY <2>1, NestingIsNat
    <3> QED BY <3>1, LeastOfTwo
  <2> QED BY <2>1, <2>2, <2>3
<1> HIDE DEF to
<1> QED BY <1>1, <1>2, <1>3, RenumberKeeps

LEMMA RemoveColumnKeeps ==
    ASSUME TreeInv, NEW c \in Containers, NEW n \in 1..MaxColumns, RemoveColumn(c, n)
    PROVE  TreeInv'
<1> DEFINE to == [i \in 1..MaxColumns |-> IF i < n \/ i = 1 THEN i ELSE i - 1]
<1>0. TreeTypes /\ c \in Blocks /\ columns[c] \in 1..MaxColumns
  BY NestingIsNat DEF TreeInv, TreeTypes, Containers
<1>1. /\ Renumber(c, to) /\ UNCHANGED <<policy, live, locked>>
      /\ columns' = [columns EXCEPT ![c] = @ - 1] /\ columns[c] > 1 /\ n <= columns[c]
  BY DEF RemoveColumn
<1>2. /\ columns' \in [Blocks -> 0..MaxColumns] /\ columns'[c] = columns[c] - 1
      /\ \A x \in Blocks : x # c => columns'[x] = columns[x]
  <2>1. columns[c] - 1 \in 0..MaxColumns
    BY <1>0, NestingIsNat
  <2> QED BY <1>0, <1>1, <2>1 DEF TreeTypes
<1>3. ASSUME NEW i \in 1..columns[c] PROVE to[i] \in 1..MaxColumns /\ to[i] <= columns[c] - 1
  <2>1. i \in 1..MaxColumns
    BY <1>0, NestingIsNat
  <2>2. to[i] = IF i < n \/ i = 1 THEN i ELSE i - 1
    BY <2>1
  <2> QED BY <1>0, <1>1, <2>1, <2>2, NestingIsNat
<1> HIDE DEF to
<1> QED BY <1>1, <1>2, <1>3, RenumberKeeps

LEMMA MoveColumnKeeps ==
    ASSUME TreeInv, NEW c \in Containers, NEW n \in 1..MaxColumns, MoveColumn(c, n)
    PROVE  TreeInv'
<1> DEFINE to == [i \in 1..MaxColumns |->
                    CASE i = n -> n + 1 [] i = n + 1 -> n [] OTHER -> i]
<1>0. TreeTypes /\ c \in Blocks /\ columns[c] \in 1..MaxColumns
  BY NestingIsNat DEF TreeInv, TreeTypes, Containers
<1>1. /\ Renumber(c, to) /\ UNCHANGED <<policy, live, locked>>
      /\ columns' = columns /\ n < columns[c]
  BY DEF MoveColumn
<1>3. ASSUME NEW i \in 1..columns[c] PROVE to[i] \in 1..MaxColumns /\ to[i] <= columns[c]
  <2>1. i \in 1..MaxColumns
    BY <1>0, NestingIsNat
  <2>2. to[i] = CASE i = n -> n + 1 [] i = n + 1 -> n [] OTHER -> i
    BY <2>1
  <2>3. to[i] \in {n + 1, n, i}
    BY <2>2
  <2> HIDE DEF to
  <2> QED BY <1>0, <1>1, <2>1, <2>3, NestingIsNat
<1> HIDE DEF to
<1> QED BY <1>0, <1>1, <1>3, RenumberKeeps DEF TreeTypes

\* What is deleted goes with all that is in it.
LEMMA WithoutKeeps ==
    ASSUME TreeInv, NEW b \in live, Without(Subtree(b))
    PROVE  TreeInv'
<1> USE DEF TreeInv
<1>1. PICK d \in [live -> 0..MaxNesting] : Levels(d)
  OBVIOUS
<1>2. PICK S : S = Subtree(b)
  OBVIOUS
<1>3. /\ live' = live \ S /\ locked' = locked \ S
      /\ place' = [x \in Blocks |-> IF x \in S THEN Top ELSE place[x]]
      /\ columns' = [x \in Blocks |-> IF x \in S THEN 0 ELSE columns[x]]
      /\ policy' = policy
  BY <1>2 DEF Without
<1>4. S \subseteq live /\ \A x \in live : place[x].in \in S => x \in S
  BY <1>1, <1>2, SubtreeOf
<1>5. TreeTypes'
  <2>1. Top \in [in : {0} \cup Blocks, column : 1..MaxColumns] /\ 0 \in 0..MaxColumns
    BY NestingIsNat DEF Top
  <2>2. place' \in [Blocks -> [in : {0} \cup Blocks, column : 1..MaxColumns]]
    BY <1>3, <2>1 DEF TreeTypes
  <2>3. columns' \in [Blocks -> 0..MaxColumns]
    BY <1>3, <2>1 DEF TreeTypes
  <2> QED BY <1>3, <2>2, <2>3 DEF TreeTypes
<1>6. PICK e : e = [x \in live' |-> d[x]]
  OBVIOUS
<1>7. e \in [live' -> 0..MaxNesting] /\ \A x \in live' : e[x] = d[x] /\ x \in live /\ x \notin S
  BY <1>1, <1>3, <1>6
<1>8. \A x \in live' : place'[x] = place[x] /\ columns'[x] = columns[x]
  BY <1>3, <1>7 DEF TreeTypes
<1>9. \A x \in live' : place[x].in # 0 => place[x].in \in live'
  BY <1>1, <1>3, <1>4, <1>7 DEF Levels
<1>10. Levels(e)'
  BY <1>1, <1>7, <1>8, <1>9 DEF Levels
<1> QED BY <1>5, <1>7, <1>10

LEMMA GreatestNumber ==
    ASSUME NEW N \in Nat, NEW S \in SUBSET (0..N), S # {}
    PROVE  Max(S) \in S /\ \A x \in S : x <= Max(S)
<1> DEFINE R == {n \in Nat : \E x \in S : n = N - x}
<1>1. R \in SUBSET Nat /\ R # {}
  <2>1. PICK x \in S : TRUE
    OBVIOUS
  <2>2. N - x \in Nat
    OBVIOUS
  <2> QED BY <2>2
<1>2. PICK n \in R : \A k \in R : n <= k
  <2> HIDE DEF R
  <2> QED BY <1>1, LeastNumber
<1>3. PICK m \in S : n = N - m
  OBVIOUS
<1>4. ASSUME NEW x \in S PROVE m >= x
  <2>1. N - x \in R
    OBVIOUS
  <2>2. n <= N - x
    <3> HIDE DEF R
    <3> QED BY <1>2, <2>1
  <2> QED BY <1>3, <2>2
<1>5. \E y \in S : \A x \in S : y >= x
  BY <1>4
<1>6. Max(S) \in S /\ \A x \in S : Max(S) >= x
  BY <1>5 DEF Max
<1> QED BY <1>6

\* containerHeight(): above every container of the subtree, counted from its root.
LEMMA HeightOf ==
    ASSUME TreeTypes, NEW d, Levels(d), NEW b \in live
    PROVE  /\ ContainerHeight(b) \in Nat
           /\ \A x \in Subtree(b) : columns[x] > 0 => 1 + d[x] - d[b] <= ContainerHeight(b)
<1> DEFINE H == {0} \cup {1 + Depth(c) - Depth(b) : c \in Subtree(b) \cap Containers}
<1>1. ASSUME NEW x \in Subtree(b), columns[x] > 0
      PROVE  /\ 1 + d[x] - d[b] \in 0..MaxNesting /\ 1 + d[x] - d[b] \in H
  <2>1. x \in live /\ d[b] <= d[x] /\ d[x] \in Nat /\ d[b] \in Nat
    BY SubtreeOf, AroundIsDeep
  <2>2. d[x] < MaxNesting
    BY <1>1, <2>1 DEF Levels
  <2>3. Depth(x) = d[x] /\ Depth(b) = d[b]
    BY <2>1, AroundIsDeep
  <2>4. x \in Subtree(b) \cap Containers
    BY <1>1, <2>1 DEF Containers
  <2>5. 1 + Depth(x) - Depth(b) \in H
    BY <2>4
  <2> QED BY <2>1, <2>2, <2>3, <2>5, NestingIsNat
<1>2. H \in SUBSET (0..MaxNesting)
  <2>1. ASSUME NEW h \in H PROVE h \in 0..MaxNesting
    <3>1. CASE h = 0
      BY <3>1, NestingIsNat
    <3>2. CASE h # 0
      <4>1. PICK x \in Subtree(b) \cap Containers : h = 1 + Depth(x) - Depth(b)
        BY <3>2
      <4>2. x \in live /\ columns[x] > 0
        BY <4>1 DEF Containers
      <4>3. Depth(x) = d[x] /\ Depth(b) = d[b]
        BY <4>2, AroundIsDeep
      <4>4. 1 + d[x] - d[b] \in 0..MaxNesting
        BY <1>1, <4>2
      <4> QED BY <4>1, <4>3, <4>4
    <3> QED BY <3>1, <3>2
  <2> QED BY <2>1
<1>3. H # {}
  OBVIOUS
<1>4. ContainerHeight(b) = Max(H)
  BY DEF ContainerHeight
<1> HIDE DEF H
<1>5. PICK G : G = H
  OBVIOUS
<1>6. G \in SUBSET (0..MaxNesting) /\ G # {} /\ ContainerHeight(b) = Max(G)
  BY <1>2, <1>3, <1>4, <1>5
<1>7. Max(G) \in G /\ \A x \in G : x <= Max(G)
  BY <1>6, GreatestNumber, NestingIsNat
<1>8. Max(G) \in 0..MaxNesting
  BY <1>6, <1>7
<1>9. ASSUME NEW x \in Subtree(b), columns[x] > 0 PROVE 1 + d[x] - d[b] <= Max(G)
  BY <1>1, <1>5, <1>7, <1>9
<1> QED BY <1>6, <1>8, <1>9, NestingIsNat

\* What is moved keeps its shape, and is as deep as the list it lands in says.
LEMMA MoveKeeps ==
    ASSUME TreeInv, NEW b \in live, NEW list \in Lists, Move(b, list)
    PROVE  TreeInv'
<1> USE DEF TreeInv
<1>1. PICK d \in [live -> 0..MaxNesting] : Levels(d)
  OBVIOUS
<1>2. PICK S, k, h : S = Subtree(b) /\ k = DepthOf(list) /\ h = ContainerHeight(b)
  OBVIOUS
<1>3. /\ S \subseteq live /\ b \in S
      /\ \A x \in S : d[b] <= d[x]
      /\ \A x \in S : x # b => place[x].in # 0 /\ place[x].in \in S
      /\ \A x \in live : place[x].in \in S => x \in S
  BY <1>1, <1>2, SubtreeOf
<1>4. /\ list \in [in : {0} \cup Blocks, column : 1..MaxColumns]
      /\ list.in = 0 => list = Top /\ k = 0
      /\ list.in # 0 => /\ list.in \in live /\ list.column <= columns[list.in]
                        /\ k = d[list.in] + 1
      /\ k \in Nat
  BY <1>1, <1>2, ListOf
<1>5. /\ h \in Nat /\ \A x \in S : columns[x] > 0 => 1 + d[x] - d[b] <= h
  BY <1>1, <1>2, HeightOf
<1>6. /\ k + h <= MaxNesting /\ list.in # b /\ ~IsDescendantOf(b, list.in)
      /\ place' = [place EXCEPT ![b] = list]
      /\ UNCHANGED <<policy, columns, live, locked>>
  BY <1>2 DEF Move, CanPlaceAtDepth
<1>7. \A x \in live : d[x] \in Nat
  BY <1>1, NestingIsNat
<1>8. list.in \notin S
  <2>1. \A x \in live : b \in Around(x) => IsDescendantOf(b, x)
    BY <1>1, AroundIsDeep DEF IsDescendantOf, Top
  <2>2. \A x \in S : x # b => b \in Around(x)
    BY <1>1, <1>2, SubtreeOf
  <2> QED BY <1>3, <1>6, <2>1, <2>2
<1>9. PICK e : e = [x \in live |-> IF x \in S THEN d[x] - d[b] + k ELSE d[x]]
  OBVIOUS
<1>10. \A x \in live : e[x] = IF x \in S THEN d[x] - d[b] + k ELSE d[x]
  BY <1>9
<1>11. /\ place'[b] = list /\ \A x \in Blocks : x # b => place'[x] = place[x]
  BY <1>6 DEF TreeTypes
<1>12. ASSUME NEW x \in live, columns[x] > 0 PROVE e[x] \in Nat /\ e[x] < MaxNesting
  <2>1. CASE x \in S
    <3>1. 1 + d[x] - d[b] <= h /\ d[b] <= d[x] /\ d[x] \in Nat /\ d[b] \in Nat
      BY <1>3, <1>5, <1>7, <1>12, <2>1
    <3>2. e[x] = d[x] - d[b] + k
      BY <1>10, <2>1
    <3> QED BY <1>4, <1>5, <1>6, <3>1, <3>2, NestingIsNat
  <2>2. CASE x \notin S
    BY <1>1, <1>7, <1>10, <1>12, <2>2 DEF Levels
  <2> QED BY <2>1, <2>2
<1>13. ASSUME NEW x \in live
       PROVE  /\ IF place'[x].in = 0 THEN place'[x] = Top /\ e[x] = 0
                 ELSE /\ place'[x].in \in live /\ place'[x].column <= columns[place'[x].in]
                      /\ e[x] = e[place'[x].in] + 1
  <2>1. CASE x = b
    <3>1. e[b] = k
      BY <1>3, <1>4, <1>7, <1>10
    <3>2. list.in # 0 => e[list.in] = d[list.in]
      BY <1>4, <1>8, <1>10
    <3> QED BY <1>4, <1>11, <2>1, <3>1, <3>2
  <2>2. CASE x # b
    <3>1. place'[x] = place[x]
      BY <1>11, <2>2 DEF TreeTypes
    <3>2. CASE place[x].in = 0
      <4>1. x \notin S /\ place[x] = Top /\ d[x] = 0
        BY <1>1, <1>3, <2>2, <3>2 DEF Levels
      <4> QED BY <1>10, <3>1, <3>2, <4>1
    <3>3. CASE place[x].in # 0
      <4>1. place[x].in \in live /\ place[x].column <= columns[place[x].in] /\ d[x] = d[place[x].in] + 1
        BY <1>1, <3>3 DEF Levels
      <4>2. x \in S <=> place[x].in \in S
        BY <1>3, <2>2
      <4>3. e[x] = e[place[x].in] + 1
        BY <1>3, <1>4, <1>7, <1>10, <4>1, <4>2
      <4> QED BY <3>1, <3>3, <4>1, <4>3
    <3> QED BY <3>2, <3>3
  <2> QED BY <2>1, <2>2
<1>14. ASSUME NEW x \in live PROVE e[x] \in 0..MaxNesting
  <2>1. CASE x \notin S
    BY <1>1, <1>10, <2>1
  <2>2. CASE x = b
    <3>1. e[x] = k
      BY <1>3, <1>4, <1>7, <1>10, <2>2
    <3> QED BY <1>4, <1>5, <1>6, <3>1, NestingIsNat
  <2>3. CASE x \in S /\ x # b
    <3>1. PICK p : p = place[x].in
      OBVIOUS
    <3>2. p # 0 /\ p \in live /\ p \in S /\ place'[x] = place[x]
      BY <1>3, <1>11, <2>3, <3>1 DEF TreeTypes
    <3>3. columns[p] > 0
      <4>1. place[x].column <= columns[p] /\ x \in Blocks /\ p \in Blocks
        BY <1>1, <3>1, <3>2 DEF Levels, TreeTypes
      <4>2. place[x].column \in 1..MaxColumns /\ columns[p] \in Nat
        BY <4>1, NestingIsNat DEF TreeTypes
      <4> QED BY <4>1, <4>2, NestingIsNat
    <3>4. e[p] \in Nat /\ e[p] < MaxNesting
      BY <1>12, <3>2, <3>3
    <3>5. e[x] = e[p] + 1
      BY <1>13, <3>1, <3>2
    <3> QED BY <3>4, <3>5, NestingIsNat
  <2> QED BY <2>1, <2>2, <2>3
<1>15. e \in [live -> 0..MaxNesting]
  <2>1. DOMAIN e = live /\ e = [x \in live |-> e[x]]
    BY <1>9
  <2> QED BY <1>14, <2>1
<1>16. Levels(e)'
  BY <1>6, <1>12, <1>13, <1>15 DEF Levels
<1>17. TreeTypes'
  <2>1. place' \in [Blocks -> [in : {0} \cup Blocks, column : 1..MaxColumns]]
    BY <1>4, <1>6 DEF TreeTypes
  <2> QED BY <1>6, <2>1 DEF TreeTypes
<1> QED BY <1>6, <1>15, <1>16, <1>17

\* The blocks of a set are numbered from zero, each number once.
LEMMA RankOf ==
    ASSUME NEW S \in SUBSET Blocks
    PROVE  /\ Cardinality(S) \in Nat
           /\ \A b \in S : Rank(b, S) \in 0..(Cardinality(S) - 1)
           /\ \A a, b \in S : a < b => Rank(a, S) < Rank(b, S)
           /\ \A a, b \in S : Rank(a, S) = Rank(b, S) => a = b
<1> DEFINE B(b) == {c \in S : c < b}
<1>0. S \subseteq Nat /\ IsFiniteSet(S) /\ Cardinality(S) \in Nat
  <2>1. S \subseteq Nat /\ IsFiniteSet(S)
    BY DocumentTreeAssumption, FS_Subset
  <2> QED BY <2>1, FS_CardinalityType
<1>1. ASSUME NEW b PROVE IsFiniteSet(B(b)) /\ Cardinality(B(b)) \in Nat
  <2>1. B(b) \in SUBSET S
    OBVIOUS
  <2> HIDE DEF B
  <2> QED BY <1>0, <2>1, FS_Subset, FS_CardinalityType
<1>2. ASSUME NEW T, IsFiniteSet(T), NEW U \in SUBSET T, U # T
      PROVE  Cardinality(U) < Cardinality(T)
  <2>1. /\ IsFiniteSet(U) /\ Cardinality(U) <= Cardinality(T)
        /\ Cardinality(U) # Cardinality(T)
    BY <1>2, FS_Subset
  <2>2. Cardinality(U) \in Nat /\ Cardinality(T) \in Nat
    BY <1>2, <2>1, FS_CardinalityType
  <2> QED BY <2>1, <2>2
<1>3. \A b : Rank(b, S) = Cardinality(B(b))
  BY DEF Rank
<1>4. ASSUME NEW b \in S PROVE Rank(b, S) \in 0..(Cardinality(S) - 1)
  <2>1. B(b) \in SUBSET S /\ B(b) # S
    BY <1>0
  <2>2. Cardinality(B(b)) < Cardinality(S) /\ Cardinality(B(b)) \in Nat
    <3> HIDE DEF B
    <3> QED BY <1>0, <1>1, <1>2, <2>1
  <2>3. Rank(b, S) = Cardinality(B(b))
    BY <1>3
  <2> HIDE DEF B
  <2> QED BY <1>0, <2>2, <2>3
<1>5. ASSUME NEW a \in S, NEW b \in S, a < b PROVE Rank(a, S) < Rank(b, S)
  <2>1. a \in Nat /\ b \in Nat
    BY <1>0
  <2>2. \A c \in S : c < a => c < b
    BY <1>0, <1>5, <2>1
  <2>3. B(a) \in SUBSET B(b)
    BY <2>2
  <2>4. a \in B(b) /\ a \notin B(a)
    BY <1>5, <2>1
  <2>5. Cardinality(B(a)) < Cardinality(B(b))
    <3> HIDE DEF B
    <3>1. B(a) # B(b)
      BY <2>4
    <3>2. IsFiniteSet(B(b))
      BY <1>1
    <3> QED BY <1>2, <2>3, <3>1, <3>2
  <2>6. Rank(a, S) = Cardinality(B(a)) /\ Rank(b, S) = Cardinality(B(b))
    BY <1>3
  <2> HIDE DEF B
  <2> QED BY <2>5, <2>6
<1>6. ASSUME NEW a \in S, NEW b \in S, Rank(a, S) = Rank(b, S) PROVE a = b
  <2>1. a \in Nat /\ b \in Nat /\ Rank(a, S) \in Nat /\ Rank(b, S) \in Nat
    BY <1>0, <1>4
  <2>2. ~(a < b) /\ ~(b < a)
    BY <1>5, <1>6, <2>1
  <2> QED BY <2>1, <2>2
<1> QED BY <1>0, <1>4, <1>5, <1>6

\* Every number below the size of the set is some block's.
LEMMA RankIsOnto ==
    ASSUME NEW S \in SUBSET Blocks, NEW n \in 0..(Cardinality(S) - 1)
    PROVE  \E b \in S : Rank(b, S) = n
<1> DEFINE N == 0..(Cardinality(S) - 1)
<1>1. PICK f : f = [b \in S |-> Rank(b, S)]
  OBVIOUS
<1>2. f \in [S -> N] /\ \A a, b \in S : f[a] = f[b] => a = b
  BY <1>1, RankOf
<1>3. f \in Injection(S, N)
  BY <1>2 DEF Injection, IsInjective
<1>4. IsFiniteSet(N) /\ Cardinality(N) = Cardinality(S)
  <2>1. Cardinality(S) \in Nat /\ 0 \in Int /\ Cardinality(S) - 1 \in Int
    BY RankOf
  <2>2. IsFiniteSet(N) /\ Cardinality(N) = IF 0 > Cardinality(S) - 1 THEN 0 ELSE (Cardinality(S) - 1) - 0 + 1
    BY <2>1, FS_Interval
  <2> QED BY <2>1, <2>2
<1> HIDE DEF N
<1>5. f \in Surjection(S, N)
  BY <1>3, <1>4, FS_Injection
<1>6. \E b \in S : f[b] = n
  BY <1>5 DEF Surjection, N
<1> QED BY <1>1, <1>6

\* The new ids for n blocks, and what becomes of them: each copy has an original
\* of its own, and each original a copy.
LEMMA CopiesOf ==
    ASSUME NEW ids \in SUBSET Blocks, Cardinality(ids) <= Cardinality(Blocks \ live)
    PROVE  LET new == Fresh(Cardinality(ids)) IN
           /\ new \subseteq Blocks \ live
           /\ \A f \in new : Copied(ids, f) \in ids
           /\ \A b \in ids : CopyOf(ids, b) \in new /\ Copied(ids, CopyOf(ids, b)) = b
<1> DEFINE rest == Blocks \ live
           new == Fresh(Cardinality(ids))
<1>0. rest \in SUBSET Blocks /\ Cardinality(ids) \in Nat /\ Cardinality(rest) \in Nat
  BY RankOf
<1>1. new = {b \in rest : Rank(b, rest) < Cardinality(ids)}
  BY DEF Fresh
<1> HIDE DEF new
<1>2. ASSUME NEW f \in new PROVE Copied(ids, f) \in ids /\ Rank(Copied(ids, f), ids) = Rank(f, rest)
  <2>1. f \in rest /\ Rank(f, rest) \in 0..(Cardinality(ids) - 1)
    <3>1. f \in rest /\ Rank(f, rest) < Cardinality(ids)
      BY <1>1
    <3>2. Rank(f, rest) \in 0..(Cardinality(rest) - 1)
      BY <1>0, <3>1, RankOf
    <3> QED BY <1>0, <3>1, <3>2
  <2>2. \E b \in ids : Rank(b, ids) = Rank(f, rest)
    BY <2>1, RankIsOnto
  <2>3. Copied(ids, f) = CHOOSE b \in ids : Rank(b, ids) = Rank(f, rest)
    BY DEF Copied
  <2> QED BY <2>2, <2>3
<1>3. ASSUME NEW b \in ids PROVE CopyOf(ids, b) \in new /\ Copied(ids, CopyOf(ids, b)) = b
  <2>1. Rank(b, ids) \in 0..(Cardinality(ids) - 1)
    BY RankOf
  <2>2. Rank(b, ids) \in 0..(Cardinality(rest) - 1)
    BY <1>0, <2>1
  <2>3. PICK f \in rest : Rank(f, rest) = Rank(b, ids)
    BY <1>0, <2>2, RankIsOnto
  <2>4. f \in new
    BY <1>0, <1>1, <2>1, <2>3
  <2>5. Copied(ids, f) \in ids /\ Rank(Copied(ids, f), ids) = Rank(b, ids)
    BY <1>2, <2>3, <2>4
  <2>6. Copied(ids, f) = b
    BY <2>5, RankOf
  <2>7. \E g \in new : Copied(ids, g) = b
    BY <2>4, <2>6
  <2>8. CopyOf(ids, b) = CHOOSE g \in new : Copied(ids, g) = b
    BY DEF CopyOf, new
  <2> QED BY <2>7, <2>8
<1>4. new \subseteq Blocks \ live
  BY <1>1
<1> QED BY <1>2, <1>3, <1>4 DEF new

\* A copy hangs from the copies as the original does from the originals.
LEMMA DuplicateKeeps ==
    ASSUME TreeInv, NEW b \in live, Duplicate(b)
    PROVE  TreeInv'
<1> USE DEF TreeInv
<1>1. PICK d \in [live -> 0..MaxNesting] : Levels(d)
  OBVIOUS
<1>2. PICK S, new : S = Subtree(b) /\ new = Fresh(Cardinality(S))
  OBVIOUS
<1>3. /\ Cardinality(Blocks \ live) >= Cardinality(S)
      /\ live' = live \cup new
      /\ place' = [c \in Blocks |->
            IF c \notin new THEN place[c]
            ELSE IF Copied(S, c) = b THEN place[b]
            ELSE [place[Copied(S, c)] EXCEPT !.in = CopyOf(S, @)]]
      /\ columns' = [c \in Blocks |-> IF c \in new THEN columns[Copied(S, c)] ELSE columns[c]]
      /\ locked' = locked \cup {c \in new : Copied(S, c) \in locked}
      /\ policy' = policy
  BY <1>2 DEF Duplicate
<1>4. /\ S \subseteq live /\ b \in S
      /\ \A x \in S : x # b => place[x].in # 0 /\ place[x].in \in S
  BY <1>1, <1>2, SubtreeOf
<1>5. S \in SUBSET Blocks /\ live \subseteq Blocks /\ \A x \in Blocks : x # 0
  BY <1>4, DocumentTreeAssumption DEF TreeTypes
<1>6. /\ new \subseteq Blocks \ live
      /\ \A f \in new : Copied(S, f) \in S
      /\ \A x \in S : CopyOf(S, x) \in new /\ Copied(S, CopyOf(S, x)) = x
  <2>1. Cardinality(S) <= Cardinality(Blocks \ live)
    <3>1. Blocks \ live \in SUBSET Blocks
      OBVIOUS
    <3>2. Cardinality(S) \in Nat /\ Cardinality(Blocks \ live) \in Nat
      BY <1>5, <3>1, RankOf
    <3> QED BY <1>3, <3>2
  <2> QED BY <1>2, <1>5, <2>1, CopiesOf
<1>7. PICK e : e = [c \in live' |-> IF c \in new THEN d[Copied(S, c)] ELSE d[c]]
  OBVIOUS
<1>8. \A c \in live' : e[c] = IF c \in new THEN d[Copied(S, c)] ELSE d[c]
  BY <1>7
<1>9. /\ \A c \in live : c \in live' /\ c \notin new /\ c \in Blocks
      /\ \A c \in new : c \in live' /\ c \in Blocks
      /\ \A c \in live' : c \in live \/ c \in new
  BY <1>3, <1>5, <1>6
<1>10. \A c \in live : place'[c] = place[c] /\ columns'[c] = columns[c] /\ e[c] = d[c]
  BY <1>3, <1>8, <1>9
<1>11. \A c \in new : columns'[c] = columns[Copied(S, c)] /\ e[c] = d[Copied(S, c)]
  BY <1>3, <1>8, <1>9
<1>12. \A c \in new : place'[c] = IF Copied(S, c) = b THEN place[b]
                                  ELSE [place[Copied(S, c)] EXCEPT !.in = CopyOf(S, @)]
  BY <1>3, <1>9
<1>13. ASSUME NEW c \in new, Copied(S, c) # b
       PROVE  LET p == place[Copied(S, c)].in IN
              /\ p \in S /\ p # 0
              /\ place'[c].in = CopyOf(S, p) /\ place'[c].column = place[Copied(S, c)].column
              /\ place'[c] \in [in : {0} \cup Blocks, column : 1..MaxColumns]
  <2>1. PICK x \in S : x = Copied(S, c)
    BY <1>6
  <2>2. PICK p \in S : p = place[x].in /\ p # 0
    BY <1>4, <1>13, <2>1
  <2>3. CopyOf(S, p) \in new /\ CopyOf(S, p) \in Blocks
    BY <1>6
  <2>4. place[x] \in [in : {0} \cup Blocks, column : 1..MaxColumns]
    BY <1>5 DEF TreeTypes
  <2>5. PICK w : w = [place[x] EXCEPT !.in = CopyOf(S, @)]
    OBVIOUS
  <2>6. /\ w.in = CopyOf(S, p) /\ w.column = place[x].column
        /\ w \in [in : {0} \cup Blocks, column : 1..MaxColumns]
    BY <2>2, <2>3, <2>4, <2>5
  <2>7. place'[c] = w
    BY <1>12, <1>13, <2>1, <2>5
  <2> QED BY <2>1, <2>2, <2>6, <2>7
<1>14. TreeTypes'
  <2>1. \A c \in Blocks : place'[c] \in [in : {0} \cup Blocks, column : 1..MaxColumns]
    <3>1. ASSUME NEW c \in new PROVE place'[c] \in [in : {0} \cup Blocks, column : 1..MaxColumns]
      <4>1. CASE Copied(S, c) = b
        <5>1. place'[c] = place[b] /\ b \in Blocks
          BY <1>5, <1>12, <4>1
        <5> QED BY <5>1 DEF TreeTypes
      <4>2. CASE Copied(S, c) # b
        BY <1>13, <4>2
      <4> QED BY <4>1, <4>2
    <3>2. \A c \in Blocks : c \notin new => place'[c] = place[c]
      BY <1>3
    <3> QED BY <3>1, <3>2 DEF TreeTypes
  <2>2. place' \in [Blocks -> [in : {0} \cup Blocks, column : 1..MaxColumns]]
    <3>1. DOMAIN place' = Blocks /\ place' = [c \in Blocks |-> place'[c]]
      BY <1>3
    <3> QED BY <2>1, <3>1
  <2>3. \A c \in Blocks : columns'[c] \in 0..MaxColumns
    <3>1. \A c \in new : Copied(S, c) \in Blocks
      BY <1>5, <1>6
    <3> QED BY <1>3, <3>1 DEF TreeTypes
  <2>4. columns' \in [Blocks -> 0..MaxColumns]
    <3>1. DOMAIN columns' = Blocks /\ columns' = [c \in Blocks |-> columns'[c]]
      BY <1>3
    <3> QED BY <2>3, <3>1
  <2>5. live' \subseteq Blocks /\ locked' \subseteq live' /\ policy' \in {"free", "locks"}
    BY <1>3, <1>9 DEF TreeTypes
  <2> QED BY <2>2, <2>4, <2>5 DEF TreeTypes
<1>15. e \in [live' -> 0..MaxNesting]
  <2>1. \A c \in live' : e[c] \in 0..MaxNesting
    BY <1>1, <1>4, <1>6, <1>9, <1>10, <1>11
  <2>2. DOMAIN e = live' /\ e = [c \in live' |-> e[c]]
    BY <1>7
  <2> QED BY <2>1, <2>2
<1>16. \A c \in live' : columns'[c] > 0 => e[c] < MaxNesting
  BY <1>1, <1>4, <1>6, <1>9, <1>10, <1>11 DEF Levels
<1>17. ASSUME NEW c \in live'
       PROVE  IF place'[c].in = 0 THEN place'[c] = Top /\ e[c] = 0
              ELSE /\ place'[c].in \in live' /\ place'[c].column <= columns'[place'[c].in]
                   /\ e[c] = e[place'[c].in] + 1
  <2>1. ASSUME NEW x \in live, place'[c] = place[x], e[c] = d[x]
        PROVE  IF place'[c].in = 0 THEN place'[c] = Top /\ e[c] = 0
               ELSE /\ place'[c].in \in live' /\ place'[c].column <= columns'[place'[c].in]
                    /\ e[c] = e[place'[c].in] + 1
    <3>1. CASE place[x].in = 0
      BY <1>1, <2>1, <3>1 DEF Levels
    <3>2. CASE place[x].in # 0
      <4>1. /\ place[x].in \in live /\ place[x].column <= columns[place[x].in]
            /\ d[x] = d[place[x].in] + 1
        BY <1>1, <3>2 DEF Levels
      <4>2. /\ columns'[place[x].in] = columns[place[x].in] /\ e[place[x].in] = d[place[x].in]
            /\ place[x].in \in live'
        BY <1>9, <1>10, <4>1
      <4> QED BY <2>1, <3>2, <4>1, <4>2
    <3> QED BY <3>1, <3>2
  <2>2. CASE c \in live
    BY <1>10, <2>1, <2>2
  <2>3. CASE c \in new /\ Copied(S, c) = b
    BY <1>11, <1>12, <2>1, <2>3
  <2>4. CASE c \in new /\ Copied(S, c) # b
    <3>1. PICK x \in S : x = Copied(S, c)
      BY <1>6, <2>4
    <3>2. PICK p \in S : p = place[x].in /\ p # 0
      BY <1>4, <2>4, <3>1
    <3>3. place'[c].in = CopyOf(S, p) /\ place'[c].column = place[x].column
      BY <1>13, <2>4, <3>1, <3>2
    <3>4. PICK q \in new : q = CopyOf(S, p) /\ Copied(S, q) = p
      BY <1>6
    <3>5. columns'[q] = columns[p] /\ e[q] = d[p] /\ e[c] = d[x] /\ q \in live' /\ q # 0
      BY <1>5, <1>9, <1>11, <2>4, <3>1, <3>4
    <3>6. place[x].column <= columns[p] /\ d[x] = d[p] + 1
      BY <1>1, <1>4, <3>2 DEF Levels
    <3> QED BY <3>3, <3>4, <3>5, <3>6
  <2> QED BY <1>9, <2>2, <2>3, <2>4
<1>18. Levels(e)'
  BY <1>15, <1>16, <1>17 DEF Levels
<1> QED BY <1>14, <1>15, <1>18

\* The first new id is the least; one id that is new is that one.
LEMMA FirstFresh ==
    ASSUME TreeTypes, NEW n \in Nat, n > 0, Cardinality(Blocks \ live) >= n
    PROVE  /\ Fresh(n) \subseteq Blocks \ live /\ Min(Blocks \ live) \in Fresh(n)
           /\ n = 1 => Fresh(n) = {Min(Blocks \ live)}
<1> DEFINE rest == Blocks \ live
<1>1. rest \in SUBSET Blocks /\ rest \in SUBSET Nat
  BY DocumentTreeAssumption
<1>2. rest # {}
  <2>1. Cardinality({}) = 0
    BY FS_EmptySet
  <2>2. rest = {} => Cardinality(rest) = 0
    BY <2>1
  <2> QED BY <2>2
<1>3. PICK R : R = rest
  OBVIOUS
<1>4. PICK m \in R : m = Min(R) /\ \A x \in R : m <= x
  BY <1>1, <1>2, <1>3, LeastNumber
<1>5. Fresh(n) = {b \in R : Rank(b, R) < n}
  BY <1>3 DEF Fresh
<1>6. /\ \A b \in R : Rank(b, R) \in Nat
      /\ \A a, b \in R : a < b => Rank(a, R) < Rank(b, R)
  BY <1>1, <1>3, RankOf
<1>7. Rank(m, R) = 0
  <2>1. \A c \in R : ~(c < m)
    BY <1>1, <1>3, <1>4
  <2>2. {c \in R : c < m} = {}
    BY <2>1
  <2>3. Cardinality({}) = 0
    BY FS_EmptySet
  <2> QED BY <2>2, <2>3 DEF Rank
<1>8. ASSUME NEW b \in R, b # m PROVE Rank(b, R) > 0
  <2>1. m < b
    BY <1>1, <1>3, <1>4, <1>8
  <2>2. Rank(m, R) < Rank(b, R) /\ Rank(b, R) \in Nat
    BY <1>6, <2>1
  <2> QED BY <1>7, <2>2
<1>9. m \in Fresh(n)
  BY <1>5, <1>7
<1>10. ASSUME n = 1, NEW b \in Fresh(n) PROVE b = m
  <2>1. b \in R /\ Rank(b, R) < 1
    BY <1>5, <1>10
  <2>2. Rank(b, R) \in Nat
    BY <1>6, <2>1
  <2>3. ~(Rank(b, R) > 0)
    BY <2>1, <2>2
  <2> QED BY <1>8, <2>1, <2>3
<1> QED BY <1>3, <1>4, <1>5, <1>9, <1>10

\* What is inserted: a block, or a container with one in its last column.
LEMMA ShapeOf ==
    ASSUME NEW shape \in Shapes
    PROVE  LET h == Cardinality({i \in DOMAIN shape : shape[i] > 0}) IN
           /\ h \in Nat /\ shape[1] \in 0..MaxColumns /\ (shape[1] > 0 => h > 0)
           /\ \/ Len(shape) = 1
              \/ /\ Len(shape) = 2 /\ shape[1] \in 1..MaxColumns /\ shape[2] \in 0..MaxColumns
                 /\ shape[2] > 0 => h > 1
<1> DEFINE P == {i \in DOMAIN shape : shape[i] > 0}
<1>1. CASE \E n \in 0..MaxColumns : shape = <<n>>
  <2>1. PICK n \in 0..MaxColumns : shape = <<n>>
    BY <1>1
  <2>2. Len(shape) = 1 /\ shape[1] = n /\ DOMAIN shape = {1}
    BY <2>1
  <2>3. Cardinality({}) = 0 /\ Cardinality({1}) = 1
    BY FS_EmptySet, FS_Singleton
  <2>4. P = IF n > 0 THEN {1} ELSE {}
    BY <2>2
  <2> HIDE DEF P
  <2>5. Cardinality(P) = IF n > 0 THEN 1 ELSE 0
    BY <2>3, <2>4
  <2> QED BY <2>2, <2>5 DEF P
<1>2. CASE \E m \in 1..MaxColumns, n \in {0, 1} : shape = <<m, n>>
  <2>1. PICK m \in 1..MaxColumns, n \in {0, 1} : shape = <<m, n>>
    BY <1>2
  <2>2. Len(shape) = 2 /\ shape[1] = m /\ shape[2] = n /\ DOMAIN shape = {1, 2}
    BY <2>1
  <2>3. Cardinality({1}) = 1 /\ IsFiniteSet({1})
    BY FS_Singleton
  <2>4. Cardinality({1} \cup {2}) = 2
    <3>1. Cardinality({1} \cup {2}) = Cardinality({1}) + 1
      BY <2>3, FS_AddElement
    <3> QED BY <2>3, <3>1
  <2>5. P = IF n > 0 THEN {1} \cup {2} ELSE {1}
    BY <2>2
  <2> HIDE DEF P
  <2>6. Cardinality(P) = IF n > 0 THEN 2 ELSE 1
    BY <2>3, <2>4, <2>5
  <2>7. shape[2] \in 0..MaxColumns /\ shape[1] \in 0..MaxColumns
    BY <2>1, <2>2, NestingIsNat
  <2> QED BY <2>2, <2>6, <2>7 DEF P
<1> QED BY <1>1, <1>2 DEF Shapes

LEMMA InsertKeeps ==
    ASSUME TreeInv, NEW shape \in Shapes, NEW list \in Lists, Insert(shape, list)
    PROVE  TreeInv'
<1> USE DEF TreeInv
<1>1. PICK d \in [live -> 0..MaxNesting] : Levels(d)
  OBVIOUS
<1>2. PICK new, m, k, h, s :
        /\ new = Fresh(Len(shape)) /\ m = Min(Blocks \ live) /\ k = DepthOf(list)
        /\ h = Cardinality({i \in DOMAIN shape : shape[i] > 0}) /\ s = shape
  OBVIOUS
<1>3. /\ Cardinality(Blocks \ live) >= Len(shape) /\ k + h <= MaxNesting
      /\ live' = live \cup new
      /\ place' = [b \in Blocks |->
            IF b \notin new THEN place[b]
            ELSE IF b = m THEN list ELSE [in |-> m, column |-> s[1]]]
      /\ columns' = [b \in Blocks |->
            IF b \notin new THEN columns[b] ELSE s[IF b = m THEN 1 ELSE 2]]
      /\ policy' = policy /\ locked' = locked
  BY <1>2 DEF Insert, CanPlaceAtDepth
<1>4. /\ h \in Nat /\ s[1] \in 0..MaxColumns /\ (s[1] > 0 => h > 0)
      /\ \/ Len(shape) = 1
         \/ /\ Len(shape) = 2 /\ s[1] \in 1..MaxColumns /\ s[2] \in 0..MaxColumns
            /\ s[2] > 0 => h > 1
  BY <1>2, ShapeOf
<1>5. /\ list \in [in : {0} \cup Blocks, column : 1..MaxColumns]
      /\ list.in = 0 => list = Top /\ k = 0
      /\ list.in # 0 => /\ list.in \in live /\ list.column <= columns[list.in]
                        /\ k = d[list.in] + 1
      /\ k \in Nat
  BY <1>1, <1>2, ListOf
<1>6. new \subseteq Blocks \ live /\ m \in new /\ (Len(shape) = 1 => new = {m})
  <2>1. Len(shape) \in Nat /\ Len(shape) > 0 /\ Cardinality(Blocks \ live) >= Len(shape)
    BY <1>2, <1>4 DEF Insert
  <2> QED BY <1>2, <2>1, FirstFresh
<1>7. /\ \A b \in live : b \in live' /\ b \notin new /\ b \in Blocks /\ b # 0
      /\ \A b \in new : b \in live' /\ b \in Blocks /\ b # 0
      /\ \A b \in live' : b \in live \/ b \in new
  BY <1>3, <1>6, DocumentTreeAssumption DEF TreeTypes
<1>8. PICK e : e = [b \in live' |-> IF b \notin new THEN d[b] ELSE IF b = m THEN k ELSE k + 1]
  OBVIOUS
<1>9. \A b \in live' : e[b] = IF b \notin new THEN d[b] ELSE IF b = m THEN k ELSE k + 1
  BY <1>8
<1>10. \A b \in live : place'[b] = place[b] /\ columns'[b] = columns[b] /\ e[b] = d[b]
  BY <1>3, <1>7, <1>9
<1>11. place'[m] = list /\ columns'[m] = s[1] /\ e[m] = k
  BY <1>3, <1>6, <1>7, <1>9
<1>12. ASSUME NEW b \in new, b # m
       PROVE  /\ place'[b].in = m /\ place'[b].column = s[1] /\ s[1] \in 1..MaxColumns
              /\ place'[b] \in [in : {0} \cup Blocks, column : 1..MaxColumns]
              /\ columns'[b] = s[2] /\ e[b] = k + 1 /\ s[2] \in 0..MaxColumns
              /\ s[2] > 0 => h > 1
  <2>1. Len(shape) # 1
    BY <1>6, <1>12
  <2>2. s[1] \in 1..MaxColumns /\ s[2] \in 0..MaxColumns /\ (s[2] > 0 => h > 1)
    BY <1>4, <2>1
  <2>3. PICK w : w = [in |-> m, column |-> s[1]]
    OBVIOUS
  <2>4. w.in = m /\ w.column = s[1] /\ w \in [in : {0} \cup Blocks, column : 1..MaxColumns]
    BY <1>6, <1>7, <2>2, <2>3
  <2>5. place'[b] = w /\ columns'[b] = s[2]
    BY <1>3, <1>7, <1>12, <2>3
  <2>6. e[b] = k + 1
    BY <1>7, <1>9, <1>12
  <2> QED BY <2>2, <2>4, <2>5, <2>6
<1>13. TreeTypes'
  <2>1. \A b \in Blocks : b \notin new => place'[b] = place[b] /\ columns'[b] = columns[b]
    BY <1>3
  <2>2. \A b \in Blocks : place'[b] \in [in : {0} \cup Blocks, column : 1..MaxColumns]
    BY <1>5, <1>11, <1>12, <2>1 DEF TreeTypes
  <2>3. place' \in [Blocks -> [in : {0} \cup Blocks, column : 1..MaxColumns]]
    <3>1. DOMAIN place' = Blocks /\ place' = [b \in Blocks |-> place'[b]]
      BY <1>3
    <3> QED BY <2>2, <3>1
  <2>4. \A b \in Blocks : columns'[b] \in 0..MaxColumns
    BY <1>4, <1>11, <1>12, <2>1 DEF TreeTypes
  <2>5. columns' \in [Blocks -> 0..MaxColumns]
    <3>1. DOMAIN columns' = Blocks /\ columns' = [b \in Blocks |-> columns'[b]]
      BY <1>3
    <3> QED BY <2>4, <3>1
  <2>6. live' \subseteq Blocks /\ locked' \subseteq live' /\ policy' \in {"free", "locks"}
    BY <1>3, <1>7 DEF TreeTypes
  <2> QED BY <2>3, <2>5, <2>6 DEF TreeTypes
<1>14. /\ \A b \in new : e[b] \in 0..MaxNesting
       /\ \A b \in new : columns'[b] > 0 => e[b] < MaxNesting
  <2>1. k \in 0..MaxNesting /\ (s[1] > 0 => k < MaxNesting)
    BY <1>3, <1>4, <1>5, NestingIsNat
  <2>2. s[1] \in 1..MaxColumns => k + 1 \in 0..MaxNesting
    BY <1>3, <1>4, <1>5, NestingIsNat
  <2>3. h > 1 => k + 1 < MaxNesting
    BY <1>3, <1>4, <1>5, NestingIsNat
  <2> QED BY <1>11, <1>12, <2>1, <2>2, <2>3
<1>15. e \in [live' -> 0..MaxNesting]
  <2>1. \A b \in live' : e[b] \in 0..MaxNesting
    BY <1>1, <1>7, <1>10, <1>14
  <2>2. DOMAIN e = live' /\ e = [b \in live' |-> e[b]]
    BY <1>8
  <2> QED BY <2>1, <2>2
<1>16. \A b \in live' : columns'[b] > 0 => e[b] < MaxNesting
  BY <1>1, <1>7, <1>10, <1>14 DEF Levels
<1>17. ASSUME NEW b \in live'
       PROVE  IF place'[b].in = 0 THEN place'[b] = Top /\ e[b] = 0
              ELSE /\ place'[b].in \in live' /\ place'[b].column <= columns'[place'[b].in]
                   /\ e[b] = e[place'[b].in] + 1
  <2>1. CASE b \in live
    <3>1. CASE place[b].in = 0
      BY <1>1, <1>10, <2>1, <3>1 DEF Levels
    <3>2. CASE place[b].in # 0
      <4>1. /\ place[b].in \in live /\ place[b].column <= columns[place[b].in]
            /\ d[b] = d[place[b].in] + 1
        BY <1>1, <2>1, <3>2 DEF Levels
      <4>2. place[b].in \in live'
        BY <1>7, <4>1
      <4> QED BY <1>10, <2>1, <3>2, <4>1, <4>2
    <3> QED BY <3>1, <3>2
  <2>2. CASE b = m
    <3>1. list.in # 0 => /\ list.in \in live' /\ list.column <= columns'[list.in]
                         /\ k = e[list.in] + 1
      BY <1>5, <1>7, <1>10
    <3> QED BY <1>5, <1>11, <2>2, <3>1
  <2>3. CASE b \in new /\ b # m
    <3>1. m # 0 /\ m \in live' /\ s[1] <= columns'[m]
      BY <1>6, <1>7, <1>11, <1>12, <2>3, NestingIsNat
    <3> QED BY <1>11, <1>12, <2>3, <3>1
  <2> QED BY <1>7, <2>1, <2>2, <2>3
<1>18. Levels(e)'
  BY <1>15, <1>16, <1>17 DEF Levels
<1> QED BY <1>13, <1>15, <1>18

LEMMA OpensKeeps ==
    ASSUME TreeInv, NEW ids \in kSubset(MaxLocks, live), Opens(ids)
    PROVE  TreeInv'
<1>1. ids \subseteq live
  BY DEF kSubset
<1>2. TreeTypes'
  BY <1>1 DEF Opens, TreeInv, TreeTypes
<1>3. PICK d \in [live -> 0..MaxNesting] : Levels(d)
  BY DEF TreeInv
<1>4. Levels(d)' /\ live' = live
  BY <1>3 DEF Opens, Levels
<1> QED BY <1>2, <1>3, <1>4 DEF TreeInv

LEMMA TreeInitially == DocumentTreeInit => TreeInv
<1> SUFFICES ASSUME DocumentTreeInit PROVE TreeInv
  OBVIOUS
<1>1. Top \in [in : {0} \cup Blocks, column : 1..MaxColumns] /\ 0 \in 0..MaxColumns
  BY NestingIsNat DEF Top
<1>2. TreeTypes
  BY <1>1 DEF DocumentTreeInit, TreeTypes
<1>3. PICK d : d = [b \in live |-> 0]
  OBVIOUS
<1>4. d \in [live -> 0..MaxNesting] /\ Levels(d)
  BY <1>3 DEF DocumentTreeInit, Levels
<1> QED BY <1>2, <1>4 DEF TreeInv

LEMMA TreeStep == TreeInv /\ [DocumentTreeNext]_treeVars => TreeInv'
<1> SUFFICES ASSUME TreeInv, [DocumentTreeNext]_treeVars PROVE TreeInv'
  OBVIOUS
<1>1. CASE \E shape \in Shapes, list \in Lists : Insert(shape, list)
  BY <1>1, InsertKeeps
<1>2. CASE \E b \in live : Duplicate(b)
  BY <1>2, DuplicateKeeps
<1>3. CASE \E b \in live : Delete(b)
  BY <1>3, WithoutKeeps DEF Delete
<1>4. CASE \E b \in live, list \in Lists : Move(b, list)
  BY <1>4, MoveKeeps
<1>5. CASE \E c \in Containers, n \in 1..MaxColumns : SetColumns(c, n)
  BY <1>5, SetColumnsKeeps
<1>6. CASE \E c \in Containers, n \in 1..MaxColumns : RemoveColumn(c, n)
  BY <1>6, RemoveColumnKeeps
<1>7. CASE \E c \in Containers, n \in 1..MaxColumns : MoveColumn(c, n)
  BY <1>7, MoveColumnKeeps
<1>8. CASE \E ids \in kSubset(MaxLocks, live) : Opens(ids)
  BY <1>8, OpensKeeps
<1>9. CASE UNCHANGED treeVars
  <2>1. PICK d \in [live -> 0..MaxNesting] : Levels(d)
    BY DEF TreeInv
  <2>2. Levels(d)' /\ live' = live
    BY <1>9, <2>1 DEF Levels, treeVars
  <2>3. TreeTypes'
    BY <1>9 DEF TreeInv, TreeTypes, treeVars
  <2> QED BY <2>1, <2>2, <2>3 DEF TreeInv
<1> QED BY <1>1, <1>2, <1>3, <1>4, <1>5, <1>6, <1>7, <1>8, <1>9 DEF DocumentTreeNext

\* Blocks and columns stay a forest of bounded depth: containers hang from containers that
\* are there, each a level below, in columns these have.
THEOREM TreeInvariant == DocumentTreeSpec => []TreeInv
BY TreeInitially, TreeStep, PTL DEF DocumentTreeSpec

\* So every block has its place and the containers around it, and nests no deeper than
\* the editor lets it.
THEOREM TreeTypesHold == DocumentTreeSpec => []DocumentTreeTypeOK
BY TreeInvariant, InvHasTypes, PTL

-----------------------------------------------------------------------------
(* Locks. *)

\* What a step leaves of the blocks that are locked, or in a locked block.
LockedKept ==
    /\ \A b \in LockedBlockIds : b \in live' /\ place'[b].in = place[b].in
    /\ \A c \in LockedBlockIds : {b \in live : place[b].in = c}
                                  = {b \in live' : place'[b].in = c}

\* What is in a locked block is locked.
LEMMA LockedBelow ==
    ASSUME TreeInv
    PROVE  /\ LockedBlockIds \subseteq live
           /\ \A b \in live : place[b].in \in LockedBlockIds => b \in LockedBlockIds
<1>1. PICK d \in [live -> 0..MaxNesting] : Levels(d)
  BY DEF TreeInv
<1>2. ASSUME NEW b \in live, place[b].in \in LockedBlockIds PROVE b \in LockedBlockIds
  <2>1. place[b].in \in live /\ place[b].in # 0
    BY <1>1, <1>2, AroundIsDeep DEF LockedBlockIds, TreeInv
  <2>2. Around(b) = {place[b].in} \cup Around(place[b].in)
    BY <1>1, <2>1, AroundParent
  <2> QED BY <1>2, <2>2 DEF LockedBlockIds
<1> QED BY <1>2 DEF LockedBlockIds

\* It is enough that a step leaves the locked blocks where they are, and that every
\* block it adds or moves lands in a list that no lock covers.
LEMMA KeptWhen ==
    ASSUME TreeInv,
           \A b \in LockedBlockIds : b \in live' /\ place'[b].in = place[b].in,
           \A b \in live' : place'[b].in \in LockedBlockIds
                             => b \in live /\ place[b].in = place'[b].in
    PROVE  LockedKept
<1> SUFFICES ASSUME NEW c \in LockedBlockIds
             PROVE  {b \in live : place[b].in = c} = {b \in live' : place'[b].in = c}
  BY DEF LockedKept
<1>1. \A b \in live : place[b].in = c => b \in LockedBlockIds
  BY LockedBelow
<1> QED BY <1>1

LEMMA InsertKept ==
    ASSUME TreeInv, NEW shape \in Shapes, NEW list \in Lists, Insert(shape, list), policy = "locks"
    PROVE  LockedKept
<1>1. PICK new, m : new = Fresh(Len(shape)) /\ m = Min(Blocks \ live)
  OBVIOUS
<1>2. /\ live' = live \cup new
      /\ place' = [b \in Blocks |->
            IF b \notin new THEN place[b]
            ELSE IF b = m THEN list ELSE [in |-> m, column |-> shape[1]]]
      /\ list.in \notin LockedBlockIds
  BY <1>1 DEF Insert, AllowStructure
<1>3. new \subseteq Blocks \ live /\ m \in new
  <2>1. Len(shape) \in Nat /\ Len(shape) > 0 /\ Cardinality(Blocks \ live) >= Len(shape)
    BY ShapeOf DEF Insert
  <2> QED BY <1>1, <2>1, FirstFresh DEF TreeInv
<1>4. live \subseteq Blocks /\ LockedBlockIds \subseteq live
  BY LockedBelow DEF TreeInv, TreeTypes
<1>5. \A b \in live : b \in live' /\ place'[b] = place[b]
  BY <1>2, <1>3, <1>4
<1>6. \A b \in new : place'[b].in \in {list.in, m}
  BY <1>2, <1>3
<1>7. \A b \in new : place'[b].in \notin LockedBlockIds
  BY <1>2, <1>3, <1>4, <1>6
<1>8. \A b \in live' : b \in live \/ b \in new
  BY <1>2
<1> QED BY <1>4, <1>5, <1>7, <1>8, KeptWhen

LEMMA DuplicateKept ==
    ASSUME TreeInv, NEW b \in live, Duplicate(b), policy = "locks"
    PROVE  LockedKept
<1>1. PICK S, new : S = Subtree(b) /\ new = Fresh(Cardinality(S))
  OBVIOUS
<1>2. /\ Cardinality(Blocks \ live) >= Cardinality(S)
      /\ live' = live \cup new
      /\ place' = [c \in Blocks |->
            IF c \notin new THEN place[c]
            ELSE IF Copied(S, c) = b THEN place[b]
            ELSE [place[Copied(S, c)] EXCEPT !.in = CopyOf(S, @)]]
      /\ place[b].in \notin LockedBlockIds
  BY <1>1 DEF Duplicate, AllowStructure
<1>3. PICK d \in [live -> 0..MaxNesting] : Levels(d)
  BY DEF TreeInv
<1>4. /\ S \subseteq live
      /\ \A x \in S : x # b => place[x].in # 0 /\ place[x].in \in S
  BY <1>1, <1>3, SubtreeOf DEF TreeInv
<1>5. S \in SUBSET Blocks /\ live \subseteq Blocks
  BY <1>4 DEF TreeInv, TreeTypes
<1>6. /\ new \subseteq Blocks \ live
      /\ \A f \in new : Copied(S, f) \in S
      /\ \A x \in S : CopyOf(S, x) \in new
  <2>1. Cardinality(S) <= Cardinality(Blocks \ live)
    <3>1. Blocks \ live \in SUBSET Blocks
      OBVIOUS
    <3>2. Cardinality(S) \in Nat /\ Cardinality(Blocks \ live) \in Nat
      BY <1>5, <3>1, RankOf
    <3> QED BY <1>2, <3>2
  <2> QED BY <1>1, <1>5, <2>1, CopiesOf
<1>7. LockedBlockIds \subseteq live
  BY LockedBelow
<1>8. \A x \in live : x \in live' /\ place'[x] = place[x]
  BY <1>2, <1>5, <1>6
<1>9. ASSUME NEW c \in new PROVE place'[c].in \notin LockedBlockIds
  <2>1. c \in Blocks
    BY <1>6
  <2>2. CASE Copied(S, c) = b
    BY <1>2, <2>1, <2>2
  <2>3. CASE Copied(S, c) # b
    <3>1. PICK x \in S : x = Copied(S, c)
      BY <1>6
    <3>2. PICK w : w = [place[x] EXCEPT !.in = CopyOf(S, @)]
      OBVIOUS
    <3>3. place[x] \in [in : {0} \cup Blocks, column : 1..MaxColumns]
      BY <1>5 DEF TreeInv, TreeTypes
    <3>4. w.in = CopyOf(S, place[x].in)
      BY <3>2, <3>3
    <3>5. w.in \in new
      BY <1>4, <1>6, <2>3, <3>1, <3>4
    <3>6. place'[c] = w
      BY <1>2, <2>1, <2>3, <3>1, <3>2
    <3> QED BY <1>6, <1>7, <3>5, <3>6
  <2> QED BY <2>2, <2>3
<1>10. \A x \in live' : x \in live \/ x \in new
  BY <1>2
<1> QED BY <1>7, <1>8, <1>9, <1>10, KeptWhen

\* Nothing that is locked, or in something locked, is in what may be deleted.
LEMMA DeleteKept ==
    ASSUME TreeInv, NEW b \in live, Delete(b), policy = "locks"
    PROVE  LockedKept
<1>1. PICK S : S = Subtree(b)
  OBVIOUS
<1>2. /\ live' = live \ S
      /\ place' = [x \in Blocks |-> IF x \in S THEN Top ELSE place[x]]
      /\ b \notin LockedBlockIds /\ S \cap locked = {}
  BY <1>1 DEF Delete, Without, AllowStructure, SubtreeHasLock
<1>3. PICK d \in [live -> 0..MaxNesting] : Levels(d)
  BY DEF TreeInv
<1>4. /\ S \subseteq live
      /\ \A x \in S : x # b => b \in Around(x)
  BY <1>1, <1>3, SubtreeOf DEF TreeInv
<1>5. ASSUME NEW x \in LockedBlockIds PROVE x \notin S
  <2> SUFFICES ASSUME x \in S PROVE FALSE
    OBVIOUS
  <2>1. x # b /\ b \in Around(x) /\ x \notin locked /\ x \in live
    BY <1>2, <1>4, <1>5
  <2>2. PICK a \in Around(x) : a \in locked
    BY <1>5, <2>1 DEF LockedBlockIds
  <2>3. a = b \/ a \in Around(b) \/ b \in Around(a)
    BY <1>3, <2>1, <2>2, AroundIsAChain DEF TreeInv
  <2>4. b \notin locked /\ Around(b) \cap locked = {}
    BY <1>2 DEF LockedBlockIds
  <2>5. b \in Around(a) /\ a \in live
    BY <2>2, <2>3, <2>4 DEF TreeInv, TreeTypes
  <2>6. a # Top.in
    BY <1>3, <2>5, AroundIsDeep DEF TreeInv, Top
  <2>7. a \in S
    BY <1>1, <2>5, <2>6 DEF Subtree, IsDescendantOf
  <2> QED BY <1>2, <2>2, <2>7
<1>6. \A x \in live' : x \in live /\ place'[x] = place[x]
  BY <1>2 DEF TreeInv, TreeTypes
<1>7. \A x \in LockedBlockIds : x \in live'
  BY <1>2, <1>5, LockedBelow
<1> QED BY <1>6, <1>7, KeptWhen

LEMMA MoveKept ==
    ASSUME TreeInv, NEW b \in live, NEW list \in Lists, Move(b, list), policy = "locks"
    PROVE  LockedKept
<1>1. /\ place' = [place EXCEPT ![b] = list] /\ live' = live
      /\ b \notin LockedBlockIds /\ list.in \notin LockedBlockIds
  BY DEF Move, AllowStructure
<1>2. \A x \in live : IF x = b THEN place'[x] = list ELSE place'[x] = place[x]
  BY <1>1 DEF TreeInv, TreeTypes
<1> QED BY <1>1, <1>2, KeptWhen, LockedBelow

\* What is done to columns moves no block out of its container.
LEMMA ColumnsKept ==
    ASSUME TreeInv, NEW c, NEW to, Renumber(c, to), live' = live
    PROVE  LockedKept
<1>1. ASSUME NEW x \in live PROVE place'[x].in = place[x].in
  <2>1. x \in Blocks /\ place[x] \in [in : {0} \cup Blocks, column : 1..MaxColumns]
    BY DEF TreeInv, TreeTypes
  <2>2. PICK w : w = [place[x] EXCEPT !.column = to[@]]
    OBVIOUS
  <2>3. w.in = place[x].in
    BY <2>1, <2>2
  <2>4. place'[x] = place[x] \/ place'[x] = w
    BY <2>1, <2>2 DEF Renumber
  <2> QED BY <2>3, <2>4
<1> QED BY <1>1, KeptWhen, LockedBelow

LEMMA LockedStep ==
    TreeInv /\ [DocumentTreeNext]_treeVars
      => [policy = "locks" /\ policy' = "locks" => LockedKept]_treeVars
<1> SUFFICES ASSUME TreeInv, DocumentTreeNext, policy = "locks" PROVE LockedKept
  OBVIOUS
<1>1. CASE \E shape \in Shapes, list \in Lists : Insert(shape, list)
  BY <1>1, InsertKept
<1>2. CASE \E b \in live : Duplicate(b)
  BY <1>2, DuplicateKept
<1>3. CASE \E b \in live : Delete(b)
  BY <1>3, DeleteKept
<1>4. CASE \E b \in live, list \in Lists : Move(b, list)
  BY <1>4, MoveKept
<1>5. CASE \E c \in Containers, n \in 1..MaxColumns : SetColumns(c, n)
  BY <1>5, ColumnsKept DEF SetColumns
<1>6. CASE \E c \in Containers, n \in 1..MaxColumns : RemoveColumn(c, n)
  BY <1>6, ColumnsKept DEF RemoveColumn
<1>7. CASE \E c \in Containers, n \in 1..MaxColumns : MoveColumn(c, n)
  BY <1>7, ColumnsKept DEF MoveColumn
<1>8. CASE \E ids \in kSubset(MaxLocks, live) : Opens(ids)
  BY <1>8 DEF Opens
<1> QED BY <1>1, <1>2, <1>3, <1>4, <1>5, <1>6, <1>7, <1>8 DEF DocumentTreeNext

\* In a template with locked blocks no step of the employee takes one away or moves it to
\* another container, nor changes what a locked container holds.
THEOREM LockedBlocksStay == DocumentTreeSpec => LockedStay
<1>1. TreeInv /\ [DocumentTreeNext]_treeVars
        => [policy = "locks" /\ policy' = "locks"
              => /\ \A b \in LockedBlockIds : b \in live' /\ place'[b].in = place[b].in
                 /\ \A c \in LockedBlockIds : {b \in live : place[b].in = c}
                                               = {b \in live' : place'[b].in = c}]_treeVars
  BY LockedStep DEF LockedKept
<1> QED BY <1>1, TreeInvariant, PTL DEF DocumentTreeSpec, LockedStay

-----------------------------------------------------------------------------
(* Sums. *)

\* What a fold over a set takes next, and what is left.
SomeOf(s) == CHOOSE x \in s : TRUE
SumBody(g, w, s) == IF s = {} THEN 0 ELSE w[SomeOf(s)] + g[s \ {SomeOf(s)}]
Sums(g, w, S) == g = [s \in SUBSET S |-> SumBody(g, w, s)]

\* Induction over the subsets of a finite set.
LEMMA SetInduction ==
    ASSUME NEW S, IsFiniteSet(S), NEW Good, {} \in Good,
           \A s \in SUBSET S : s # {} /\ (s \ {SomeOf(s)}) \in Good => s \in Good
    PROVE  \A s \in SUBSET S : s \in Good
<1> DEFINE Small == {n \in Nat : \A s \in SUBSET S : Cardinality(s) <= n => s \in Good}
<1>0. /\ \A s \in SUBSET S : IsFiniteSet(s) /\ Cardinality(s) \in Nat
      /\ Cardinality(S) \in Nat
      /\ \A s \in SUBSET S : Cardinality(s) <= Cardinality(S)
  BY FS_Subset, FS_CardinalityType
<1>1. 0 \in Small
  <2>1. \A s \in SUBSET S : Cardinality(s) <= 0 => s = {}
    BY <1>0, FS_EmptySet
  <2> QED BY <2>1
<1>2. ASSUME NEW n \in Nat, n \in Small PROVE n + 1 \in Small
  <2>1. ASSUME NEW s \in SUBSET S, Cardinality(s) <= n + 1 PROVE s \in Good
    <3>1. CASE s = {}
      BY <3>1
    <3>2. CASE s # {}
      <4>1. SomeOf(s) \in s
        BY <3>2 DEF SomeOf
      <4>2. Cardinality(s \ {SomeOf(s)}) = Cardinality(s) - 1
        BY <1>0, <4>1, FS_RemoveElement
      <4>3. s \ {SomeOf(s)} \in SUBSET S /\ Cardinality(s \ {SomeOf(s)}) <= n
        BY <1>0, <2>1, <4>2
      <4>4. s \ {SomeOf(s)} \in Good
        BY <1>2, <4>3
      <4> QED BY <3>2, <4>4
    <3> QED BY <3>1, <3>2
  <2> QED BY <2>1
<1>3. Cardinality(S) \in Small
  <2> HIDE DEF Small
  <2>1. Cardinality(S) \in 0..Cardinality(S)
    BY <1>0
  <2> QED BY <1>0, <1>1, <1>2, <2>1, UpTo
<1> QED BY <1>0, <1>3

LEMMA SumsExist == ASSUME NEW w, NEW S, IsFiniteSet(S) PROVE \E g : Sums(g, w, S)
<1> DEFINE Below(n) == {s \in SUBSET S : Cardinality(s) <= n}
           Has(n) == \E g : g = [s \in Below(n) |-> SumBody(g, w, s)]
           Good == {n \in Nat : Has(n)}
<1>0. /\ \A s \in SUBSET S : IsFiniteSet(s) /\ Cardinality(s) \in Nat
      /\ Cardinality(S) \in Nat
      /\ \A s \in SUBSET S : Cardinality(s) <= Cardinality(S)
  BY FS_Subset, FS_CardinalityType
<1>1. 0 \in Good
  <2>1. \A s \in Below(0) : s = {}
    BY <1>0, FS_EmptySet
  <2>2. PICK g : g = [s \in Below(0) |-> 0]
    OBVIOUS
  <2>3. \A s \in Below(0) : SumBody(g, w, s) = 0
    BY <2>1 DEF SumBody
  <2>4. g = [s \in Below(0) |-> SumBody(g, w, s)]
    <3> HIDE DEF Below
    <3> QED BY <2>2, <2>3
  <2>5. Has(0)
    <3> HIDE DEF Below
    <3> QED BY <2>4
  <2> HIDE DEF Has
  <2> QED BY <2>5
<1>2. ASSUME NEW n \in Nat, n \in Good PROVE n + 1 \in Good
  <2>1. PICK h : h = [s \in Below(n) |-> SumBody(h, w, s)]
    BY <1>2
  <2>2. PICK g : g = [s \in Below(n + 1) |-> SumBody(h, w, s)]
    OBVIOUS
  <2>3. ASSUME NEW s \in Below(n + 1) PROVE SumBody(g, w, s) = SumBody(h, w, s)
    <3>1. CASE s = {}
      BY <3>1 DEF SumBody
    <3>2. CASE s # {}
      <4>1. PICK t : t = s \ {SomeOf(s)}
        OBVIOUS
      <4>2. t \in Below(n) /\ t \in Below(n + 1)
        <5>1. SomeOf(s) \in s /\ s \in SUBSET S /\ Cardinality(s) <= n + 1
          BY <3>2 DEF SomeOf
        <5>2. Cardinality(t) = Cardinality(s) - 1
          BY <1>0, <4>1, <5>1, FS_RemoveElement
        <5> QED BY <1>0, <4>1, <5>1, <5>2
      <4>3. g[t] = SumBody(h, w, t) /\ h[t] = SumBody(h, w, t)
        <5> HIDE DEF Below
        <5> QED BY <2>1, <2>2, <4>2
      <4> QED BY <4>1, <4>3 DEF SumBody
    <3> QED BY <3>1, <3>2
  <2>4. g = [s \in Below(n + 1) |-> SumBody(g, w, s)]
    <3> HIDE DEF Below
    <3> QED BY <2>2, <2>3
  <2>5. Has(n + 1)
    <3> HIDE DEF Below
    <3> QED BY <2>4
  <2> HIDE DEF Has
  <2> QED BY <2>5
<1>3. Cardinality(S) \in Good
  <2> HIDE DEF Good
  <2>1. Cardinality(S) \in 0..Cardinality(S)
    BY <1>0
  <2> QED BY <1>0, <1>1, <1>2, <2>1, UpTo
<1>4. PICK g : g = [s \in Below(Cardinality(S)) |-> SumBody(g, w, s)]
  BY <1>3
<1>5. Below(Cardinality(S)) = SUBSET S
  BY <1>0
<1>6. g = [s \in SUBSET S |-> SumBody(g, w, s)]
  <2> HIDE DEF Below
  <2> QED BY <1>4, <1>5
<1> QED BY <1>6 DEF Sums

\* A sum of the library is such a fold.
LEMMA SumIsAFold ==
    ASSUME NEW w, NEW S, IsFiniteSet(S)
    PROVE  \E g : Sums(g, w, S) /\ SumFunctionOnSet(w, S) = g[S]
<1> DEFINE g == CHOOSE g : Sums(g, w, S)
<1>1. Sums(g, w, S)
  BY SumsExist
<1>2. SumFunctionOnSet(w, S) = g[S]
  BY DEF SumFunctionOnSet, FoldFunctionOnSet, MapThenFoldSet, Sums, SumBody, SomeOf
<1> QED BY <1>1, <1>2

LEMMA SumsStep ==
    ASSUME NEW g, NEW w, NEW S, Sums(g, w, S)
    PROVE  /\ g[{}] = 0
           /\ \A s \in SUBSET S : s # {} => /\ g[s] = w[SomeOf(s)] + g[s \ {SomeOf(s)}]
                                            /\ SomeOf(s) \in s /\ s \ {SomeOf(s)} \in SUBSET S
<1>1. \A s \in SUBSET S : g[s] = SumBody(g, w, s)
  BY DEF Sums
<1>2. \A s \in SUBSET S : s # {} => SomeOf(s) \in s
  BY DEF SomeOf
<1> QED BY <1>1, <1>2 DEF SumBody

LEMMA SumIsInt ==
    ASSUME NEW S, IsFiniteSet(S), NEW w, \A x \in S : w[x] \in Int
    PROVE  /\ SumFunctionOnSet(w, S) \in Int
           /\ (\A x \in S : w[x] > 0) /\ S # {} => SumFunctionOnSet(w, S) > 0
<1>1. PICK g : Sums(g, w, S) /\ SumFunctionOnSet(w, S) = g[S]
  BY SumIsAFold
<1> DEFINE Good == {s \in SUBSET S : g[s] \in Int /\ ((\A x \in S : w[x] > 0) => g[s] >= 0 /\ (s # {} => g[s] > 0))}
<1>2. {} \in Good
  BY <1>1, SumsStep
<1>3. ASSUME NEW s \in SUBSET S, s # {} /\ (s \ {SomeOf(s)}) \in Good PROVE s \in Good
  <2>1. /\ g[s] = w[SomeOf(s)] + g[s \ {SomeOf(s)}]
        /\ SomeOf(s) \in s /\ s \ {SomeOf(s)} \in SUBSET S
    BY <1>1, <1>3, SumsStep
  <2> QED BY <1>3, <2>1
<1>4. S \in Good
  <2> HIDE DEF Good
  <2>1. \A s \in SUBSET S : s \in Good
    BY <1>2, <1>3, SetInduction
  <2> QED BY <2>1
<1> QED BY <1>1, <1>4

\* Of two functions that differ at one place the sums differ by what they have there.
LEMMA SumMoves ==
    ASSUME NEW S, IsFiniteSet(S), NEW w, NEW v, NEW k \in S,
           \A x \in S : w[x] \in Int /\ v[x] \in Int,
           \A x \in S : x # k => w[x] = v[x]
    PROVE  SumFunctionOnSet(w, S) + v[k] = SumFunctionOnSet(v, S) + w[k]
<1>1. PICK g : Sums(g, w, S) /\ SumFunctionOnSet(w, S) = g[S]
  BY SumIsAFold
<1>2. PICK h : Sums(h, v, S) /\ SumFunctionOnSet(v, S) = h[S]
  BY SumIsAFold
<1>6. \A s \in SUBSET S : s # {} => h[s] = v[SomeOf(s)] + h[s \ {SomeOf(s)}]
  BY <1>2, SumsStep
<1> DEFINE Good == {s \in SUBSET S : /\ g[s] \in Int /\ h[s] \in Int
                                     /\ IF k \in s THEN g[s] + v[k] = h[s] + w[k] ELSE g[s] = h[s]}
<1>3. {} \in Good
  BY <1>1, <1>2, SumsStep
<1>4. ASSUME NEW s \in SUBSET S, s # {} /\ (s \ {SomeOf(s)}) \in Good PROVE s \in Good
  <2>a. /\ g[s] = w[SomeOf(s)] + g[s \ {SomeOf(s)}]
        /\ SomeOf(s) \in s /\ s \ {SomeOf(s)} \in SUBSET S
    BY <1>1, <1>4, SumsStep
  <2>b. h[s] = v[SomeOf(s)] + h[s \ {SomeOf(s)}]
    BY <1>4, <1>6
  <2>1. PICK x, t : x = SomeOf(s) /\ t = s \ {SomeOf(s)}
    OBVIOUS
  <2>2. /\ g[s] = w[x] + g[t] /\ h[s] = v[x] + h[t] /\ x \in s /\ t \in SUBSET S
        /\ t = s \ {x}
    BY <2>a, <2>b, <2>1
  <2>3. /\ g[t] \in Int /\ h[t] \in Int
        /\ IF k \in t THEN g[t] + v[k] = h[t] + w[k] ELSE g[t] = h[t]
    BY <1>4, <2>1
  <2>4. w[x] \in Int /\ v[x] \in Int /\ w[k] \in Int /\ v[k] \in Int /\ (x # k => w[x] = v[x])
    BY <2>2
  <2>5. CASE x = k
    BY <2>1, <2>2, <2>3, <2>4, <2>5
  <2>6. CASE x # k
    BY <2>1, <2>2, <2>3, <2>4, <2>6
  <2> QED BY <2>5, <2>6
<1>5. S \in Good
  <2> HIDE DEF Good
  <2>1. \A s \in SUBSET S : s \in Good
    BY <1>3, <1>4, SetInduction
  <2> QED BY <2>1
<1> QED BY <1>1, <1>2, <1>5

\* The sum of equal numbers.
LEMMA SumOfEqual ==
    ASSUME NEW S, IsFiniteSet(S), NEW m \in Nat, NEW w, \A x \in S : w[x] = m
    PROVE  SumFunctionOnSet(w, S) = m * Cardinality(S)
<1>1. PICK g : Sums(g, w, S) /\ SumFunctionOnSet(w, S) = g[S]
  BY SumIsAFold
<1>2. \A s \in SUBSET S : IsFiniteSet(s) /\ Cardinality(s) \in Nat
  BY FS_Subset, FS_CardinalityType
<1> DEFINE Good == {s \in SUBSET S : g[s] = m * Cardinality(s)}
<1>3. {} \in Good
  <2>1. Cardinality({}) = 0 /\ m * 0 = 0
    BY FS_EmptySet
  <2> QED BY <1>1, <2>1, SumsStep
<1>4. ASSUME NEW s \in SUBSET S, s # {} /\ (s \ {SomeOf(s)}) \in Good PROVE s \in Good
  <2>a. /\ g[s] = w[SomeOf(s)] + g[s \ {SomeOf(s)}]
        /\ SomeOf(s) \in s /\ s \ {SomeOf(s)} \in SUBSET S
    BY <1>1, <1>4, SumsStep
  <2>1. PICK x, t : x = SomeOf(s) /\ t = s \ {SomeOf(s)}
    OBVIOUS
  <2>2. g[s] = w[x] + g[t] /\ x \in s /\ t \in SUBSET S /\ t = s \ {x}
    BY <2>a, <2>1
  <2>3. Cardinality(t) = Cardinality(s) - 1
    BY <1>2, <2>1, <2>2, FS_RemoveElement
  <2>4. g[s] = m + m * Cardinality(t)
    BY <1>4, <2>1, <2>2
  <2>5. \A a, b \in Nat : m + m * a = m * (a + 1)
    OBVIOUS
  <2>6. Cardinality(t) \in Nat /\ Cardinality(t) + 1 = Cardinality(s)
    BY <1>2, <2>2, <2>3
  <2>7. g[s] = m * (Cardinality(t) + 1)
    BY <2>4, <2>5, <2>6
  <2> QED BY <2>6, <2>7
<1>5. S \in Good
  <2> HIDE DEF Good
  <2>1. \A s \in SUBSET S : s \in Good
    BY <1>3, <1>4, SetInduction
  <2> QED BY <2>1
<1> QED BY <1>1, <1>5

-----------------------------------------------------------------------------
(* Folds from left to right whose step does not look at the element. *)

LEMMA TopOfInterval ==
    ASSUME NEW k \in Nat
    PROVE  /\ Max(1..(k + 1)) = k + 1 /\ (1..(k + 1)) \ {k + 1} = 1..k
           /\ 1..(k + 1) # {} /\ 1..0 = {}
<1>1. 1..(k + 1) \in SUBSET (0..(k + 1)) /\ 1..(k + 1) # {} /\ k + 1 \in Nat
  OBVIOUS
<1>2. PICK S : S = 1..(k + 1)
  OBVIOUS
<1>3. Max(S) \in S /\ \A x \in S : x <= Max(S)
  BY <1>1, <1>2, GreatestNumber
<1>4. Max(S) = k + 1
  BY <1>2, <1>3
<1> QED BY <1>2, <1>4

\* The values of a fold over the positions of a sequence, for every set of positions:
\* one round for each.
FoldedBy(U, base, step, n) ==
    \E f \in [SUBSET (1..n) -> U] :
       \A S \in SUBSET (1..n) : f[S] = IF S = {} THEN base ELSE step[f[S \ {Max(S)}]]

LEMMA FoldExists ==
    ASSUME NEW U, NEW base \in U, NEW step \in [U -> U], NEW n \in Nat
    PROVE  FoldedBy(U, base, step, n)
<1> DEFINE Run(r, m) == /\ r \in [0..m -> U] /\ r[0] = base
                        /\ \A k \in 0..(m - 1) : r[k + 1] = step[r[k]]
           Good == {m \in Nat : \E r : Run(r, m)}
<1>1. 0 \in Good
  <2>1. PICK r : r = [k \in 0..0 |-> base]
    OBVIOUS
  <2>2. Run(r, 0)
    BY <2>1
  <2> HIDE DEF Run
  <2> QED BY <2>2
<1>2. ASSUME NEW m \in Nat, m \in Good PROVE m + 1 \in Good
  <2>1. PICK r : Run(r, m)
    BY <1>2
  <2>2. PICK q : q = [k \in 0..(m + 1) |-> IF k = m + 1 THEN step[r[m]] ELSE r[k]]
    OBVIOUS
  <2>3. \A k \in 0..m : q[k] = r[k] /\ r[k] \in U
    BY <2>1, <2>2
  <2>4. q[m + 1] = step[r[m]] /\ step[r[m]] \in U
    BY <2>1, <2>2
  <2>5. q \in [0..(m + 1) -> U]
    BY <2>2, <2>3, <2>4
  <2>6. ASSUME NEW k \in 0..m PROVE q[k + 1] = step[q[k]]
    <3>1. CASE k = m
      BY <2>3, <2>4, <3>1
    <3>2. CASE k # m
      <4>1. k \in 0..(m - 1) /\ k + 1 \in 0..m
        BY <3>2
      <4> QED BY <2>1, <2>3, <4>1
    <3> QED BY <3>1, <3>2
  <2>7. q[0] = base /\ (m + 1) - 1 = m
    BY <2>1, <2>3
  <2>8. Run(q, m + 1)
    BY <2>5, <2>6, <2>7
  <2> HIDE DEF Run
  <2> QED BY <2>8
<1>3. n \in Good
  <2> HIDE DEF Good
  <2>1. n \in 0..n
    OBVIOUS
  <2> QED BY <1>1, <1>2, <2>1, UpTo
<1>4. PICK r : Run(r, n)
  BY <1>3
<1>5. IsFiniteSet(1..n) /\ Cardinality(1..n) = n
  <2>1. IsFiniteSet(1..n) /\ Cardinality(1..n) = IF 1 > n THEN 0 ELSE n - 1 + 1
    BY FS_Interval
  <2> QED BY <2>1
<1>6. \A S \in SUBSET (1..n) : IsFiniteSet(S) /\ Cardinality(S) \in 0..n
  <2>1. \A S \in SUBSET (1..n) : IsFiniteSet(S) /\ Cardinality(S) \in Nat /\ Cardinality(S) <= n
    BY <1>5, FS_Subset, FS_CardinalityType
  <2> QED BY <2>1
<1>7. PICK f : f = [S \in SUBSET (1..n) |-> r[Cardinality(S)]]
  OBVIOUS
<1>8. f \in [SUBSET (1..n) -> U]
  BY <1>4, <1>6, <1>7
<1>9. ASSUME NEW S \in SUBSET (1..n)
      PROVE  f[S] = IF S = {} THEN base ELSE step[f[S \ {Max(S)}]]
  <2>1. CASE S = {}
    <3>1. Cardinality(S) = 0
      BY <2>1, FS_EmptySet
    <3> QED BY <1>4, <1>7, <2>1, <3>1
  <2>2. CASE S # {}
    <3>1. Max(S) \in S
      <4>1. S \in SUBSET (0..n)
        OBVIOUS
      <4> QED BY <2>2, <4>1, GreatestNumber
    <3>2. Cardinality(S \ {Max(S)}) = Cardinality(S) - 1
      BY <1>6, <3>1, FS_RemoveElement
    <3>3. PICK k : k = Cardinality(S \ {Max(S)})
      OBVIOUS
    <3>4. k \in 0..n /\ k + 1 = Cardinality(S) /\ Cardinality(S) \in 0..n
      BY <1>6, <3>2, <3>3
    <3>5. k \in 0..(n - 1)
      BY <3>4
    <3>6. r[k + 1] = step[r[k]]
      BY <1>4, <3>5
    <3>7. f[S] = r[k + 1] /\ f[S \ {Max(S)}] = r[k]
      BY <1>7, <3>3, <3>4
    <3> QED BY <2>2, <3>6, <3>7
  <2> QED BY <2>1, <2>2
<1> QED BY <1>8, <1>9 DEF FoldedBy

-----------------------------------------------------------------------------
(* Widths. *)

LEMMA LayoutNumbers ==
    /\ FullWidth \in Nat /\ MinWidth \in Nat /\ MostColumns \in Nat
    /\ FullWidth > 0 /\ MinWidth > 0 /\ MostColumns > 0 /\ MinWidth <= FullWidth
    /\ \A n \in 0..MostColumns : MinWidth * n <= FullWidth
    /\ \A n \in Int : IsFiniteSet(1..n)
    /\ \A n \in Nat : Cardinality(1..n) = n
<1>1. /\ FullWidth \in Nat /\ MinWidth \in Nat /\ MostColumns \in Nat
      /\ FullWidth > 0 /\ MinWidth > 0 /\ MostColumns > 0 /\ MinWidth * MostColumns <= FullWidth
  BY ColumnLayoutAssumption
<1>2. \A a, b, c \in Nat : b <= c => a * b <= a * c /\ a * b \in Nat /\ a * c \in Nat
  OBVIOUS
<1>3. ASSUME NEW n \in 0..MostColumns PROVE MinWidth * n <= FullWidth
  <2>1. MinWidth * n <= MinWidth * MostColumns /\ MinWidth * n \in Nat /\ MinWidth * MostColumns \in Nat
    BY <1>1, <1>2
  <2> QED BY <1>1, <2>1
<1>4. MinWidth <= FullWidth
  <2>1. MinWidth * 1 = MinWidth /\ 1 \in 0..MostColumns
    BY <1>1
  <2> QED BY <1>3, <2>1
<1>5. \A n \in Int : IsFiniteSet(1..n)
  BY FS_Interval
<1>6. \A n \in Nat : Cardinality(1..n) = n
  <2> SUFFICES ASSUME NEW n \in Nat PROVE Cardinality(1..n) = n
    OBVIOUS
  <2>1. Cardinality(1..n) = IF 1 > n THEN 0 ELSE n - 1 + 1
    BY FS_Interval
  <2> QED BY <2>1
<1> QED BY <1>1, <1>3, <1>4, <1>5, <1>6

\* Among the places of a list there is a last widest.
LEMMA WidestExists ==
    ASSUME NEW n \in Nat, NEW o \in [1..n -> Nat], NEW open \in SUBSET (1..n), open # {}
    PROVE  \E m \in open : \A j \in open : o[j] < o[m] \/ (o[j] = o[m] /\ j <= m)
<1> DEFINE Best(k, m) == \A j \in open : j <= k => o[j] < o[m] \/ (o[j] = o[m] /\ j <= m)
           Good == {k \in Nat : (\E j \in open : j <= k) => \E m \in open : m <= k /\ Best(k, m)}
<1>1. 0 \in Good
  OBVIOUS
<1>2. ASSUME NEW k \in Nat, k < n, k \in Good PROVE k + 1 \in Good
  <2>0. \A j \in open : o[j] \in Nat /\ j \in Nat
    OBVIOUS
  <2>1. CASE k + 1 \notin open
    <3>1. \A j \in open : j <= k + 1 <=> j <= k
      BY <2>0, <2>1
    <3> QED BY <1>2, <3>1
  <2>2. CASE k + 1 \in open /\ ~(\E j \in open : j <= k)
    <3>1. \A j \in open : j <= k + 1 => j = k + 1
      BY <2>0, <2>2
    <3>2. Best(k + 1, k + 1)
      BY <2>0, <3>1
    <3> QED BY <2>2, <3>2
  <2>3. CASE k + 1 \in open /\ \E j \in open : j <= k
    <3>1. PICK m \in open : m <= k /\ Best(k, m)
      BY <1>2, <2>3
    <3>2. \A j \in open : j <= k + 1 => j <= k \/ j = k + 1
      BY <2>0
    <3>3. CASE o[m] <= o[k + 1]
      <4>1. ASSUME NEW j \in open, j <= k + 1
            PROVE  o[j] < o[k + 1] \/ (o[j] = o[k + 1] /\ j <= k + 1)
        <5>1. j <= k => o[j] <= o[m]
          BY <2>0, <3>1
        <5>2. o[j] \in Nat /\ o[m] \in Nat /\ o[k + 1] \in Nat /\ (j <= k \/ j = k + 1)
          BY <2>0, <2>3, <3>2, <4>1
        <5> QED BY <3>3, <4>1, <5>1, <5>2
      <4>2. Best(k + 1, k + 1)
        BY <4>1
      <4> QED BY <2>3, <4>2
    <3>4. CASE ~(o[m] <= o[k + 1])
      <4>1. ASSUME NEW j \in open, j <= k + 1
            PROVE  o[j] < o[m] \/ (o[j] = o[m] /\ j <= m)
        <5>1. o[j] \in Nat /\ o[m] \in Nat /\ o[k + 1] \in Nat /\ (j <= k \/ j = k + 1)
          BY <2>0, <2>3, <3>2, <4>1
        <5>2. o[k + 1] < o[m]
          BY <3>4, <5>1
        <5>3. CASE j <= k
          BY <3>1, <5>3
        <5> QED BY <5>1, <5>2, <5>3
      <4>2. m <= k + 1
        BY <2>0, <3>1
      <4>3. Best(k + 1, m)
        BY <4>1
      <4> QED BY <4>2, <4>3
    <3> QED BY <3>3, <3>4
  <2> QED BY <2>1, <2>2, <2>3
<1>3. n \in Good
  <2>1. \A k \in Nat : k < n /\ k \in Good => k + 1 \in Good
    BY <1>2
  <2> HIDE DEF Good
  <2>2. \A k \in 0..n : k \in Good
    BY <1>1, <2>1, UpTo
  <2>3. n \in 0..n
    OBVIOUS
  <2> QED BY <2>2, <2>3
<1>4. \A j \in open : j <= n
  OBVIOUS
<1>5. PICK m \in open : Best(n, m)
  BY <1>3, <1>4
<1>6. \A j \in open : o[j] < o[m] \/ (o[j] = o[m] /\ j <= m)
  BY <1>4, <1>5
<1> QED BY <1>6

\* One round of normalizeWidths() moves the sum by one point, and no width below the
\* least: a sum that is too large leaves a width that can give.
LEMMA PointOf ==
    ASSUME NEW n \in 1..MostColumns, NEW o \in [1..n -> Nat], \A i \in 1..n : o[i] >= MinWidth,
           NEW grow \in BOOLEAN, grow \/ SumFunctionOnSet(o, 1..n) > FullWidth
    PROVE  /\ Point(o, grow) \in [1..n -> Nat]
           /\ \A i \in 1..n : Point(o, grow)[i] >= MinWidth
           /\ SumFunctionOnSet(Point(o, grow), 1..n)
                = SumFunctionOnSet(o, 1..n) + (IF grow THEN 1 ELSE 0 - 1)
<1>0. n \in Nat /\ n \in 0..MostColumns /\ DOMAIN o = 1..n /\ 1 \in 1..n /\ IsFiniteSet(1..n) /\ Cardinality(1..n) = n
  BY LayoutNumbers
<1>1. PICK open : open = {i \in 1..n : grow \/ o[i] > MinWidth}
  OBVIOUS
<1>2. open # {}
  <2>1. CASE grow
    BY <1>0, <1>1, <2>1
  <2>2. CASE SumFunctionOnSet(o, 1..n) > FullWidth
    <3> SUFFICES ASSUME open = {} PROVE FALSE
      OBVIOUS
    <3>1. \A i \in 1..n : o[i] = MinWidth
      BY <1>1, LayoutNumbers
    <3>2. SumFunctionOnSet(o, 1..n) = MinWidth * n
      BY <1>0, <3>1, SumOfEqual, LayoutNumbers
    <3>3. MinWidth * n <= FullWidth /\ MinWidth * n \in Nat
      BY <1>0, LayoutNumbers
    <3> QED BY <2>2, <3>2, <3>3, LayoutNumbers
  <2> QED BY <2>1, <2>2
<1>3. PICK m \in open : \A j \in open : o[j] < o[m] \/ (o[j] = o[m] /\ j <= m)
  BY <1>0, <1>1, <1>2, WidestExists
<1>4. PICK widest : widest = {i \in open : \A j \in open : o[j] < o[i] \/ (o[j] = o[i] /\ j <= i)}
  OBVIOUS
<1>5. widest = {m}
  <2>1. \A i \in open : i \in Nat /\ o[i] \in Nat
    BY <1>1
  <2>2. ASSUME NEW i \in widest PROVE i = m
    <3>1. o[m] < o[i] \/ (o[m] = o[i] /\ m <= i)
      BY <1>4
    <3>2. o[i] < o[m] \/ (o[i] = o[m] /\ i <= m)
      BY <1>3, <1>4
    <3> QED BY <1>4, <2>1, <3>1, <3>2
  <2> QED BY <1>3, <1>4, <2>2
<1>6. PICK p : p = Point(o, grow)
  OBVIOUS
<1>7. p = [i \in 1..n |-> IF i \notin widest THEN o[i] ELSE IF grow THEN o[i] + 1 ELSE o[i] - 1]
  BY <1>0, <1>1, <1>4, <1>6 DEF Point
<1>8. /\ \A i \in 1..n : i # m => p[i] = o[i]
      /\ m \in 1..n /\ p[m] = IF grow THEN o[m] + 1 ELSE o[m] - 1
      /\ DOMAIN p = 1..n
  BY <1>1, <1>3, <1>5, <1>7
<1>9. ASSUME NEW i \in 1..n PROVE p[i] \in Nat /\ p[i] >= MinWidth
  <2>1. o[m] \in Nat /\ (grow \/ o[m] > MinWidth) /\ o[m] >= MinWidth
    BY <1>1, <1>3
  <2> QED BY <1>8, <2>1, LayoutNumbers
<1>10. p \in [1..n -> Nat]
  BY <1>7, <1>8, <1>9
<1>11. SumFunctionOnSet(o, 1..n) \in Int /\ SumFunctionOnSet(p, 1..n) \in Int
  BY <1>0, <1>10, SumIsInt
<1>12. SumFunctionOnSet(p, 1..n) + o[m] = SumFunctionOnSet(o, 1..n) + p[m]
  <2>1. \A x \in 1..n : p[x] \in Int /\ o[x] \in Int
    BY <1>10
  <2> QED BY <1>0, <1>8, <2>1, SumMoves
<1>13. SumFunctionOnSet(p, 1..n) = SumFunctionOnSet(o, 1..n) + (IF grow THEN 1 ELSE 0 - 1)
  BY <1>8, <1>11, <1>12
<1> QED BY <1>6, <1>9, <1>10, <1>13

LEMMA GreatestOfTwo ==
    ASSUME NEW i \in Int, NEW n \in Int
    PROVE  Max({i, n}) \in {i, n} /\ Max({i, n}) >= i /\ Max({i, n}) >= n
<1>1. \E x \in {i, n} : \A y \in {i, n} : x >= y
  <2>1. CASE i >= n
    <3>1. \A y \in {i, n} : i >= y
      BY <2>1
    <3> QED BY <3>1
  <2>2. CASE ~(i >= n)
    <3>1. \A y \in {i, n} : n >= y
      BY <2>2
    <3> QED BY <3>1
  <2> QED BY <2>1, <2>2
<1>2. /\ Max({i, n}) \in {i, n} /\ \A y \in {i, n} : Max({i, n}) >= y
  BY <1>1 DEF Max
<1> QED BY <1>2

LEMMA LengthOf ==
    ASSUME NEW S, NEW n \in Nat, NEW w \in [1..n -> S]
    PROVE  w \in Seq(S) /\ Len(w) = n /\ DOMAIN w = 1..n
<1>1. w \in Seq(S)
  BY SeqDef
<1>2. DOMAIN w = 1..n /\ DOMAIN w = 1..Len(w) /\ Len(w) \in Nat
  BY <1>1, LenProperties
<1>3. Len(w) = n
  BY <1>2
<1> QED BY <1>1, <1>2, <1>3

\* The rounds of normalizeWidths().
Corrected(f, out, grow, S) == IF S = {} THEN out ELSE Point(f[S \ {Max(S)}], grow)
Corrections(out, grow, n) ==
    CHOOSE f : f = [S \in SUBSET (1..n) |-> Corrected(f, out, grow, S)]

RoundsOf(f, out, grow, n) ==
    /\ f[1..0] = out
    /\ \A k \in Nat : k < n => f[1..(k + 1)] = Point(f[1..k], grow)

LEMMA PointIn ==
    ASSUME NEW n \in Nat, NEW o \in [1..n -> Nat], NEW grow \in BOOLEAN
    PROVE  Point(o, grow) \in [1..n -> Nat]
<1>1. PICK open : open = {i \in 1..n : grow \/ o[i] > MinWidth}
  OBVIOUS
<1>2. PICK widest : widest = {i \in open : \A j \in open : o[j] < o[i] \/ (o[j] = o[i] /\ j <= i)}
  OBVIOUS
<1>3. DOMAIN o = 1..n /\ \A i \in widest : i \in 1..n /\ (grow \/ o[i] > MinWidth)
  BY <1>1, <1>2
<1>4. PICK p : p = [i \in 1..n |-> IF i \notin widest THEN o[i] ELSE IF grow THEN o[i] + 1 ELSE o[i] - 1]
  OBVIOUS
<1>5. Point(o, grow) = p
  BY <1>1, <1>2, <1>3, <1>4 DEF Point
<1>6. \A i \in 1..n : p[i] \in Nat
  BY <1>3, <1>4, LayoutNumbers
<1>7. p \in [1..n -> Nat]
  BY <1>4, <1>6
<1> QED BY <1>5, <1>7

LEMMA CorrectionsOf ==
    ASSUME NEW n \in Nat, NEW out \in [1..n -> Nat], NEW grow \in BOOLEAN, NEW drift \in Nat
    PROVE  RoundsOf(Corrections(out, grow, drift), out, grow, drift)
<1>0. PICK U : U = [1..n -> Nat]
  OBVIOUS
<1>1. PICK step : step = [o \in U |-> Point(o, grow)]
  OBVIOUS
<1>2. step \in [U -> U] /\ out \in U
  BY <1>0, <1>1, PointIn
<1>3. PICK g \in [SUBSET (1..drift) -> U] :
             \A S \in SUBSET (1..drift) : g[S] = IF S = {} THEN out ELSE step[g[S \ {Max(S)}]]
  <2>1. FoldedBy(U, out, step, drift)
    BY <1>2, FoldExists
  <2> QED BY <2>1 DEF FoldedBy
<1>4. ASSUME NEW S \in SUBSET (1..drift)
      PROVE  g[S] = Corrected(g, out, grow, S)
  <2>1. g[S] = IF S = {} THEN out ELSE step[g[S \ {Max(S)}]]
    BY <1>3
  <2>2. S \ {Max(S)} \in SUBSET (1..drift)
    OBVIOUS
  <2>3. g[S \ {Max(S)}] \in U
    BY <1>3, <2>2
  <2>4. step[g[S \ {Max(S)}]] = Point(g[S \ {Max(S)}], grow)
    BY <1>1, <2>3
  <2> QED BY <2>1, <2>4 DEF Corrected
<1>5. g = [S \in SUBSET (1..drift) |-> Corrected(g, out, grow, S)]
  <2>1. g = [S \in SUBSET (1..drift) |-> g[S]]
    BY <1>3
  <2> QED BY <1>4, <2>1
<1>6. PICK f : f = Corrections(out, grow, drift)
  OBVIOUS
<1>7. f = [S \in SUBSET (1..drift) |-> Corrected(f, out, grow, S)]
  BY <1>5, <1>6 DEF Corrections
<1>8. \A S \in SUBSET (1..drift) : f[S] = Corrected(f, out, grow, S)
  BY <1>7
<1>9. f[1..0] = out
  <2>1. 1..0 \in SUBSET (1..drift) /\ 1..0 = {}
    OBVIOUS
  <2>2. f[1..0] = Corrected(f, out, grow, 1..0)
    BY <1>8, <2>1
  <2> QED BY <2>1, <2>2 DEF Corrected
<1>10. ASSUME NEW k \in Nat, k < drift PROVE f[1..(k + 1)] = Point(f[1..k], grow)
  <2>1. PICK S : S = 1..(k + 1)
    OBVIOUS
  <2>2. S \in SUBSET (1..drift)
    BY <1>10, <2>1
  <2>3. S # {} /\ Max(S) = k + 1 /\ S \ {k + 1} = 1..k
    BY <2>1, TopOfInterval
  <2>4. f[S] = Corrected(f, out, grow, S)
    BY <1>8, <2>2
  <2> QED BY <2>1, <2>3, <2>4 DEF Corrected
<1> QED BY <1>6, <1>9, <1>10 DEF RoundsOf

\* normalizeWidths(): whatever the widths were, they come to the full width, and each
\* to the least at least.
LEMMA NormalizedOf ==
    ASSUME NEW n \in 1..MostColumns, NEW w \in [1..n -> Int]
    PROVE  /\ NormalizeWidths(w) \in [1..n -> Nat]
           /\ \A i \in 1..n : NormalizeWidths(w)[i] >= MinWidth
           /\ SumFunctionOnSet(NormalizeWidths(w), 1..n) = FullWidth
<1>0. /\ n \in Nat /\ n >= 1 /\ Len(w) = n /\ n \in 0..MostColumns /\ IsFiniteSet(1..n)
      /\ Cardinality(1..n) = n /\ 1 \in 1..n /\ 1..n # {}
  <2>1. n \in Nat /\ n >= 1 /\ n \in 0..MostColumns /\ 1 \in 1..n
    BY LayoutNumbers
  <2>2. Len(w) = n
    BY <2>1, LengthOf
  <2>3. IsFiniteSet(1..n) /\ Cardinality(1..n) = n
    BY <2>1, LayoutNumbers
  <2> QED BY <2>1, <2>2, <2>3
<1>1. CASE n = 1
  <2>1. PICK r : r = [i \in 1..n |-> FullWidth]
    OBVIOUS
  <2>2. NormalizeWidths(w) = r
    BY <1>0, <1>1, <2>1 DEF NormalizeWidths
  <2>3. r \in [1..n -> Nat] /\ \A i \in 1..n : r[i] = FullWidth
    BY <2>1, LayoutNumbers
  <2>4. FullWidth \in Nat /\ FullWidth * 1 = FullWidth /\ FullWidth >= MinWidth
    BY LayoutNumbers
  <2>5. SumFunctionOnSet(r, 1..n) = FullWidth * Cardinality(1..n)
    BY <1>0, <2>3, <2>4, SumOfEqual
  <2> QED BY <1>0, <1>1, <2>2, <2>3, <2>4, <2>5
<1>2. CASE n # 1
  <2>1. PICK raw : raw = [i \in 1..n |-> IF w[i] > 0 THEN n * w[i] ELSE FullWidth]
    OBVIOUS
  <2>2. raw \in [1..n -> Nat] /\ \A i \in 1..n : raw[i] > 0
    <3>1. \A a, b \in Nat : a > 0 /\ b > 0 => a * b \in Nat /\ a * b > 0
      OBVIOUS
    <3>2. \A i \in 1..n : raw[i] \in Nat /\ raw[i] > 0
      BY <1>0, <2>1, <3>1, LayoutNumbers
    <3> QED BY <2>1, <3>2
  <2>3. PICK sum : sum = SumFunction(raw)
    OBVIOUS
  <2>4. sum \in Nat /\ sum > 0
    <3>1. sum = SumFunctionOnSet(raw, 1..n)
      BY <2>2, <2>3 DEF SumFunction
    <3>2. \A i \in 1..n : raw[i] \in Int
      BY <2>2
    <3>3. SumFunctionOnSet(raw, 1..n) \in Int /\ SumFunctionOnSet(raw, 1..n) > 0
      BY <1>0, <2>2, <3>2, SumIsInt
    <3> QED BY <3>1, <3>3
  <2>5. PICK out : out = [i \in 1..n |-> Max({MinWidth, (2 * raw[i] * FullWidth + sum) \div (2 * sum)})]
    OBVIOUS
  <2>6. out \in [1..n -> Nat] /\ \A i \in 1..n : out[i] >= MinWidth
    <3>1. ASSUME NEW i \in 1..n PROVE out[i] \in Nat /\ out[i] >= MinWidth
      <4>1. PICK q : q = (2 * raw[i] * FullWidth + sum) \div (2 * sum)
        OBVIOUS
      <4>2. q \in Int
        <5>1. \A a, b \in Nat : a * b \in Nat
          OBVIOUS
        <5>2. 2 * raw[i] \in Nat /\ 2 * sum \in Nat /\ 2 * sum > 0
          BY <2>2, <2>4
        <5>3. 2 * raw[i] * FullWidth \in Nat
          BY <5>1, <5>2, LayoutNumbers
        <5>4. PICK x, y : x = 2 * raw[i] * FullWidth + sum /\ y = 2 * sum
          OBVIOUS
        <5>5. x \in Int /\ y \in Int /\ y > 0
          BY <2>4, <5>2, <5>3, <5>4
        <5>6. x \div y \in Int
          BY <5>5
        <5> QED BY <4>1, <5>4, <5>6
      <4>3. MinWidth \in Int
        BY LayoutNumbers
      <4>4. Max({MinWidth, q}) \in {MinWidth, q} /\ Max({MinWidth, q}) >= MinWidth
        BY <4>2, <4>3, GreatestOfTwo
      <4>5. out[i] = Max({MinWidth, q})
        BY <2>5, <4>1
      <4> QED BY <4>2, <4>4, <4>5, LayoutNumbers
    <3> QED BY <2>5, <3>1
  <2>7. PICK total, grow : total = SumFunction(out) /\ grow = (total < FullWidth)
    OBVIOUS
  <2>8. /\ total = SumFunctionOnSet(out, 1..n) /\ total \in Int /\ grow \in BOOLEAN
        /\ (IF grow THEN 1 ELSE 0 - 1) = (IF total < FullWidth THEN 1 ELSE 0 - 1)
        /\ grow \/ ~(total < FullWidth)
    <3>1. total = SumFunctionOnSet(out, 1..n)
      BY <2>6, <2>7 DEF SumFunction
    <3>2. \A i \in 1..n : out[i] \in Int
      BY <2>6
    <3>3. SumFunctionOnSet(out, 1..n) \in Int
      BY <1>0, <3>2, SumIsInt
    <3>4. grow \in BOOLEAN
      <4>1. grow = (total < FullWidth) /\ (total < FullWidth) \in BOOLEAN
        BY <2>7, <3>1, <3>3, LayoutNumbers
      <4> QED BY <4>1, Zenon
    <3>5. grow \/ ~(total < FullWidth)
      BY <2>7, Zenon
    <3>6. (IF grow THEN 1 ELSE 0 - 1) = (IF total < FullWidth THEN 1 ELSE 0 - 1)
      BY <2>7, Zenon
    <3> QED BY <2>7, <3>1, <3>3, <3>4, <3>5, <3>6
  <2>9. PICK drift : drift = IF total < FullWidth THEN FullWidth - total ELSE total - FullWidth
    OBVIOUS
  <2>10. drift \in Nat
    BY <2>8, <2>9, LayoutNumbers
  <2>11. PICK f : f = Corrections(out, grow, drift)
    OBVIOUS
  <2>12. NormalizeWidths(w) = f[1..drift]
    <3>1. ~(Len(w) <= 1)
      BY <1>0, <1>2
    <3>2. NormalizeWidths(w) =
            FoldLeft(LAMBDA o, k : Point(o, total < FullWidth), out, [k \in 1..drift |-> k])
      BY <1>0, <2>1, <2>3, <2>5, <2>7, <2>9, <3>1 DEF NormalizeWidths
    <3>3. DOMAIN [k \in 1..drift |-> k] = 1..drift
      OBVIOUS
    <3>4. FoldLeft(LAMBDA o, k : Point(o, total < FullWidth), out, [k \in 1..drift |-> k]) = f[1..drift]
      BY <2>7, <2>11, <3>3 DEF FoldLeft, MapThenFoldSet, Corrections, Corrected
    <3> QED BY <3>2, <3>4
  <2>13. /\ f[1..0] = out
         /\ \A k \in Nat : k < drift => f[1..(k + 1)] = Point(f[1..k], grow)
    <3>1. n \in Nat /\ out \in [1..n -> Nat] /\ grow \in BOOLEAN /\ drift \in Nat
      BY <1>0, <2>6, <2>8, <2>10
    <3>2. RoundsOf(f, out, grow, drift)
      BY <2>11, <3>1, CorrectionsOf
    <3> QED BY <3>2 DEF RoundsOf
  <2> DEFINE Good == {k \in Nat :
                        /\ f[1..k] \in [1..n -> Nat] /\ \A i \in 1..n : f[1..k][i] >= MinWidth
                        /\ SumFunctionOnSet(f[1..k], 1..n) = total + (IF total < FullWidth THEN k ELSE 0 - k)}
  <2>14. 0 \in Good
    <3>1. total + (IF total < FullWidth THEN 0 ELSE 0 - 0) = total
      BY <2>8
    <3> QED BY <2>6, <2>8, <2>13, <3>1
  <2>15. ASSUME NEW k \in Nat, k < drift, k \in Good PROVE k + 1 \in Good
    <3>1. PICK o : o = f[1..k]
      OBVIOUS
    <3>2. /\ o \in [1..n -> Nat] /\ \A i \in 1..n : o[i] >= MinWidth
          /\ SumFunctionOnSet(o, 1..n) = total + (IF total < FullWidth THEN k ELSE 0 - k)
      BY <2>15, <3>1
    <3>a. ~(total < FullWidth) => SumFunctionOnSet(o, 1..n) > FullWidth
      BY <2>8, <2>9, <2>15, <3>2, LayoutNumbers
    <3>3. grow \/ SumFunctionOnSet(o, 1..n) > FullWidth
      BY <2>8, <3>a, Zenon
    <3>4. /\ Point(o, grow) \in [1..n -> Nat]
          /\ \A i \in 1..n : Point(o, grow)[i] >= MinWidth
          /\ SumFunctionOnSet(Point(o, grow), 1..n)
               = SumFunctionOnSet(o, 1..n) + (IF grow THEN 1 ELSE 0 - 1)
      BY <2>8, <3>2, <3>3, PointOf
    <3>5. f[1..(k + 1)] = Point(o, grow)
      BY <2>13, <2>15, <3>1
    <3>6. SumFunctionOnSet(f[1..(k + 1)], 1..n) = total + (IF total < FullWidth THEN k + 1 ELSE 0 - (k + 1))
      <4>1. SumFunctionOnSet(f[1..(k + 1)], 1..n)
              = (total + (IF total < FullWidth THEN k ELSE 0 - k)) + (IF total < FullWidth THEN 1 ELSE 0 - 1)
        BY <2>8, <3>2, <3>4, <3>5, Zenon
      <4>2. (total + (IF total < FullWidth THEN k ELSE 0 - k)) + (IF total < FullWidth THEN 1 ELSE 0 - 1)
              = total + (IF total < FullWidth THEN k + 1 ELSE 0 - (k + 1))
        BY <2>8
      <4> QED BY <4>1, <4>2
    <3> QED BY <3>4, <3>5, <3>6
  <2>16. drift \in Good
    <3>1. \A k \in Nat : k < drift /\ k \in Good => k + 1 \in Good
      BY <2>15
    <3> HIDE DEF Good
    <3>2. \A k \in 0..drift : k \in Good
      BY <2>10, <2>14, <3>1, UpTo
    <3>3. drift \in 0..drift
      BY <2>10
    <3> QED BY <3>2, <3>3
  <2>17. total + (IF total < FullWidth THEN drift ELSE 0 - drift) = FullWidth
    BY <2>7, <2>8, <2>9, LayoutNumbers
  <2> QED BY <2>12, <2>16, <2>17
<1> QED BY <1>1, <1>2

-----------------------------------------------------------------------------
(* The blocks of the columns, in reading order. *)

Column == [width : Int, children : Seq(Children)]
ListsOf(c) == [i \in DOMAIN c |-> c[i].children]

Cat(x, y) == x \o y

\* The lists joined from the first on.
JoinedBy(f, s, n) ==
    /\ f \in [0..n -> Seq(Children)] /\ f[0] = <<>>
    /\ \A i \in 1..n : f[i] = Cat(f[i - 1], s[i])
Joinable(s, n) == \E f : JoinedBy(f, s, n)

LEMMA JoinedExists ==
    ASSUME NEW n \in Nat, NEW s \in [1..n -> Seq(Children)]
    PROVE  Joinable(s, n)
<1>1. PICK C : C = Seq(Children)
  OBVIOUS
<1>2. s \in [1..n -> C] /\ <<>> \in C /\ \A x, y \in C : Cat(x, y) \in C
  BY <1>1, ConcatProperties, EmptySeq DEF Cat
<1> DEFINE Run(f, m) == /\ f \in [0..m -> C] /\ f[0] = <<>>
                        /\ \A i \in 1..m : f[i] = Cat(f[i - 1], s[i])
           Good == {m \in 0..n : \E f : Run(f, m)}
<1>3. 0 \in Good
  <2>1. PICK f : f = [k \in 0..0 |-> <<>>]
    OBVIOUS
  <2>2. Run(f, 0)
    BY <1>2, <2>1
  <2> HIDE DEF Run
  <2> QED BY <2>2
<1>4. ASSUME NEW m \in Nat, m < n, m \in Good PROVE m + 1 \in Good
  <2>1. PICK f : Run(f, m)
    BY <1>4
  <2>2. PICK q : q = [k \in 0..(m + 1) |-> IF k = m + 1 THEN Cat(f[m], s[m + 1]) ELSE f[k]]
    OBVIOUS
  <2>3. \A k \in 0..m : q[k] = f[k] /\ f[k] \in C
    BY <2>1, <2>2
  <2>4. q[m + 1] = Cat(f[m], s[m + 1]) /\ Cat(f[m], s[m + 1]) \in C
    <3>1. s[m + 1] \in C
      BY <1>2, <1>4
    <3>2. f[m] \in C
      BY <2>3
    <3> QED BY <1>2, <2>2, <3>1, <3>2
  <2>5. q \in [0..(m + 1) -> C]
    <3>1. \A k \in 0..(m + 1) : k = m + 1 \/ k \in 0..m
      OBVIOUS
    <3>2. \A k \in 0..(m + 1) : q[k] \in C
      BY <2>3, <2>4, <3>1, Zenon
    <3> QED BY <2>2, <3>2
  <2>6. ASSUME NEW k \in 1..(m + 1) PROVE q[k] = Cat(q[k - 1], s[k])
    <3>1. CASE k = m + 1
      <4>1. k - 1 = m /\ m \in 0..m
        BY <3>1
      <4>2. q[k] = Cat(f[m], s[m + 1]) /\ q[m] = f[m]
        BY <2>3, <2>4, <3>1, <4>1
      <4> QED BY <3>1, <4>1, <4>2
    <3>2. CASE k # m + 1
      <4>1. k \in 1..m /\ k - 1 \in 0..m /\ k \in 0..m
        BY <3>2
      <4> QED BY <2>1, <2>3, <4>1
    <3> QED BY <3>1, <3>2
  <2>7. q[0] = <<>> /\ m + 1 \in 0..n
    BY <1>4, <2>1, <2>3
  <2>8. Run(q, m + 1)
    BY <2>5, <2>6, <2>7
  <2> HIDE DEF Run
  <2> QED BY <2>7, <2>8
<1>5. n \in Good
  <2> HIDE DEF Good
  <2>1. n \in 0..n
    OBVIOUS
  <2> QED BY <1>3, <1>4, <2>1, UpTo
<1> QED BY <1>1, <1>5 DEF Joinable, JoinedBy

\* Two of them that start with the same lists agree that far.
LEMMA JoinedAgree ==
    ASSUME NEW n \in Nat, NEW s, NEW f, JoinedBy(f, s, n),
           NEW m \in Nat, NEW t, NEW g, JoinedBy(g, t, m),
           NEW k \in Nat, k <= n, k <= m, \A i \in 1..k : s[i] = t[i]
    PROVE  f[k] = g[k]
<1> DEFINE Good == {i \in Nat : f[i] = g[i]}
<1>1. 0 \in Good
  BY DEF JoinedBy
<1>2. ASSUME NEW i \in Nat, i < k, i \in Good PROVE i + 1 \in Good
  <2>1. i + 1 \in 1..n /\ i + 1 \in 1..m /\ i + 1 \in 1..k /\ (i + 1) - 1 = i
    BY <1>2
  <2>2. f[i + 1] = Cat(f[i], s[i + 1]) /\ g[i + 1] = Cat(g[i], t[i + 1]) /\ s[i + 1] = t[i + 1]
    BY <2>1 DEF JoinedBy
  <2> QED BY <1>2, <2>2
<1>3. k \in 0..k
  OBVIOUS
<1> HIDE DEF Good
<1>4. k \in Good
  BY <1>1, <1>2, <1>3, UpTo
<1> QED BY <1>4 DEF Good

IsRead(c, n) == \E f : JoinedBy(f, ListsOf(c), n) /\ ReadingOrder(c) = f[n]

LEMMA ReadingOf ==
    ASSUME NEW n \in Nat, n >= 1, NEW c \in [1..n -> Column]
    PROVE  IsRead(c, n)
<1>1. PICK s : s = ListsOf(c)
  OBVIOUS
<1>2. s = [i \in 1..n |-> c[i].children]
  BY <1>1 DEF ListsOf
<1>3. s \in [1..n -> Seq(Children)]
  BY <1>2 DEF Column
<1>4. PICK f : JoinedBy(f, s, n)
  BY <1>3, JoinedExists DEF Joinable
<1>5. PICK h : h = [i \in 1..n |-> f[i]]
  OBVIOUS
<1>6. Len(s) = n
  BY <1>3, LengthOf
<1>7. ASSUME NEW i \in 1..n PROVE h[i] = IF i = 1 THEN s[i] ELSE Cat(h[i - 1], s[i])
  <2>1. f[i] = Cat(f[i - 1], s[i]) /\ f[0] = <<>> /\ s[i] \in Seq(Children) /\ h[i] = f[i]
    BY <1>3, <1>4, <1>5 DEF JoinedBy
  <2>2. CASE i = 1
    <3>1. Cat(<<>>, s[i]) = s[i]
      BY <2>1, ConcatEmptySeq DEF Cat
    <3>2. i - 1 = 0
      BY <2>2
    <3> QED BY <2>1, <2>2, <3>1, <3>2
  <2>3. CASE i # 1
    <3>1. i - 1 \in 1..n
      BY <2>3
    <3> QED BY <1>5, <2>1, <2>3, <3>1
  <2> QED BY <2>2, <2>3
<1>8. h = [i \in 1..n |-> IF i = 1 THEN s[i] ELSE Cat(h[i - 1], s[i])]
  <2>1. h = [i \in 1..n |-> h[i]]
    BY <1>5
  <2> QED BY <1>7, <2>1
<1>9. PICK g : g = CHOOSE x : x = [i \in 1..n |-> IF i = 1 THEN s[i] ELSE Cat(x[i - 1], s[i])]
  OBVIOUS
<1>10. g = [i \in 1..n |-> IF i = 1 THEN s[i] ELSE Cat(g[i - 1], s[i])]
  BY <1>8, <1>9
<1>11. \A i \in 1..n : g[i] = IF i = 1 THEN s[i] ELSE Cat(g[i - 1], s[i])
  BY <1>10
<1> DEFINE Good == {i \in Nat : i >= 1 => g[i] = h[i]}
<1>12. 0 \in Good
  OBVIOUS
<1>13. ASSUME NEW i \in Nat, i < n, i \in Good PROVE i + 1 \in Good
  <2>1. i + 1 \in 1..n /\ (i + 1) - 1 = i
    BY <1>13
  <2>2. CASE i = 0
    <3>1. g[1] = s[1] /\ h[1] = s[1]
      BY <1>7, <1>11, <2>1, <2>2
    <3> QED BY <2>2, <3>1
  <2>3. CASE i # 0
    <3>1. i + 1 # 1 /\ g[i] = h[i]
      BY <1>13, <2>3
    <3>2. g[i + 1] = Cat(g[i], s[i + 1]) /\ h[i + 1] = Cat(h[i], s[i + 1])
      BY <1>7, <1>11, <2>1, <3>1
    <3> QED BY <3>1, <3>2
  <2> QED BY <2>2, <2>3
<1>14. n \in Good
  <2>1. n \in 0..n
    OBVIOUS
  <2> HIDE DEF Good
  <2> QED BY <1>12, <1>13, <2>1, UpTo
<1>15. ReadingOrder(c) = g[n]
  <2>1. ReadingOrder(c) = FlattenSeq(s)
    BY <1>1 DEF ReadingOrder, ListsOf
  <2>2. ~(Len(s) = 0)
    BY <1>6
  <2>3. FlattenSeq(s) = g[n]
    BY <1>6, <1>9, <2>2 DEF FlattenSeq, Cat
  <2> QED BY <2>1, <2>3
<1>16. g[n] = f[n]
  BY <1>5, <1>14
<1> QED BY <1>1, <1>4, <1>15, <1>16 DEF IsRead

\* Where the entries of the lists come in the joined list.
FoundIn(f, s, m) ==
    /\ \A i \in 1..m : \A k \in 1..Len(s[i]) :
          /\ Len(f[i - 1]) + k \in 1..Len(f[m])
          /\ f[m][Len(f[i - 1]) + k] = s[i][k]
    /\ \A p \in 1..Len(f[m]) : \E i \in 1..m : \E k \in 1..Len(s[i]) : p = Len(f[i - 1]) + k

LEMMA JoinedLengths ==
    ASSUME NEW n \in Nat, NEW s, NEW f, JoinedBy(f, s, n), NEW i \in 0..n
    PROVE  f[i] \in Seq(Children) /\ Len(f[i]) \in Nat
<1>1. f[i] \in Seq(Children)
  BY DEF JoinedBy
<1> QED BY <1>1, LenProperties

\* How one more list is joined: named, to be expanded where it is used.
JoinsOne(f, s, i) ==
    /\ f[i - 1] \in Seq(Children) /\ s[i] \in Seq(Children)
    /\ Len(f[i]) = Len(f[i - 1]) + Len(s[i])
    /\ Len(f[i - 1]) \in Nat /\ Len(s[i]) \in Nat
    /\ \A p \in 1..(Len(f[i - 1]) + Len(s[i])) :
          f[i][p] = IF p <= Len(f[i - 1]) THEN f[i - 1][p] ELSE s[i][p - Len(f[i - 1])]

LEMMA JoinedStep ==
    ASSUME NEW n \in Nat, NEW s \in [1..n -> Seq(Children)], NEW f, JoinedBy(f, s, n),
           NEW i \in 1..n
    PROVE  JoinsOne(f, s, i)
<1>1. i \in 1..n /\ i - 1 \in 0..n
  OBVIOUS
<1>2. PICK a, b : a = f[i - 1] /\ b = s[i]
  OBVIOUS
<1>3. a \in Seq(Children) /\ b \in Seq(Children) /\ f[i] = Cat(a, b)
  BY <1>1, <1>2 DEF JoinedBy
<1>4. /\ Len(a \o b) = Len(a) + Len(b) /\ Len(a) \in Nat /\ Len(b) \in Nat
      /\ \A p \in 1..(Len(a) + Len(b)) : (a \o b)[p] = IF p <= Len(a) THEN a[p] ELSE b[p - Len(a)]
  BY <1>3, ConcatProperties, LenProperties
<1>5. /\ Len(f[i]) = Len(a) + Len(b) /\ Len(a) \in Nat /\ Len(b) \in Nat
      /\ \A p \in 1..(Len(a) + Len(b)) : f[i][p] = IF p <= Len(a) THEN a[p] ELSE b[p - Len(a)]
  BY <1>3, <1>4 DEF Cat
<1> QED BY <1>2, <1>3, <1>5 DEF JoinsOne

LEMMA JoinedFinds ==
    ASSUME NEW n \in Nat, NEW s \in [1..n -> Seq(Children)], NEW f, JoinedBy(f, s, n)
    PROVE  \A m \in 0..n : FoundIn(f, s, m)
<1> DEFINE Good == {m \in Nat : FoundIn(f, s, m)}
<1>1. 0 \in Good
  <2>1. Len(f[0]) = 0
    BY EmptySeq DEF JoinedBy
  <2> QED BY <2>1 DEF FoundIn
<1>2. ASSUME NEW m \in Nat, m < n, m \in Good PROVE m + 1 \in Good
  <2>1. PICK a, b, c : a = f[m] /\ b = s[m + 1] /\ c = f[m + 1]
    OBVIOUS
  <2>2. m + 1 \in 0..n /\ m + 1 > 0 /\ (m + 1) - 1 = m
    BY <1>2
  <2>3. /\ Len(a) \in Nat /\ Len(b) \in Nat /\ Len(c) = Len(a) + Len(b)
        /\ \A p \in 1..(Len(a) + Len(b)) : c[p] = IF p <= Len(a) THEN a[p] ELSE b[p - Len(a)]
    <3>1. JoinsOne(f, s, m + 1)
      BY <1>2, JoinedStep
    <3> QED BY <2>1, <2>2, <3>1 DEF JoinsOne
  <2>4. /\ \A i \in 1..m : \A k \in 1..Len(s[i]) :
              Len(f[i - 1]) + k \in 1..Len(a) /\ a[Len(f[i - 1]) + k] = s[i][k]
        /\ \A p \in 1..Len(a) : \E i \in 1..m : \E k \in 1..Len(s[i]) : p = Len(f[i - 1]) + k
    BY <1>2, <2>1 DEF FoundIn
  <2>5. ASSUME NEW i \in 1..(m + 1), NEW k \in 1..Len(s[i])
        PROVE  Len(f[i - 1]) + k \in 1..Len(c) /\ c[Len(f[i - 1]) + k] = s[i][k]
    <3>1. CASE i = m + 1
      <4>1. i - 1 = m /\ s[i] = b /\ f[i - 1] = a /\ k \in 1..Len(b)
        BY <2>1, <2>2, <2>5, <3>1
      <4>2. Len(a) + k \in 1..(Len(a) + Len(b)) /\ ~(Len(a) + k <= Len(a)) /\ Len(a) + k - Len(a) = k
        BY <2>3, <4>1
      <4> QED BY <2>3, <4>1, <4>2
    <3>2. CASE i # m + 1
      <4>1. i \in 1..m
        BY <3>2
      <4>2. PICK p : p = Len(f[i - 1]) + k
        OBVIOUS
      <4>3. p \in 1..Len(a) /\ a[p] = s[i][k]
        BY <2>4, <2>5, <4>1, <4>2
      <4>4. p \in 1..(Len(a) + Len(b)) /\ p <= Len(a)
        BY <2>3, <4>3
      <4> QED BY <2>3, <4>2, <4>3, <4>4
    <3> QED BY <3>1, <3>2
  <2>6. ASSUME NEW p \in 1..Len(c)
        PROVE  \E i \in 1..(m + 1) : \E k \in 1..Len(s[i]) : p = Len(f[i - 1]) + k
    <3>1. CASE p <= Len(a)
      <4>1. p \in 1..Len(a)
        BY <2>3, <2>6, <3>1
      <4>2. PICK i \in 1..m : \E k \in 1..Len(s[i]) : p = Len(f[i - 1]) + k
        BY <2>4, <4>1
      <4>3. i \in 1..(m + 1)
        OBVIOUS
      <4> QED BY <4>2, <4>3
    <3>2. CASE ~(p <= Len(a))
      <4>1. p - Len(a) \in 1..Len(b) /\ p = Len(a) + (p - Len(a)) /\ m + 1 \in 1..(m + 1)
        BY <2>3, <2>6, <3>2
      <4> QED BY <2>1, <2>2, <4>1
    <3> QED BY <3>1, <3>2
  <2> QED BY <2>1, <2>5, <2>6 DEF FoundIn
<1> HIDE DEF Good
<1>3. \A m \in 0..n : m \in Good
  BY <1>1, <1>2, UpTo
<1> QED BY <1>3 DEF Good

\* Every block is at one place of one list, and at one place of the whole.
Placed(s, n) ==
    /\ \A i, j \in 1..n : \A k \in 1..Len(s[i]) : \A l \in 1..Len(s[j]) :
          s[i][k] = s[j][l] => i = j /\ k = l
    /\ \A b \in Children : \E i \in 1..n : \E k \in 1..Len(s[i]) : s[i][k] = b

Listed(r) ==
    /\ r \in Seq(Children)
    /\ \A p, q \in 1..Len(r) : r[p] = r[q] => p = q
    /\ \A b \in Children : \E p \in 1..Len(r) : r[p] = b

LEMMA PlacedIffListed ==
    ASSUME NEW n \in Nat, NEW s \in [1..n -> Seq(Children)], NEW f, JoinedBy(f, s, n)
    PROVE  Placed(s, n) <=> Listed(f[n])
<1>1. PICK r : r = f[n]
  OBVIOUS
<1>2. n \in 0..n
  OBVIOUS
<1>3. /\ \A i \in 1..n : \A k \in 1..Len(s[i]) :
            Len(f[i - 1]) + k \in 1..Len(r) /\ r[Len(f[i - 1]) + k] = s[i][k]
      /\ \A p \in 1..Len(r) : \E i \in 1..n : \E k \in 1..Len(s[i]) : p = Len(f[i - 1]) + k
  <2>1. FoundIn(f, s, n)
    BY <1>2, JoinedFinds
  <2> QED BY <1>1, <2>1 DEF FoundIn
<1>4. r \in Seq(Children)
  BY <1>1, <1>2, JoinedLengths
<1>5. \A i \in 1..n : Len(f[i - 1]) \in Nat /\ i \in Nat /\ Len(s[i]) \in Nat
  BY JoinedStep DEF JoinsOne
<1>6. \A i, j \in 1..n : \A k \in 1..Len(s[i]) : \A l \in 1..Len(s[j]) :
         i < j => Len(f[i - 1]) + k < Len(f[j - 1]) + l
  <2> SUFFICES ASSUME NEW i \in 1..n, NEW j \in 1..n, NEW k \in 1..Len(s[i]),
                      NEW l \in 1..Len(s[j]), i < j
               PROVE  Len(f[i - 1]) + k < Len(f[j - 1]) + l
    OBVIOUS
  <2>1. PICK m : m = j - 1
    OBVIOUS
  <2>2. m \in 0..n /\ i \in 1..m
    BY <2>1
  <2>3. FoundIn(f, s, m)
    BY <2>2, JoinedFinds
  <2>4. Len(f[i - 1]) + k \in 1..Len(f[m])
    BY <2>2, <2>3 DEF FoundIn
  <2> QED BY <1>5, <2>1, <2>4
<1>7. ASSUME NEW i \in 1..n, NEW j \in 1..n, NEW k \in 1..Len(s[i]), NEW l \in 1..Len(s[j]),
             Len(f[i - 1]) + k = Len(f[j - 1]) + l
      PROVE  i = j /\ k = l
  <2>1. ~(i < j) /\ ~(j < i)
    BY <1>5, <1>6, <1>7
  <2>2. i = j
    BY <2>1
  <2>3. f[i - 1] = f[j - 1]
    BY <2>2
  <2> QED BY <1>5, <1>7, <2>2, <2>3
<1>8. ASSUME Placed(s, n) PROVE Listed(r)
  <2>1. ASSUME NEW p \in 1..Len(r), NEW q \in 1..Len(r), r[p] = r[q] PROVE p = q
    <3>1a. PICK i \in 1..n : \E k \in 1..Len(s[i]) : p = Len(f[i - 1]) + k
      BY <1>3
    <3>1. PICK k \in 1..Len(s[i]) : p = Len(f[i - 1]) + k
      BY <3>1a
    <3>2a. PICK j \in 1..n : \E l \in 1..Len(s[j]) : q = Len(f[j - 1]) + l
      BY <1>3
    <3>2. PICK l \in 1..Len(s[j]) : q = Len(f[j - 1]) + l
      BY <3>2a
    <3>3. s[i][k] = s[j][l]
      BY <1>3, <2>1, <3>1, <3>2
    <3>4. i = j /\ k = l
      BY <1>8, <3>3 DEF Placed
    <3>5. f[i - 1] = f[j - 1]
      BY <3>4
    <3> QED BY <3>1, <3>2, <3>4, <3>5
  <2>2. ASSUME NEW b \in Children PROVE \E p \in 1..Len(r) : r[p] = b
    <3>1a. PICK i \in 1..n : \E k \in 1..Len(s[i]) : s[i][k] = b
      BY <1>8 DEF Placed
    <3>1. PICK k \in 1..Len(s[i]) : s[i][k] = b
      BY <3>1a
    <3> QED BY <1>3, <3>1
  <2> QED BY <1>4, <2>1, <2>2 DEF Listed
<1>9. ASSUME Listed(r) PROVE Placed(s, n)
  <2>1. ASSUME NEW i \in 1..n, NEW j \in 1..n, NEW k \in 1..Len(s[i]), NEW l \in 1..Len(s[j]),
               s[i][k] = s[j][l]
        PROVE  i = j /\ k = l
    <3>1. PICK p, q : p = Len(f[i - 1]) + k /\ q = Len(f[j - 1]) + l
      OBVIOUS
    <3>2. p \in 1..Len(r) /\ q \in 1..Len(r) /\ r[p] = r[q]
      BY <1>3, <2>1, <3>1
    <3>3. p = q
      BY <1>9, <3>2 DEF Listed
    <3> QED BY <1>7, <3>1, <3>3
  <2>2. ASSUME NEW b \in Children PROVE \E i \in 1..n : \E k \in 1..Len(s[i]) : s[i][k] = b
    <3>1. PICK p \in 1..Len(r) : r[p] = b
      BY <1>9 DEF Listed
    <3>2a. PICK i \in 1..n : \E k \in 1..Len(s[i]) : p = Len(f[i - 1]) + k
      BY <1>3
    <3>2. PICK k \in 1..Len(s[i]) : p = Len(f[i - 1]) + k
      BY <3>2a
    <3> QED BY <1>3, <3>1, <3>2
  <2> QED BY <2>1, <2>2 DEF Placed
<1> QED BY <1>1, <1>8, <1>9

LEMMA ListedCounts ==
    ASSUME NEW r, Listed(r)
    PROVE  Len(r) = Cardinality(Children) /\ ToSet(r) = Children
<1>1. /\ r \in Seq(Children) /\ Len(r) \in Nat /\ DOMAIN r = 1..Len(r)
      /\ r \in [1..Len(r) -> Children]
  BY LenProperties DEF Listed
<1>2. r \in Bijection(1..Len(r), Children)
  BY <1>1 DEF Listed, Bijection, Injection, Surjection, IsInjective
<1>3. Cardinality(1..Len(r)) = Len(r) /\ IsFiniteSet(1..Len(r))
  BY <1>1, LayoutNumbers
<1>4. Cardinality(1..Len(r)) = Cardinality(Children)
  BY <1>2, <1>3, FS_Bijection DEF ExistsBijection
<1>5. ToSet(r) = Children
  BY <1>1 DEF Listed, ToSet
<1> QED BY <1>3, <1>4, <1>5

-----------------------------------------------------------------------------
(* What the operations on columns keep. *)

LEMMA WidthsAndLists ==
    ASSUME NEW n \in Nat, NEW c \in [1..n -> Column]
    PROVE  /\ WidthsOf(c) \in [1..n -> Int] /\ ListsOf(c) \in [1..n -> Seq(Children)]
           /\ \A i \in 1..n : WidthsOf(c)[i] = c[i].width /\ ListsOf(c)[i] = c[i].children
           /\ Len(c) = n /\ DOMAIN c = 1..n
<1>1. DOMAIN c = 1..n /\ \A i \in 1..n : c[i].width \in Int /\ c[i].children \in Seq(Children)
  BY DEF Column
<1>2. Len(c) = n
  BY LengthOf
<1> QED BY <1>1, <1>2 DEF WidthsOf, ListsOf

LEMMA SameListsRead ==
    ASSUME NEW c, NEW d, ListsOf(c) = ListsOf(d)
    PROVE  ReadingOrder(c) = ReadingOrder(d)
BY DEF ListsOf, ReadingOrder

LEMMA WithWidthsKeeps ==
    ASSUME NEW n \in Nat, NEW c \in [1..n -> Column], NEW w \in [1..n -> Int]
    PROVE  /\ WithWidths(c, w) \in [1..n -> Column] /\ WidthsOf(WithWidths(c, w)) = w
           /\ ReadingOrder(WithWidths(c, w)) = ReadingOrder(c)
<1>1. PICK d : d = WithWidths(c, w)
  OBVIOUS
<1>2. DOMAIN c = 1..n /\ \A i \in 1..n : c[i] \in Column /\ w[i] \in Int
  OBVIOUS
<1>3. d = [i \in 1..n |-> [c[i] EXCEPT !.width = w[i]]]
  BY <1>1, <1>2 DEF WithWidths
<1>4. \A i \in 1..n : /\ d[i] \in Column
                      /\ d[i].width = w[i] /\ d[i].children = c[i].children
  BY <1>2, <1>3 DEF Column
<1>5. d \in [1..n -> Column] /\ DOMAIN d = 1..n
  BY <1>3, <1>4
<1>6. ListsOf(d) = ListsOf(c)
  BY <1>2, <1>4, <1>5 DEF ListsOf
<1>7. WidthsOf(d) = w
  BY <1>4, <1>5 DEF WidthsOf
<1>8. ReadingOrder(d) = ReadingOrder(c)
  BY <1>6, SameListsRead
<1> QED BY <1>1, <1>5, <1>7, <1>8

LEMMA CatProperties ==
    ASSUME NEW x \in Seq(Children), NEW y \in Seq(Children), NEW z \in Seq(Children)
    PROVE  /\ Cat(x, y) \in Seq(Children) /\ Cat(Cat(x, y), z) = Cat(x, Cat(y, z))
           /\ Cat(x, <<>>) = x
BY ConcatProperties, ConcatAssociative, ConcatEmptySeq DEF Cat

\* Two columns in one: one column less, read the same.
LEMMA JoinKeeps ==
    ASSUME NEW n \in Nat, n >= 2, NEW c \in [1..n -> Column], NEW l \in 1..(n - 1)
    PROVE  /\ Join(c, l) \in [1..(n - 1) -> Column]
           /\ ReadingOrder(Join(c, l)) = ReadingOrder(c)
<1>0. /\ n - 1 \in Nat /\ n - 1 >= 1 /\ Len(c) = n /\ l \in 1..n /\ l + 1 \in 1..n /\ l \in Nat
      /\ \A i \in 1..n : c[i] \in Column
  BY WidthsAndLists
<1>1. PICK both : both = [width |-> c[l].width + c[l + 1].width,
                          children |-> Cat(c[l].children, c[l + 1].children)]
  OBVIOUS
<1>2. both \in Column /\ both.children = Cat(c[l].children, c[l + 1].children)
  <2>1. c[l] \in Column /\ c[l + 1] \in Column
    BY <1>0
  <2>2. Cat(c[l].children, c[l + 1].children) \in Seq(Children)
    BY <2>1, CatProperties DEF Column
  <2>3. c[l].width + c[l + 1].width \in Int
    BY <2>1 DEF Column
  <2> QED BY <1>1, <2>2, <2>3 DEF Column
<1>3. PICK d : d = Join(c, l)
  OBVIOUS
<1>4. d = [j \in 1..(n - 1) |-> IF j < l THEN c[j] ELSE IF j > l THEN c[j + 1] ELSE both]
  BY <1>0, <1>1, <1>3 DEF Join, Cat
<1>5. \A j \in 1..(n - 1) : /\ j < l => d[j] = c[j] /\ c[j] \in Column
                            /\ j > l => d[j] = c[j + 1] /\ c[j + 1] \in Column
                            /\ j = l => d[j] = both
  BY <1>0, <1>4
<1>6. \A j \in 1..(n - 1) : j < l \/ j > l \/ j = l
  BY <1>0
<1>7. \A j \in 1..(n - 1) : d[j] \in Column
  BY <1>2, <1>5, <1>6, Zenon
<1>8. d \in [1..(n - 1) -> Column]
  BY <1>4, <1>7
<1>9. PICK s, t : s = ListsOf(c) /\ t = ListsOf(d)
  OBVIOUS
<1>10. /\ s \in [1..n -> Seq(Children)] /\ \A i \in 1..n : s[i] = c[i].children
       /\ t \in [1..(n - 1) -> Seq(Children)] /\ \A i \in 1..(n - 1) : t[i] = d[i].children
  BY <1>0, <1>8, <1>9, WidthsAndLists
<1>11. PICK f : JoinedBy(f, s, n) /\ ReadingOrder(c) = f[n]
  BY <1>0, <1>9, ReadingOf DEF IsRead
<1>12. PICK g : JoinedBy(g, t, n - 1) /\ ReadingOrder(d) = g[n - 1]
  BY <1>0, <1>8, <1>9, ReadingOf DEF IsRead
<1>13. f[l - 1] = g[l - 1]
  <2>1. PICK k : k = l - 1
    OBVIOUS
  <2>2. k \in Nat /\ k <= n /\ k <= n - 1
    BY <1>0, <2>1
  <2>3. ASSUME NEW i \in 1..k PROVE s[i] = t[i]
    <3>1. i < l /\ i \in 1..n /\ i \in 1..(n - 1)
      BY <1>0, <2>1
    <3> QED BY <1>5, <1>10, <3>1
  <2>4. f[k] = g[k]
    BY <1>0, <1>11, <1>12, <2>2, <2>3, JoinedAgree
  <2> QED BY <2>1, <2>4
<1>14. g[l] = f[l + 1]
  <2>1. s[l] \in Seq(Children) /\ s[l + 1] \in Seq(Children) /\ f[l - 1] \in Seq(Children)
    <3>1. l - 1 \in 0..n
      BY <1>0
    <3> QED BY <1>0, <1>10, <1>11, <3>1, JoinedLengths
  <2>2. t[l] = Cat(s[l], s[l + 1])
    <3>1. d[l] = both
      BY <1>5
    <3> QED BY <1>0, <1>2, <1>10, <3>1
  <2>3. g[l] = Cat(g[l - 1], t[l])
    BY <1>12 DEF JoinedBy
  <2>4. f[l] = Cat(f[l - 1], s[l])
    BY <1>0, <1>11 DEF JoinedBy
  <2>5. f[l + 1] = Cat(f[l], s[l + 1])
    <3>1. (l + 1) - 1 = l
      BY <1>0
    <3>2. f[l + 1] = Cat(f[(l + 1) - 1], s[l + 1])
      BY <1>0, <1>11 DEF JoinedBy
    <3> QED BY <3>1, <3>2
  <2>6. Cat(Cat(f[l - 1], s[l]), s[l + 1]) = Cat(f[l - 1], Cat(s[l], s[l + 1]))
    <3>1. PICK x, y, z : x = f[l - 1] /\ y = s[l] /\ z = s[l + 1]
      OBVIOUS
    <3>2. x \in Seq(Children) /\ y \in Seq(Children) /\ z \in Seq(Children)
      BY <2>1, <3>1
    <3>3. Cat(Cat(x, y), z) = Cat(x, Cat(y, z))
      BY <3>2, CatProperties
    <3> QED BY <3>1, <3>3
  <2> QED BY <1>13, <2>2, <2>3, <2>4, <2>5, <2>6
<1> DEFINE Good == {k \in Nat : g[l + k] = f[l + k + 1]}
<1>15. 0 \in Good
  <2>1. l + 0 = l /\ l + 0 + 1 = l + 1
    BY <1>0
  <2> QED BY <1>14, <2>1
<1>16. ASSUME NEW k \in Nat, k < n - 1 - l, k \in Good PROVE k + 1 \in Good
  <2>1. PICK j : j = l + (k + 1)
    OBVIOUS
  <2>2. /\ j \in 1..(n - 1) /\ j > l /\ j \in 1..n /\ j + 1 \in 1..n
        /\ j - 1 = l + k /\ (j + 1) - 1 = j /\ j = l + k + 1
    BY <1>0, <1>16, <2>1
  <2>3. t[j] = s[j + 1]
    <3>1. d[j] = c[j + 1]
      BY <1>5, <2>2
    <3> QED BY <1>10, <2>2, <3>1
  <2>4. g[j] = Cat(g[j - 1], t[j])
    BY <1>12, <2>2 DEF JoinedBy
  <2>5. f[j + 1] = Cat(f[j], s[j + 1])
    <3>1. f[j + 1] = Cat(f[(j + 1) - 1], s[j + 1])
      BY <1>11, <2>2 DEF JoinedBy
    <3> QED BY <2>2, <3>1
  <2>6. g[j - 1] = f[j]
    BY <1>16, <2>2
  <2> QED BY <1>16, <2>1, <2>3, <2>4, <2>5, <2>6
<1>17. g[n - 1] = f[n]
  <2>1. PICK m : m = n - 1 - l
    OBVIOUS
  <2>2. m \in Nat /\ m \in 0..m /\ l + m = n - 1 /\ l + m + 1 = n
    BY <1>0, <2>1
  <2>3. \A k \in Nat : k < m /\ k \in Good => k + 1 \in Good
    BY <1>16, <2>1
  <2> HIDE DEF Good
  <2>4. m \in Good
    BY <1>15, <2>2, <2>3, UpTo
  <2>5. g[l + m] = f[l + m + 1]
    BY <2>4 DEF Good
  <2> QED BY <2>2, <2>5
<1> QED BY <1>3, <1>8, <1>11, <1>12, <1>17

\* The fold that joins the last column to the one before it, round by round.
FoldRound(f, c, S) == IF S = {} THEN c ELSE Join(f[S \ {Max(S)}], Len(f[S \ {Max(S)}]) - 1)
FoldRounds(c, m) == CHOOSE f : f = [S \in SUBSET (1..m) |-> FoldRound(f, c, S)]
JoinsRound(f, c, m) ==
    /\ f[1..0] = c
    /\ \A k \in Nat : k < m => f[1..(k + 1)] = Join(f[1..k], Len(f[1..k]) - 1)

LEMMA JoinOfColumns ==
    ASSUME NEW c \in Seq(Column)
    PROVE  Join(c, Len(c) - 1) \in Seq(Column)
<1>1. PICK n : n = Len(c)
  OBVIOUS
<1>2. n \in Nat /\ c \in [1..n -> Column]
  BY <1>1, LenProperties
<1>3. CASE n >= 2
  <2>1. n - 1 \in 1..(n - 1)
    BY <1>2, <1>3
  <2>2. Join(c, n - 1) \in [1..(n - 1) -> Column] /\ n - 1 \in Nat
    BY <1>2, <1>3, <2>1, JoinKeeps
  <2> QED BY <1>1, <2>2, LengthOf
<1>4. CASE ~(n >= 2)
  <2>1. PICK d : d = Join(c, n - 1)
    OBVIOUS
  <2>2. 1..(Len(c) - 1) = {}
    BY <1>1, <1>2, <1>4
  <2>3. DOMAIN d = {} /\ d = [j \in DOMAIN d |-> d[j]]
    BY <1>1, <2>1, <2>2 DEF Join
  <2>4. d \in [1..0 -> Column] /\ 0 \in Nat
    BY <2>3
  <2> QED BY <1>1, <2>1, <2>4, LengthOf
<1> QED BY <1>3, <1>4

LEMMA FoldRoundsOf ==
    ASSUME NEW c \in Seq(Column), NEW m \in Nat
    PROVE  JoinsRound(FoldRounds(c, m), c, m)
<1>0. PICK U : U = Seq(Column)
  OBVIOUS
<1>1. PICK step : step = [d \in U |-> Join(d, Len(d) - 1)]
  OBVIOUS
<1>2. step \in [U -> U] /\ c \in U
  BY <1>0, <1>1, JoinOfColumns
<1>3. PICK g \in [SUBSET (1..m) -> U] :
             \A S \in SUBSET (1..m) : g[S] = IF S = {} THEN c ELSE step[g[S \ {Max(S)}]]
  <2>1. FoldedBy(U, c, step, m)
    BY <1>2, FoldExists
  <2> QED BY <2>1 DEF FoldedBy
<1>4. ASSUME NEW S \in SUBSET (1..m) PROVE g[S] = FoldRound(g, c, S)
  <2>1. g[S] = IF S = {} THEN c ELSE step[g[S \ {Max(S)}]]
    BY <1>3
  <2>2. S \ {Max(S)} \in SUBSET (1..m)
    OBVIOUS
  <2>3. g[S \ {Max(S)}] \in U
    BY <1>3, <2>2
  <2>4. step[g[S \ {Max(S)}]] = Join(g[S \ {Max(S)}], Len(g[S \ {Max(S)}]) - 1)
    BY <1>1, <2>3
  <2> QED BY <2>1, <2>4 DEF FoldRound
<1>5. g = [S \in SUBSET (1..m) |-> FoldRound(g, c, S)]
  <2>1. g = [S \in SUBSET (1..m) |-> g[S]]
    BY <1>3
  <2> QED BY <1>4, <2>1
<1>6. PICK f : f = FoldRounds(c, m)
  OBVIOUS
<1>7. f = [S \in SUBSET (1..m) |-> FoldRound(f, c, S)]
  BY <1>5, <1>6 DEF FoldRounds
<1>8. \A S \in SUBSET (1..m) : f[S] = FoldRound(f, c, S)
  BY <1>7
<1>9. f[1..0] = c
  <2>1. 1..0 \in SUBSET (1..m) /\ 1..0 = {}
    OBVIOUS
  <2>2. f[1..0] = FoldRound(f, c, 1..0)
    BY <1>8, <2>1
  <2> QED BY <2>1, <2>2 DEF FoldRound
<1>10. ASSUME NEW k \in Nat, k < m PROVE f[1..(k + 1)] = Join(f[1..k], Len(f[1..k]) - 1)
  <2>1. PICK S : S = 1..(k + 1)
    OBVIOUS
  <2>2. S \in SUBSET (1..m)
    BY <1>10, <2>1
  <2>3. S # {} /\ Max(S) = k + 1 /\ S \ {k + 1} = 1..k
    BY <2>1, TopOfInterval
  <2>4. f[S] = FoldRound(f, c, S)
    BY <1>8, <2>2
  <2> QED BY <2>1, <2>3, <2>4 DEF FoldRound
<1> QED BY <1>6, <1>9, <1>10 DEF JoinsRound

\* Columns above the count are joined to the ones before: none is lost, and they are
\* read the same.
LEMMA FoldedKeeps ==
    ASSUME NEW n \in Nat, NEW c \in [1..n -> Column], NEW count \in Nat, count >= 1
    PROVE  /\ Folded(c, count) \in [1..(IF count < n THEN count ELSE n) -> Column]
           /\ ReadingOrder(Folded(c, count)) = ReadingOrder(c)
<1>1. Len(c) = n /\ c \in Seq(Column)
  BY LengthOf
<1>2. CASE ~(count < n)
  <2>1. 1..(n - count) = 1..0 /\ 1..0 \in SUBSET (1..0)
    BY <1>2
  <2>2. PICK f : f = FoldRounds(c, 0)
    OBVIOUS
  <2>3. f[1..0] = c
    BY <1>1, <2>2, FoldRoundsOf DEF JoinsRound
  <2>4. DOMAIN [k \in 1..(Len(c) - count) |-> k] = 1..0
    BY <1>1, <2>1
  <2>5. Folded(c, count) = f[1..0]
    BY <2>2, <2>4 DEF Folded, FoldLeft, MapThenFoldSet, FoldRounds, FoldRound
  <2> QED BY <1>2, <2>3, <2>5
<1>3. CASE count < n
  <2>1. PICK m : m = n - count
    OBVIOUS
  <2>2. m \in Nat /\ m < n /\ n - m = count
    BY <1>3, <2>1
  <2>3. PICK f : f = FoldRounds(c, m)
    OBVIOUS
  <2>4. f[1..0] = c /\ \A k \in Nat : k < m => f[1..(k + 1)] = Join(f[1..k], Len(f[1..k]) - 1)
    BY <1>1, <2>2, <2>3, FoldRoundsOf DEF JoinsRound
  <2>5. DOMAIN [k \in 1..(Len(c) - count) |-> k] = 1..m
    BY <1>1, <2>1
  <2>6. Folded(c, count) = f[1..m]
    BY <2>3, <2>5 DEF Folded, FoldLeft, MapThenFoldSet, FoldRounds, FoldRound
  <2> DEFINE Good == {k \in Nat : /\ f[1..k] \in [1..(n - k) -> Column]
                                  /\ ReadingOrder(f[1..k]) = ReadingOrder(c)}
  <2>7. 0 \in Good
    <3>1. n - 0 = n
      OBVIOUS
    <3> QED BY <2>4, <3>1
  <2>8. ASSUME NEW k \in Nat, k < m, k \in Good PROVE k + 1 \in Good
    <3>1. PICK d, j : d = f[1..k] /\ j = n - k
      OBVIOUS
    <3>2. j \in Nat /\ j >= 2 /\ j - 1 \in 1..(j - 1) /\ n - (k + 1) = j - 1
      BY <2>2, <2>8, <3>1
    <3>3. d \in [1..j -> Column] /\ ReadingOrder(d) = ReadingOrder(c)
      BY <2>8, <3>1
    <3>4. Len(d) = j
      BY <3>2, <3>3, LengthOf
    <3>5. f[1..(k + 1)] = Join(d, j - 1)
      BY <2>4, <2>8, <3>1, <3>4
    <3>6. Join(d, j - 1) \in [1..(j - 1) -> Column] /\ ReadingOrder(Join(d, j - 1)) = ReadingOrder(d)
      BY <3>2, <3>3, JoinKeeps
    <3> QED BY <3>2, <3>3, <3>5, <3>6
  <2>9. m \in 0..m
    BY <2>2
  <2> HIDE DEF Good
  <2>10. m \in Good
    BY <2>2, <2>7, <2>8, <2>9, UpTo
  <2> QED BY <1>3, <2>2, <2>6, <2>10 DEF Good
<1> QED BY <1>2, <1>3

\* Empty columns at the end change nothing in the order.
Lengthened(d, c, m, n) ==
    (\A i \in 1..m : d[i] = c[i]) /\ \A i \in (m + 1)..n : d[i].children = <<>>

LEMMA ExtendedKeeps ==
    ASSUME NEW m \in Nat, m >= 1, NEW n \in Nat, m <= n,
           NEW c \in [1..m -> Column], NEW d \in [1..n -> Column],
           Lengthened(d, c, m, n)
    PROVE  ReadingOrder(d) = ReadingOrder(c)
<1>1. PICK s, t : s = ListsOf(c) /\ t = ListsOf(d)
  OBVIOUS
<1>2. /\ s \in [1..m -> Seq(Children)] /\ \A i \in 1..m : s[i] = c[i].children
      /\ t \in [1..n -> Seq(Children)] /\ \A i \in 1..n : t[i] = d[i].children
  BY <1>1, WidthsAndLists
<1>3. PICK f : JoinedBy(f, s, m) /\ ReadingOrder(c) = f[m]
  BY <1>1, ReadingOf DEF IsRead
<1>4. PICK g : JoinedBy(g, t, n) /\ ReadingOrder(d) = g[n]
  BY <1>1, ReadingOf DEF IsRead
<1>5. g[m] = f[m]
  <2>1. ASSUME NEW i \in 1..m PROVE s[i] = t[i]
    <3>1. i \in 1..n /\ d[i] = c[i]
      BY DEF Lengthened
    <3> QED BY <1>2, <3>1
  <2> QED BY <1>3, <1>4, <2>1, JoinedAgree
<1> DEFINE Good == {k \in Nat : g[m + k] = f[m]}
<1>6. 0 \in Good
  <2>1. m + 0 = m
    OBVIOUS
  <2> QED BY <1>5, <2>1
<1>7. ASSUME NEW k \in Nat, k < n - m, k \in Good PROVE k + 1 \in Good
  <2>1. PICK j : j = m + (k + 1)
    OBVIOUS
  <2>2. j \in 1..n /\ j \in (m + 1)..n /\ j - 1 = m + k /\ j - 1 \in 0..n
    BY <1>7, <2>1
  <2>3. g[j] = Cat(g[j - 1], t[j]) /\ t[j] = <<>>
    BY <1>2, <1>4, <2>2 DEF JoinedBy, Lengthened
  <2>4. g[j - 1] = f[m]
    BY <1>7, <2>2
  <2>5. f[m] \in Seq(Children)
    BY <1>3 DEF JoinedBy
  <2>6. Cat(f[m], <<>>) = f[m]
    BY <2>5, CatProperties
  <2> QED BY <1>7, <2>1, <2>3, <2>4, <2>6
<1>8. g[n] = f[m]
  <2>1. PICK k : k = n - m
    OBVIOUS
  <2>2. k \in Nat /\ k \in 0..k /\ m + k = n
    BY <2>1
  <2>3. \A i \in Nat : i < k /\ i \in Good => i + 1 \in Good
    BY <1>7, <2>1
  <2> HIDE DEF Good
  <2>4. k \in Good
    BY <1>6, <2>2, <2>3, UpTo
  <2> QED BY <2>2, <2>4 DEF Good
<1> QED BY <1>3, <1>4, <1>8

\* What the columns of a container always are.
ColumnsInv(c) ==
    \E n \in 1..MostColumns :
       /\ c \in [1..n -> Column]
       /\ \A i \in 1..n : c[i].width >= MinWidth
       /\ SumFunctionOnSet(WidthsOf(c), 1..n) = FullWidth
       /\ Listed(ReadingOrder(c))

\* Columns whose widths are brought to the full width.
LEMMA NormalizedInv ==
    ASSUME NEW n \in 1..MostColumns, NEW c \in [1..n -> Column], Listed(ReadingOrder(c)),
           NEW w \in [1..n -> Int]
    PROVE  ColumnsInv(WithWidths(c, NormalizeWidths(w)))
<1>1. PICK v : v = NormalizeWidths(w)
  OBVIOUS
<1>2. /\ v \in [1..n -> Int] /\ \A i \in 1..n : v[i] >= MinWidth
      /\ SumFunctionOnSet(v, 1..n) = FullWidth
  <2>1. /\ NormalizeWidths(w) \in [1..n -> Nat]
        /\ \A i \in 1..n : NormalizeWidths(w)[i] >= MinWidth
        /\ SumFunctionOnSet(NormalizeWidths(w), 1..n) = FullWidth
    BY NormalizedOf
  <2> QED BY <1>1, <2>1
<1>3. PICK d : d = WithWidths(c, v)
  OBVIOUS
<1>4. n \in Nat
  BY LayoutNumbers
<1>5. /\ d \in [1..n -> Column] /\ WidthsOf(d) = v /\ ReadingOrder(d) = ReadingOrder(c)
  BY <1>2, <1>3, <1>4, WithWidthsKeeps
<1>6. \A i \in 1..n : d[i].width = v[i]
  BY <1>4, <1>5, WidthsAndLists
<1> QED BY <1>1, <1>2, <1>3, <1>5, <1>6 DEF ColumnsInv

LEMMA MigratedKeeps ==
    ASSUME NEW n \in Nat, n >= 1, NEW c \in [1..n -> Column], Listed(ReadingOrder(c))
    PROVE  ColumnsInv(Migrated(c))
<1>1. PICK count : count = Min({Len(c), MostColumns})
  OBVIOUS
<1>2. Len(c) = n
  BY LengthOf
<1>3. count \in {n, MostColumns} /\ count <= n /\ count <= MostColumns
  <2>1. n \in Int /\ MostColumns \in Int
    BY LayoutNumbers
  <2> QED BY <1>1, <1>2, <2>1, LeastOfTwo
<1>4. count \in Nat /\ count >= 1 /\ count \in 1..MostColumns
      /\ (IF count < n THEN count ELSE n) = count
  BY <1>3, LayoutNumbers
<1>5. PICK kept : kept = Folded(c, count)
  OBVIOUS
<1>6. kept \in [1..count -> Column] /\ ReadingOrder(kept) = ReadingOrder(c)
  BY <1>4, <1>5, FoldedKeeps
<1>7. WidthsOf(kept) \in [1..count -> Int]
  BY <1>4, <1>6, WidthsAndLists
<1>8. ColumnsInv(WithWidths(kept, NormalizeWidths(WidthsOf(kept))))
  BY <1>4, <1>6, <1>7, NormalizedInv
<1> QED BY <1>1, <1>5, <1>8 DEF Migrated

LEMMA ColumnCountKeeps ==
    ASSUME NEW n \in Nat, n >= 1, NEW c \in [1..n -> Column], Listed(ReadingOrder(c)),
           NEW count \in 1..MostColumns, NEW w \in [1..count -> Int]
    PROVE  /\ ColumnsInv(WithColumnCount(c, count, w))
           /\ ReadingOrder(WithColumnCount(c, count, w)) = ReadingOrder(c)
<1>1. PICK m : m = IF count < n THEN count ELSE n
  OBVIOUS
<1>2. m \in Nat /\ m >= 1 /\ count \in Nat /\ count >= 1 /\ m <= count
  BY <1>1, LayoutNumbers
<1>3. PICK kept : kept = Folded(c, count)
  OBVIOUS
<1>4. kept \in [1..m -> Column] /\ ReadingOrder(kept) = ReadingOrder(c)
  BY <1>1, <1>2, <1>3, FoldedKeeps
<1>5. PICK none : none = [width |-> 0, children |-> <<>>]
  OBVIOUS
<1>6. none \in Column /\ none.children = <<>>
  <2>1. <<>> \in Seq(Children)
    BY EmptySeq
  <2> QED BY <1>5, <2>1 DEF Column
<1>7. PICK d : d = [j \in 1..count |-> IF j \in DOMAIN kept THEN kept[j] ELSE none]
  OBVIOUS
<1>8. DOMAIN kept = 1..m
  BY <1>4
<1>9. d \in [1..count -> Column]
  BY <1>4, <1>6, <1>7, <1>8
<1>10. Lengthened(d, kept, m, count)
  BY <1>2, <1>6, <1>7, <1>8 DEF Lengthened
<1>11. ReadingOrder(d) = ReadingOrder(kept)
  BY <1>2, <1>4, <1>9, <1>10, ExtendedKeeps
<1>12. WithColumnCount(c, count, w) = WithWidths(d, NormalizeWidths(w))
  BY <1>3, <1>5, <1>7 DEF WithColumnCount
<1>13. ColumnsInv(WithWidths(d, NormalizeWidths(w)))
  BY <1>4, <1>9, <1>11, NormalizedInv
<1>14. NormalizeWidths(w) \in [1..count -> Int]
  <2>1. NormalizeWidths(w) \in [1..count -> Nat]
    BY NormalizedOf
  <2> QED BY <2>1
<1>15. ReadingOrder(WithWidths(d, NormalizeWidths(w))) = ReadingOrder(d)
  BY <1>2, <1>9, <1>14, WithWidthsKeeps
<1> QED BY <1>4, <1>11, <1>12, <1>13, <1>15

LEMMA DroppedKeeps ==
    ASSUME NEW n \in 1..MostColumns, n >= 2, NEW c \in [1..n -> Column], Listed(ReadingOrder(c)),
           NEW i \in 1..n
    PROVE  /\ ColumnsInv(WithoutColumn(c, i))
           /\ ReadingOrder(WithoutColumn(c, i)) = ReadingOrder(c)
<1>1. PICK l : l = IF i > 1 THEN i - 1 ELSE 1
  OBVIOUS
<1>2. n \in Nat /\ l \in 1..(n - 1) /\ n - 1 \in 1..MostColumns /\ n - 1 \in Nat
  BY <1>1, LayoutNumbers
<1>3. PICK d : d = Join(c, l)
  OBVIOUS
<1>4. d \in [1..(n - 1) -> Column] /\ ReadingOrder(d) = ReadingOrder(c)
  BY <1>2, <1>3, JoinKeeps
<1>5. WidthsOf(d) \in [1..(n - 1) -> Int]
  BY <1>2, <1>4, WidthsAndLists
<1>6. ColumnsInv(WithWidths(d, NormalizeWidths(WidthsOf(d))))
  BY <1>2, <1>4, <1>5, NormalizedInv
<1>7. NormalizeWidths(WidthsOf(d)) \in [1..(n - 1) -> Int]
  <2>1. NormalizeWidths(WidthsOf(d)) \in [1..(n - 1) -> Nat]
    BY <1>2, <1>5, NormalizedOf
  <2> QED BY <2>1
<1>8. ReadingOrder(WithWidths(d, NormalizeWidths(WidthsOf(d)))) = ReadingOrder(d)
  BY <1>2, <1>4, <1>7, WithWidthsKeeps
<1> QED BY <1>1, <1>3, <1>4, <1>6, <1>8 DEF WithoutColumn

LEMMA ResizedIn ==
    ASSUME NEW n \in 1..MostColumns, NEW widths \in [1..n -> Int], NEW i \in 1..n, NEW next \in Int
    PROVE  ResizeColumn(widths, i, next) \in [1..n -> Int]
<1>0. n \in Nat /\ n >= 1 /\ Len(widths) = n /\ IsFiniteSet(1..n)
  <2>1. n \in Nat /\ n >= 1
    BY LayoutNumbers
  <2> QED BY <2>1, LengthOf, LayoutNumbers
<1>1. CASE n <= 1
  <2>1. ResizeColumn(widths, i, next) = <<FullWidth>> /\ 1..n = 1..1
    BY <1>0, <1>1 DEF ResizeColumn
  <2>2. FullWidth \in Int
    BY LayoutNumbers
  <2>3. <<FullWidth>> \in [1..1 -> Int]
    BY <2>2
  <2> QED BY <2>1, <2>3
<1>2. CASE ~(n <= 1)
  <2>1. PICK w : w = NormalizeWidths(widths)
    OBVIOUS
  <2>2. w \in [1..n -> Nat]
    BY <2>1, NormalizedOf
  <2>3. PICK least : least = Min({FullWidth - MinWidth * (n - 1), next})
    OBVIOUS
  <2>4. least \in Int
    <3>1. \A a, b \in Nat : a * b \in Nat
      OBVIOUS
    <3>2. n - 1 \in Nat
      BY <1>0
    <3>3. MinWidth * (n - 1) \in Nat
      BY <3>1, <3>2, LayoutNumbers
    <3>4. PICK a : a = FullWidth - MinWidth * (n - 1)
      OBVIOUS
    <3>5. a \in Int
      BY <3>3, <3>4, LayoutNumbers
    <3>6. Min({a, next}) \in {a, next}
      BY <3>5, LeastOfTwo
    <3> QED BY <2>3, <3>4, <3>5, <3>6
  <2>5. PICK target : target = Max({MinWidth, least})
    OBVIOUS
  <2>6. target \in Int
    <3>1. MinWidth \in Int
      BY LayoutNumbers
    <3>2. Max({MinWidth, least}) \in {MinWidth, least}
      BY <2>4, <3>1, GreatestOfTwo
    <3> QED BY <2>4, <2>5, <3>1, <3>2
  <2>7. PICK spare : spare = [j \in 1..n |-> w[j] - MinWidth]
    OBVIOUS
  <2>8. \A j \in 1..n : spare[j] \in Int
    BY <2>2, <2>7, LayoutNumbers
  <2>9. ASSUME NEW j \in 1..n
        PROVE  SumFunctionOnSet(spare, AsksBefore(n, i, j)) \in Int
    <3>1. PICK A : A = AsksBefore(n, i, j)
      OBVIOUS
    <3>2. A \subseteq 1..n
      BY <1>0, <3>1 DEF AsksBefore
    <3>3. IsFiniteSet(A) /\ \A x \in A : spare[x] \in Int
      BY <1>0, <2>8, <3>2, FS_Subset
    <3>4. SumFunctionOnSet(spare, A) \in Int
      BY <3>3, SumIsInt
    <3> QED BY <3>1, <3>4
  <2>10. PICK taken : taken =
            [j \in 1..n |-> Max({0, Min({spare[j], target - w[i] - SumFunctionOnSet(spare, AsksBefore(n, i, j))})})]
    OBVIOUS
  <2>11. ASSUME NEW j \in 1..n PROVE taken[j] \in Int
    <3>1. PICK still : still = target - w[i] - SumFunctionOnSet(spare, AsksBefore(n, i, j))
      OBVIOUS
    <3>2. still \in Int
      BY <2>2, <2>6, <2>9, <3>1
    <3>3. PICK a : a = Min({spare[j], still})
      OBVIOUS
    <3>4. a \in Int
      <4>1. spare[j] \in Int
        BY <2>8
      <4>2. PICK sj : sj = spare[j]
        OBVIOUS
      <4>3. Min({sj, still}) \in {sj, still}
        BY <3>2, <4>1, <4>2, LeastOfTwo
      <4> QED BY <3>2, <3>3, <4>1, <4>2, <4>3
    <3>5. Max({0, a}) \in {0, a}
      <4>1. PICK o : o = 0
        OBVIOUS
      <4>2. o \in Int
        BY <4>1
      <4>3. Max({o, a}) \in {o, a}
        BY <3>4, <4>2, GreatestOfTwo
      <4> QED BY <4>1, <4>3
    <3> QED BY <2>10, <3>1, <3>3, <3>4, <3>5
  <2>12. PICK r : r = [j \in 1..n |->
                 IF j = i THEN target
                 ELSE IF target <= w[i]
                 THEN w[j] + (IF AsksBefore(n, i, j) = {} THEN w[i] - target ELSE 0)
                 ELSE w[j] - taken[j]]
    OBVIOUS
  <2>13. r \in [1..n -> Int]
    <3>1. ASSUME NEW j \in 1..n PROVE r[j] \in Int
      <4>1. w[j] \in Int /\ w[i] \in Int /\ taken[j] \in Int
        BY <2>2, <2>11
      <4> QED BY <2>6, <2>12, <4>1
    <3> QED BY <2>12, <3>1
  <2>14. ResizeColumn(widths, i, next) = r
    <3>1. PICK q : q = [j \in 1..n |->
                 IF j = i THEN target
                 ELSE IF target <= w[i]
                 THEN w[j] + (IF AsksBefore(n, i, j) = {} THEN w[i] - target ELSE 0)
                 ELSE w[j] - Max({0, Min({spare[j], target - w[i] - SumFunctionOnSet(spare, AsksBefore(n, i, j))})})]
      OBVIOUS
    <3>2. \A j \in 1..n : q[j] = r[j]
      BY <2>10, <2>12, <3>1
    <3>3. q = r
      BY <2>12, <3>1, <3>2
    <3>4. ResizeColumn(widths, i, next) = q
      BY <1>0, <1>2, <2>1, <2>3, <2>5, <2>7, <3>1 DEF ResizeColumn
    <3> QED BY <3>3, <3>4
  <2> QED BY <2>13, <2>14
<1> QED BY <1>1, <1>2

-----------------------------------------------------------------------------
(* Lists of blocks: one taken out, one put in. *)

Distinct(r) == \A k, l \in 1..Len(r) : r[k] = r[l] => k = l
Entries(r) == {r[k] : k \in 1..Len(r)}

LEMMA RemovedOf ==
    ASSUME NEW r \in Seq(Children), Distinct(r), NEW b
    PROVE  /\ RemoveFirst(r, b) \in Seq(Children) /\ Distinct(RemoveFirst(r, b))
           /\ Entries(RemoveFirst(r, b)) = Entries(r) \ {b}
<1>0. Len(r) \in Nat /\ \A k \in 1..Len(r) : r[k] \in Children
  BY LenProperties
<1>1. CASE ~ \E k \in 1..Len(r) : r[k] = b
  BY <1>1 DEF RemoveFirst, Entries
<1>2. CASE \E k \in 1..Len(r) : r[k] = b
  <2>1. PICK P : P = {k \in 1..Len(r) : r[k] = b}
    OBVIOUS
  <2>2. P \in SUBSET Nat /\ P # {}
    BY <1>2, <2>1
  <2>3. PICK p : p = Min(P)
    OBVIOUS
  <2>4. p \in 1..Len(r) /\ r[p] = b
    BY <2>1, <2>2, <2>3, LeastNumber
  <2>5. RemoveFirst(r, b) = SubSeq(r, 1, p - 1) \o SubSeq(r, p + 1, Len(r))
    BY <1>2, <2>1, <2>2, <2>3 DEF RemoveFirst, SelectInSeq, RemoveAt
  <2>6. PICK x, y : x = SubSeq(r, 1, p - 1) /\ y = SubSeq(r, p + 1, Len(r))
    OBVIOUS
  <2>7. /\ x \in Seq(Children) /\ Len(x) = p - 1
        /\ \A k \in 1..(p - 1) : x[k] = r[k]
    <3>1. 1 \in Int /\ p - 1 \in Int /\ \A k \in 1..(p - 1) : r[k] \in Children
      BY <1>0, <2>4
    <3>2. /\ SubSeq(r, 1, p - 1) \in Seq(Children)
          /\ Len(SubSeq(r, 1, p - 1)) = IF 1 <= p - 1 THEN p - 1 - 1 + 1 ELSE 0
          /\ \A k \in 1..(p - 1 - 1 + 1) : SubSeq(r, 1, p - 1)[k] = r[1 + k - 1]
      BY <3>1, SubSeqProperties
    <3>3. p - 1 - 1 + 1 = p - 1 /\ (IF 1 <= p - 1 THEN p - 1 - 1 + 1 ELSE 0) = p - 1
          /\ \A k \in 1..(p - 1) : 1 + k - 1 = k
      BY <2>4
    <3> QED BY <2>6, <3>2, <3>3
  <2>8. /\ y \in Seq(Children) /\ Len(y) = Len(r) - p
        /\ \A k \in 1..(Len(r) - p) : y[k] = r[p + k]
    <3>1. p + 1 \in Int /\ Len(r) \in Int /\ \A k \in (p + 1)..Len(r) : r[k] \in Children
      BY <1>0, <2>4
    <3>2. /\ SubSeq(r, p + 1, Len(r)) \in Seq(Children)
          /\ Len(SubSeq(r, p + 1, Len(r))) = IF p + 1 <= Len(r) THEN Len(r) - (p + 1) + 1 ELSE 0
          /\ \A k \in 1..(Len(r) - (p + 1) + 1) : SubSeq(r, p + 1, Len(r))[k] = r[(p + 1) + k - 1]
      BY <3>1, SubSeqProperties
    <3>3. Len(r) - (p + 1) + 1 = Len(r) - p /\ (IF p + 1 <= Len(r) THEN Len(r) - (p + 1) + 1 ELSE 0) = Len(r) - p
          /\ \A k \in 1..(Len(r) - p) : (p + 1) + k - 1 = p + k
      BY <1>0, <2>4
    <3> QED BY <2>6, <3>2, <3>3
  <2>9. PICK q : q = RemoveFirst(r, b)
    OBVIOUS
  <2>10. /\ q \in Seq(Children) /\ Len(q) = Len(r) - 1
         /\ \A k \in 1..(Len(r) - 1) : q[k] = IF k <= p - 1 THEN x[k] ELSE y[k - (p - 1)]
    <3>1. /\ x \o y \in Seq(Children) /\ Len(x \o y) = Len(x) + Len(y)
          /\ \A k \in 1..(Len(x) + Len(y)) : (x \o y)[k] = IF k <= Len(x) THEN x[k] ELSE y[k - Len(x)]
      BY <2>7, <2>8, ConcatProperties
    <3>2. Len(x) + Len(y) = Len(r) - 1
      BY <1>0, <2>4, <2>7, <2>8
    <3> QED BY <2>5, <2>6, <2>7, <2>9, <3>1, <3>2
  <2>11. \A k \in 1..(Len(r) - 1) : q[k] = IF k < p THEN r[k] ELSE r[k + 1]
    <3> SUFFICES ASSUME NEW k \in 1..(Len(r) - 1) PROVE q[k] = IF k < p THEN r[k] ELSE r[k + 1]
      OBVIOUS
    <3>1. CASE k < p
      <4>1. k \in 1..(p - 1) /\ k <= p - 1
        BY <2>4, <3>1
      <4> QED BY <2>7, <2>10, <3>1, <4>1
    <3>2. CASE ~(k < p)
      <4>1. PICK j : j = k - (p - 1)
        OBVIOUS
      <4>2. j \in 1..(Len(r) - p) /\ ~(k <= p - 1) /\ p + j = k + 1
        BY <1>0, <2>4, <3>2, <4>1
      <4>3. y[j] = r[p + j]
        BY <2>8, <4>2
      <4> QED BY <2>10, <3>2, <4>1, <4>2, <4>3
    <3> QED BY <3>1, <3>2
  <2>12. \A k \in 1..Len(r) : r[k] = b => k = p
    BY <2>4 DEF Distinct
  <2>13. Distinct(q)
    <3>1. ASSUME NEW k \in 1..(Len(r) - 1), NEW l \in 1..(Len(r) - 1), q[k] = q[l] PROVE k = l
      <4>1. PICK a : a = IF k < p THEN k ELSE k + 1
        OBVIOUS
      <4>2. PICK c : c = IF l < p THEN l ELSE l + 1
        OBVIOUS
      <4>3. q[k] = r[a] /\ q[l] = r[c]
        BY <2>11, <4>1, <4>2
      <4>4. a \in 1..Len(r) /\ c \in 1..Len(r)
        BY <1>0, <4>1, <4>2
      <4>5. a = c
        BY <3>1, <4>3, <4>4 DEF Distinct
      <4> QED BY <2>4, <4>1, <4>2, <4>5
    <3> QED BY <2>10, <3>1 DEF Distinct
  <2>14. ASSUME NEW e \in Entries(q) PROVE e \in Entries(r) \ {b}
    <3>1. PICK k \in 1..(Len(r) - 1) : e = q[k]
      BY <2>10 DEF Entries
    <3>2. PICK a : a = IF k < p THEN k ELSE k + 1
      OBVIOUS
    <3>3. e = r[a] /\ a \in 1..Len(r) /\ a # p
      BY <1>0, <2>4, <2>11, <3>1, <3>2
    <3> QED BY <2>12, <3>3 DEF Entries
  <2>15. ASSUME NEW e \in Entries(r), e # b PROVE e \in Entries(q)
    <3>1. PICK a \in 1..Len(r) : e = r[a]
      BY DEF Entries
    <3>2. PICK k : k = IF a < p THEN a ELSE a - 1
      OBVIOUS
    <3>3. a # p
      BY <2>4, <2>15, <3>1
    <3>4. k \in 1..(Len(r) - 1) /\ (k < p => k = a) /\ (~(k < p) => k + 1 = a)
      BY <1>0, <2>4, <3>2, <3>3
    <3>5. q[k] = e
      BY <2>11, <3>1, <3>4
    <3> QED BY <2>10, <3>4, <3>5 DEF Entries
  <2>16. Entries(q) = Entries(r) \ {b}
    BY <2>14, <2>15
  <2> QED BY <2>9, <2>10, <2>13, <2>16
<1> QED BY <1>1, <1>2

LEMMA InsertedOf ==
    ASSUME NEW r \in Seq(Children), Distinct(r), NEW b \in Children, b \notin Entries(r),
           NEW p \in 1..(Len(r) + 1)
    PROVE  /\ InsertAt(r, p, b) \in Seq(Children) /\ Distinct(InsertAt(r, p, b))
           /\ Entries(InsertAt(r, p, b)) = Entries(r) \cup {b}
<1>0. Len(r) \in Nat /\ \A k \in 1..Len(r) : r[k] \in Children
  BY LenProperties
<1>1. PICK x, y, z : x = SubSeq(r, 1, p - 1) /\ y = SubSeq(r, p, Len(r)) /\ z = <<b>>
  OBVIOUS
<1>2. /\ x \in Seq(Children) /\ Len(x) = p - 1
      /\ \A k \in 1..(p - 1) : x[k] = r[k]
  <2>1. 1 \in Int /\ p - 1 \in Int /\ \A k \in 1..(p - 1) : r[k] \in Children
    BY <1>0
  <2>2. /\ SubSeq(r, 1, p - 1) \in Seq(Children)
        /\ Len(SubSeq(r, 1, p - 1)) = IF 1 <= p - 1 THEN p - 1 - 1 + 1 ELSE 0
        /\ \A k \in 1..(p - 1 - 1 + 1) : SubSeq(r, 1, p - 1)[k] = r[1 + k - 1]
    BY <2>1, SubSeqProperties
  <2>3. p - 1 - 1 + 1 = p - 1 /\ (IF 1 <= p - 1 THEN p - 1 - 1 + 1 ELSE 0) = p - 1
        /\ \A k \in 1..(p - 1) : 1 + k - 1 = k
    BY <1>0
  <2> QED BY <1>1, <2>2, <2>3
<1>3. /\ y \in Seq(Children) /\ Len(y) = Len(r) - p + 1
      /\ \A k \in 1..(Len(r) - p + 1) : y[k] = r[p + k - 1]
  <2>1. p \in Int /\ Len(r) \in Int /\ \A k \in p..Len(r) : r[k] \in Children
    BY <1>0
  <2>2. /\ SubSeq(r, p, Len(r)) \in Seq(Children)
        /\ Len(SubSeq(r, p, Len(r))) = IF p <= Len(r) THEN Len(r) - p + 1 ELSE 0
        /\ \A k \in 1..(Len(r) - p + 1) : SubSeq(r, p, Len(r))[k] = r[p + k - 1]
    BY <2>1, SubSeqProperties
  <2>3. (IF p <= Len(r) THEN Len(r) - p + 1 ELSE 0) = Len(r) - p + 1
    BY <1>0
  <2> QED BY <1>1, <2>2, <2>3
<1>4. z \in Seq(Children) /\ Len(z) = 1 /\ z[1] = b
  BY <1>1
<1>5. PICK xz : xz = x \o z
  OBVIOUS
<1>6. /\ xz \in Seq(Children) /\ Len(xz) = p
      /\ \A k \in 1..p : xz[k] = IF k < p THEN r[k] ELSE b
  <2>1. /\ x \o z \in Seq(Children) /\ Len(x \o z) = Len(x) + Len(z)
        /\ \A k \in 1..(Len(x) + Len(z)) : (x \o z)[k] = IF k <= Len(x) THEN x[k] ELSE z[k - Len(x)]
    BY <1>2, <1>4, ConcatProperties
  <2>2. Len(x) + Len(z) = p
    BY <1>0, <1>2, <1>4
  <2>3. ASSUME NEW k \in 1..p PROVE xz[k] = IF k < p THEN r[k] ELSE b
    <3>1. xz[k] = IF k <= p - 1 THEN x[k] ELSE z[k - (p - 1)]
      BY <1>2, <1>5, <2>1, <2>2
    <3>2. CASE k < p
      <4>1. k \in 1..(p - 1) /\ k <= p - 1
        BY <1>0, <3>2
      <4> QED BY <1>2, <3>1, <3>2, <4>1
    <3>3. CASE ~(k < p)
      <4>1. ~(k <= p - 1) /\ k - (p - 1) = 1
        BY <1>0, <3>3
      <4> QED BY <1>4, <3>1, <3>3, <4>1
    <3> QED BY <3>2, <3>3
  <2> QED BY <1>5, <2>1, <2>2, <2>3
<1>7. PICK q : q = InsertAt(r, p, b)
  OBVIOUS
<1>8. q = xz \o y
  BY <1>1, <1>5, <1>7 DEF InsertAt
<1>9. /\ q \in Seq(Children) /\ Len(q) = Len(r) + 1
      /\ \A k \in 1..(Len(r) + 1) : q[k] = IF k < p THEN r[k] ELSE IF k = p THEN b ELSE r[k - 1]
  <2>1. /\ xz \o y \in Seq(Children) /\ Len(xz \o y) = Len(xz) + Len(y)
        /\ \A k \in 1..(Len(xz) + Len(y)) : (xz \o y)[k] = IF k <= Len(xz) THEN xz[k] ELSE y[k - Len(xz)]
    BY <1>3, <1>6, ConcatProperties
  <2>2. Len(xz) + Len(y) = Len(r) + 1
    BY <1>0, <1>3, <1>6
  <2>3. ASSUME NEW k \in 1..(Len(r) + 1)
        PROVE  q[k] = IF k < p THEN r[k] ELSE IF k = p THEN b ELSE r[k - 1]
    <3>1. q[k] = IF k <= p THEN xz[k] ELSE y[k - p]
      BY <1>6, <1>8, <2>1, <2>2
    <3>2. CASE k <= p
      <4>1. k \in 1..p /\ (~(k < p) => k = p)
        BY <1>0, <3>2
      <4>2. xz[k] = IF k < p THEN r[k] ELSE b
        BY <1>6, <4>1
      <4> QED BY <3>1, <3>2, <4>1, <4>2
    <3>3. CASE ~(k <= p)
      <4>1. PICK j : j = k - p
        OBVIOUS
      <4>2. j \in 1..(Len(r) - p + 1) /\ p + j - 1 = k - 1 /\ ~(k < p) /\ k # p
        BY <1>0, <3>3, <4>1
      <4>3. y[j] = r[p + j - 1]
        BY <1>3, <4>2
      <4> QED BY <3>1, <3>3, <4>1, <4>2, <4>3
    <3> QED BY <3>2, <3>3
  <2> QED BY <1>8, <2>1, <2>2, <2>3
<1>10. \A k \in 1..Len(r) : r[k] # b
  BY DEF Entries
<1>11. Distinct(q)
  <2>1. ASSUME NEW k \in 1..(Len(r) + 1), NEW l \in 1..(Len(r) + 1), q[k] = q[l] PROVE k = l
    <3>1. \A m \in 1..(Len(r) + 1) :
             /\ m < p => m \in 1..Len(r) /\ q[m] = r[m]
             /\ m > p => m - 1 \in 1..Len(r) /\ q[m] = r[m - 1]
             /\ m = p => q[m] = b
      <4> SUFFICES ASSUME NEW m \in 1..(Len(r) + 1)
                   PROVE  /\ m < p => m \in 1..Len(r) /\ q[m] = r[m]
                          /\ m > p => m - 1 \in 1..Len(r) /\ q[m] = r[m - 1]
                          /\ m = p => q[m] = b
        OBVIOUS
      <4>1. q[m] = IF m < p THEN r[m] ELSE IF m = p THEN b ELSE r[m - 1]
        BY <1>9
      <4> QED BY <1>0, <4>1
    <3>2. k = p <=> q[k] = b
      <4>1. k < p \/ k > p \/ k = p
        OBVIOUS
      <4> QED BY <1>10, <3>1, <4>1
    <3>3. l = p <=> q[l] = b
      <4>1. l < p \/ l > p \/ l = p
        OBVIOUS
      <4> QED BY <1>10, <3>1, <4>1
    <3>4. CASE k # p /\ l # p
      <4>1. PICK a : a = IF k < p THEN k ELSE k - 1
        OBVIOUS
      <4>2. PICK c : c = IF l < p THEN l ELSE l - 1
        OBVIOUS
      <4>3. a \in 1..Len(r) /\ q[k] = r[a] /\ c \in 1..Len(r) /\ q[l] = r[c]
        BY <3>1, <3>4, <4>1, <4>2
      <4>4. a = c
        BY <2>1, <4>3 DEF Distinct
      <4> QED BY <3>4, <4>1, <4>2, <4>4
    <3> QED BY <2>1, <3>2, <3>3, <3>4
  <2> QED BY <1>9, <2>1 DEF Distinct
<1>12. ASSUME NEW e \in Entries(q) PROVE e \in Entries(r) \cup {b}
  <2>1. PICK k \in 1..(Len(r) + 1) : e = q[k]
    BY <1>9 DEF Entries
  <2>2. CASE k < p
    <3>1. e = r[k] /\ k \in 1..Len(r)
      BY <1>0, <1>9, <2>1, <2>2
    <3> QED BY <3>1 DEF Entries
  <2>3. CASE k = p
    BY <1>9, <2>1, <2>3
  <2>4. CASE k > p
    <3>1. e = r[k - 1] /\ k - 1 \in 1..Len(r)
      BY <1>0, <1>9, <2>1, <2>4
    <3> QED BY <3>1 DEF Entries
  <2> QED BY <2>2, <2>3, <2>4
<1>13. ASSUME NEW e \in Entries(r) PROVE e \in Entries(q)
  <2>1. PICK a \in 1..Len(r) : e = r[a]
    BY DEF Entries
  <2>2. PICK k : k = IF a < p THEN a ELSE a + 1
    OBVIOUS
  <2>3. k \in 1..(Len(r) + 1) /\ (k < p => k = a) /\ (~(k < p) => k # p /\ k - 1 = a)
    BY <1>0, <2>2
  <2>4. q[k] = e
    BY <1>9, <2>1, <2>3
  <2> QED BY <1>9, <2>3, <2>4 DEF Entries
<1>14. b \in Entries(q)
  <2>1. p \in 1..(Len(r) + 1) /\ ~(p < p)
    BY <1>0
  <2>2. q[p] = b
    BY <1>9, <2>1
  <2> QED BY <1>9, <2>1, <2>2 DEF Entries
<1>15. Entries(q) = Entries(r) \cup {b}
  BY <1>12, <1>13, <1>14
<1> QED BY <1>7, <1>9, <1>11, <1>15

-----------------------------------------------------------------------------
(* Columns changing places, a block changing its place. *)

\* The same by lists: none holds a block twice, no two share one, together all.
Shared(s, n) ==
    /\ \A i \in 1..n : Distinct(s[i])
    /\ \A i, j \in 1..n : i # j => Entries(s[i]) \cap Entries(s[j]) = {}
    /\ \A b \in Children : \E i \in 1..n : b \in Entries(s[i])

LEMMA PlacedAsLists == ASSUME NEW n \in Nat, NEW s PROVE Placed(s, n) <=> Shared(s, n)
<1>1. ASSUME Placed(s, n) PROVE Shared(s, n)
  <2>1. \A i \in 1..n : Distinct(s[i])
    BY <1>1 DEF Placed, Distinct
  <2>2. ASSUME NEW i \in 1..n, NEW j \in 1..n, i # j, NEW e, e \in Entries(s[i]), e \in Entries(s[j])
        PROVE  FALSE
    <3>1. PICK k \in 1..Len(s[i]) : e = s[i][k]
      BY <2>2 DEF Entries
    <3>2. PICK l \in 1..Len(s[j]) : e = s[j][l]
      BY <2>2 DEF Entries
    <3>3. \A x \in 1..Len(s[i]) : \A y \in 1..Len(s[j]) : s[i][x] = s[j][y] => i = j
      BY <1>1 DEF Placed
    <3> QED BY <2>2, <3>1, <3>2, <3>3
  <2>3. \A b \in Children : \E i \in 1..n : b \in Entries(s[i])
    BY <1>1 DEF Placed, Entries
  <2> QED BY <2>1, <2>2, <2>3 DEF Shared
<1>2. ASSUME Shared(s, n) PROVE Placed(s, n)
  <2>1. ASSUME NEW i \in 1..n, NEW j \in 1..n, NEW k \in 1..Len(s[i]), NEW l \in 1..Len(s[j]),
               s[i][k] = s[j][l]
        PROVE  i = j /\ k = l
    <3>1. s[i][k] \in Entries(s[i]) /\ s[j][l] \in Entries(s[j])
      BY DEF Entries
    <3>2. i = j
      BY <1>2, <2>1, <3>1 DEF Shared
    <3>3. s[i] = s[j] /\ Distinct(s[i])
      BY <1>2, <3>2 DEF Shared
    <3> QED BY <2>1, <3>2, <3>3 DEF Distinct
  <2>2. \A b \in Children : \E i \in 1..n : \E k \in 1..Len(s[i]) : s[i][k] = b
    BY <1>2 DEF Shared, Entries
  <2> QED BY <2>1, <2>2 DEF Placed
<1> QED BY <1>1, <1>2

LEMMA ListedIffPlaced ==
    ASSUME NEW n \in Nat, n >= 1, NEW c \in [1..n -> Column]
    PROVE  Listed(ReadingOrder(c)) <=> Placed(ListsOf(c), n)
<1>1. PICK f : JoinedBy(f, ListsOf(c), n) /\ ReadingOrder(c) = f[n]
  BY ReadingOf DEF IsRead
<1>2. ListsOf(c) \in [1..n -> Seq(Children)]
  BY WidthsAndLists
<1> QED BY <1>1, <1>2, PlacedIffListed

\* moveContainerColumn()
LEMMA SwappedKeeps ==
    ASSUME NEW n \in 1..MostColumns, NEW c \in [1..n -> Column],
           \A i \in 1..n : c[i].width >= MinWidth,
           SumFunctionOnSet(WidthsOf(c), 1..n) = FullWidth,
           Listed(ReadingOrder(c)),
           NEW i \in 1..n, i + 1 \in 1..n
    PROVE  ColumnsInv([c EXCEPT ![i] = c[i + 1], ![i + 1] = c[i]])
<1>0. n \in Nat /\ n >= 1 /\ i # i + 1 /\ IsFiniteSet(1..n)
  BY LayoutNumbers
<1>1. PICK d : d = [c EXCEPT ![i] = c[i + 1], ![i + 1] = c[i]]
  OBVIOUS
<1>2. /\ d \in [1..n -> Column] /\ d[i] = c[i + 1] /\ d[i + 1] = c[i]
      /\ \A j \in 1..n : j # i /\ j # i + 1 => d[j] = c[j]
  BY <1>0, <1>1
<1>3. PICK w, v : w = WidthsOf(c) /\ v = WidthsOf(d)
  OBVIOUS
<1>4. /\ \A j \in 1..n : w[j] = c[j].width /\ v[j] = d[j].width /\ w[j] \in Int /\ v[j] \in Int
      /\ w \in [1..n -> Int]
  <2>1. w \in [1..n -> Int] /\ \A j \in 1..n : w[j] = c[j].width
    BY <1>0, <1>3, WidthsAndLists
  <2>2. v \in [1..n -> Int] /\ \A j \in 1..n : v[j] = d[j].width
    BY <1>0, <1>2, <1>3, WidthsAndLists
  <2> QED BY <2>1, <2>2
<1>5. SumFunctionOnSet(v, 1..n) = FullWidth
  <2>1. PICK u : u = [w EXCEPT ![i] = w[i + 1]]
    OBVIOUS
  <2>2. /\ \A x \in 1..n : u[x] \in Int /\ w[x] \in Int /\ v[x] \in Int
        /\ u[i] = w[i + 1] /\ u[i + 1] = w[i + 1] /\ v[i + 1] = w[i] /\ v[i] = w[i + 1]
        /\ \A x \in 1..n : x # i => w[x] = u[x]
    BY <1>0, <1>2, <1>4, <2>1
  <2>3. ASSUME NEW x \in 1..n, x # i + 1 PROVE u[x] = v[x]
    <3>1. CASE x = i
      BY <2>2, <3>1
    <3>2. CASE x # i
      BY <1>2, <1>4, <2>2, <2>3, <3>2
    <3> QED BY <3>1, <3>2
  <2>4. SumFunctionOnSet(w, 1..n) + u[i] = SumFunctionOnSet(u, 1..n) + w[i]
    <3>1. \A x \in 1..n : w[x] \in Int /\ u[x] \in Int
      BY <2>2
    <3>2. \A x \in 1..n : x # i => w[x] = u[x]
      BY <2>2
    <3>3. PICK S : S = 1..n
      OBVIOUS
    <3>4. /\ IsFiniteSet(S) /\ i \in S /\ \A x \in S : w[x] \in Int /\ u[x] \in Int
          /\ \A x \in S : x # i => w[x] = u[x]
      BY <1>0, <3>1, <3>2, <3>3
    <3>5. SumFunctionOnSet(w, S) + u[i] = SumFunctionOnSet(u, S) + w[i]
      BY <3>4, SumMoves
    <3> QED BY <3>3, <3>5
  <2>5. SumFunctionOnSet(u, 1..n) + v[i + 1] = SumFunctionOnSet(v, 1..n) + u[i + 1]
    <3>1. PICK k : k = i + 1
      OBVIOUS
    <3>2. k \in 1..n /\ (\A x \in 1..n : x # k => u[x] = v[x])
      BY <2>3, <3>1
    <3>3. \A x \in 1..n : u[x] \in Int /\ v[x] \in Int
      BY <2>2
    <3>4. PICK S : S = 1..n
      OBVIOUS
    <3>5. /\ IsFiniteSet(S) /\ k \in S /\ \A x \in S : u[x] \in Int /\ v[x] \in Int
          /\ \A x \in S : x # k => u[x] = v[x]
      BY <1>0, <3>2, <3>3, <3>4
    <3>6. SumFunctionOnSet(u, S) + v[k] = SumFunctionOnSet(v, S) + u[k]
      BY <3>5, SumMoves
    <3> QED BY <3>1, <3>4, <3>6
  <2>6. /\ SumFunctionOnSet(w, 1..n) \in Int /\ SumFunctionOnSet(u, 1..n) \in Int
        /\ SumFunctionOnSet(v, 1..n) \in Int
    BY <1>0, <2>2, SumIsInt
  <2>7. SumFunctionOnSet(v, 1..n) = SumFunctionOnSet(w, 1..n)
    BY <2>2, <2>4, <2>5, <2>6
  <2> QED BY <1>3, <2>7
<1>6. \A j \in 1..n : d[j].width >= MinWidth
  BY <1>0, <1>2
<1>7. PICK s, t : s = ListsOf(c) /\ t = ListsOf(d)
  OBVIOUS
<1>8. \A j \in 1..n : s[j] = c[j].children /\ t[j] = d[j].children
  BY <1>0, <1>2, <1>7, WidthsAndLists
<1>9. PICK p : p = [j \in 1..n |-> IF j = i THEN i + 1 ELSE IF j = i + 1 THEN i ELSE j]
  OBVIOUS
<1>10. /\ \A j \in 1..n : p[j] \in 1..n /\ t[j] = s[p[j]] /\ p[p[j]] = j
       /\ \A j, k \in 1..n : j # k => p[j] # p[k]
  BY <1>0, <1>2, <1>8, <1>9
<1>11. Placed(s, n)
  BY <1>0, <1>7, ListedIffPlaced
<1>12. Placed(t, n)
  <2>1. /\ \A j \in 1..n : Distinct(s[j])
        /\ \A j, k \in 1..n : j # k => Entries(s[j]) \cap Entries(s[k]) = {}
        /\ \A b \in Children : \E j \in 1..n : b \in Entries(s[j])
    BY <1>0, <1>11, PlacedAsLists DEF Shared
  <2>2. /\ \A j \in 1..n : Distinct(t[j])
        /\ \A j, k \in 1..n : j # k => Entries(t[j]) \cap Entries(t[k]) = {}
    <3>1. \A j \in 1..n : Distinct(t[j])
      BY <1>10, <2>1
    <3>2. ASSUME NEW j \in 1..n, NEW k \in 1..n, j # k
          PROVE  Entries(t[j]) \cap Entries(t[k]) = {}
      <4>1. p[j] \in 1..n /\ p[k] \in 1..n /\ p[j] # p[k] /\ t[j] = s[p[j]] /\ t[k] = s[p[k]]
        BY <1>10, <3>2
      <4> QED BY <2>1, <4>1
    <3> QED BY <3>1, <3>2
  <2>3. ASSUME NEW b \in Children PROVE \E j \in 1..n : b \in Entries(t[j])
    <3>1. PICK j \in 1..n : b \in Entries(s[j])
      BY <2>1
    <3>2. p[j] \in 1..n /\ t[p[j]] = s[j]
      BY <1>10
    <3> QED BY <3>1, <3>2
  <2> QED BY <1>0, <2>2, <2>3, PlacedAsLists DEF Shared
<1>13. Listed(ReadingOrder(d))
  BY <1>0, <1>2, <1>7, <1>12, ListedIffPlaced
<1> QED BY <1>1, <1>2, <1>3, <1>5, <1>6, <1>13 DEF ColumnsInv

\* moveBlockToColumn()
PutOut(c, b) == [j \in DOMAIN c |-> [c[j] EXCEPT !.children = RemoveFirst(@, b)]]
PutIn(out, b, i, position) ==
    [out EXCEPT ![i].children = InsertAt(out[i].children, Min({position, Len(out[i].children) + 1}), b)]

LEMMA PutKeeps ==
    ASSUME NEW n \in 1..MostColumns, NEW c \in [1..n -> Column],
           \A j \in 1..n : c[j].width >= MinWidth,
           SumFunctionOnSet(WidthsOf(c), 1..n) = FullWidth,
           Listed(ReadingOrder(c)),
           NEW b \in Children, NEW i \in 1..n, NEW position \in Nat, position >= 1
    PROVE  ColumnsInv(PutIn(PutOut(c, b), b, i, position))
<1>0. n \in Nat /\ n >= 1 /\ DOMAIN c = 1..n
  BY LayoutNumbers
<1>b. PICK out : out = PutOut(c, b)
  OBVIOUS
<1>c. PICK put : put = PutIn(out, b, i, position)
  OBVIOUS
<1>1. PICK s : s = ListsOf(c)
  OBVIOUS
<1>2. \A j \in 1..n : s[j] = c[j].children /\ s[j] \in Seq(Children)
  BY <1>0, <1>1, WidthsAndLists
<1>3. /\ \A j \in 1..n : Distinct(s[j])
      /\ \A j, k \in 1..n : j # k => Entries(s[j]) \cap Entries(s[k]) = {}
      /\ \A e \in Children : \E j \in 1..n : e \in Entries(s[j])
  <2>1. Placed(s, n)
    BY <1>0, <1>1, ListedIffPlaced
  <2> QED BY <1>0, <2>1, PlacedAsLists DEF Shared
<1>4. PICK r : r = [j \in 1..n |-> RemoveFirst(s[j], b)]
  OBVIOUS
<1>5. ASSUME NEW j \in 1..n
      PROVE  r[j] \in Seq(Children) /\ Distinct(r[j]) /\ Entries(r[j]) = Entries(s[j]) \ {b}
  <2>1. PICK x : x = s[j]
    OBVIOUS
  <2>2. x \in Seq(Children) /\ Distinct(x)
    BY <1>2, <1>3, <2>1
  <2>3. /\ RemoveFirst(x, b) \in Seq(Children) /\ Distinct(RemoveFirst(x, b))
        /\ Entries(RemoveFirst(x, b)) = Entries(x) \ {b}
    BY <2>2, RemovedOf
  <2> QED BY <1>4, <2>1, <2>3
<1>6. PICK q : q = InsertAt(r[i], Min({position, Len(r[i]) + 1}), b)
  OBVIOUS
<1>7. q \in Seq(Children) /\ Distinct(q) /\ Entries(q) = Entries(r[i]) \cup {b}
  <2>1. PICK x, m : x = r[i] /\ m = Len(r[i]) + 1
    OBVIOUS
  <2>2. x \in Seq(Children) /\ Distinct(x) /\ b \notin Entries(x)
    BY <1>5, <2>1
  <2>3. Len(x) \in Nat /\ m = Len(x) + 1
    BY <2>1, <2>2, LenProperties
  <2>4. PICK p : p = Min({position, m})
    OBVIOUS
  <2>5. m \in Int /\ position \in Int
    BY <2>3
  <2>6. p \in {position, m} /\ p <= m
    BY <2>4, <2>5, LeastOfTwo
  <2>7. p \in 1..(Len(x) + 1)
    BY <2>3, <2>6
  <2>8. /\ InsertAt(x, p, b) \in Seq(Children) /\ Distinct(InsertAt(x, p, b))
        /\ Entries(InsertAt(x, p, b)) = Entries(x) \cup {b}
    BY <2>2, <2>7, InsertedOf
  <2> QED BY <1>6, <2>1, <2>4, <2>8
<1>8. /\ DOMAIN out = 1..n
      /\ \A j \in 1..n : out[j].children = r[j] /\ out[j].width = c[j].width /\ out[j] \in Column
  <2>1. ASSUME NEW j \in 1..n
        PROVE  out[j].children = r[j] /\ out[j].width = c[j].width /\ out[j] \in Column
    <3>1. c[j] \in Column /\ out[j] = [c[j] EXCEPT !.children = RemoveFirst(c[j].children, b)]
      BY <1>0, <1>b DEF PutOut
    <3>2. RemoveFirst(c[j].children, b) = r[j] /\ r[j] \in Seq(Children)
      BY <1>2, <1>4, <1>5
    <3> QED BY <3>1, <3>2 DEF Column
  <2> QED BY <1>0, <1>b, <2>1 DEF PutOut
<1>9. /\ DOMAIN put = 1..n /\ put = [j \in 1..n |-> put[j]]
      /\ \A j \in 1..n : j # i => put[j] = out[j]
      /\ put[i] = [out[i] EXCEPT !.children = q]
  <2>1. PICK o : o = [out[i] EXCEPT !.children = q]
    OBVIOUS
  <2>2. put = [out EXCEPT ![i] = o]
    BY <1>6, <1>8, <1>c, <2>1 DEF PutIn
  <2> QED BY <1>8, <2>1, <2>2
<1>a. ASSUME NEW j \in 1..n
      PROVE  /\ put[j] \in Column /\ put[j].width = c[j].width
             /\ put[j].children = IF j = i THEN q ELSE r[j]
  <2>1. CASE j = i
    <3>1. out[i] \in Column /\ out[i].width = c[i].width /\ put[j] = [out[i] EXCEPT !.children = q]
      BY <1>8, <1>9, <2>1
    <3> QED BY <1>7, <2>1, <3>1 DEF Column
  <2>2. CASE j # i
    BY <1>8, <1>9, <2>2
  <2> QED BY <2>1, <2>2
<1>10. put \in [1..n -> Column]
  BY <1>9, <1>a
<1>11. WidthsOf(put) = WidthsOf(c)
  BY <1>0, <1>9, <1>a DEF WidthsOf
<1>12. PICK t : t = ListsOf(put)
  OBVIOUS
<1>13. \A j \in 1..n : t[j] = IF j = i THEN q ELSE r[j]
  <2>1. \A j \in 1..n : t[j] = put[j].children
    BY <1>9, <1>12 DEF ListsOf
  <2> QED BY <1>a, <2>1
<1>14. Placed(t, n)
  <2>1. \A j \in 1..n : Distinct(t[j])
    BY <1>5, <1>7, <1>13
  <2>2. \A j \in 1..n : Entries(t[j]) = (Entries(s[j]) \ {b}) \cup (IF j = i THEN {b} ELSE {})
    BY <1>5, <1>7, <1>13
  <2>3. ASSUME NEW j \in 1..n, NEW k \in 1..n, j # k
        PROVE  Entries(t[j]) \cap Entries(t[k]) = {}
    <3>1. Entries(s[j]) \cap Entries(s[k]) = {}
      BY <1>3, <2>3
    <3>2. ~(j = i /\ k = i)
      BY <2>3
    <3>3. /\ Entries(t[j]) = (Entries(s[j]) \ {b}) \cup (IF j = i THEN {b} ELSE {})
          /\ Entries(t[k]) = (Entries(s[k]) \ {b}) \cup (IF k = i THEN {b} ELSE {})
      BY <2>2
    <3> QED BY <3>1, <3>2, <3>3
  <2>4. ASSUME NEW e \in Children PROVE \E j \in 1..n : e \in Entries(t[j])
    <3>1. PICK j \in 1..n : e \in Entries(s[j])
      BY <1>3
    <3> QED BY <2>2, <3>1
  <2> QED BY <1>0, <2>1, <2>3, <2>4, PlacedAsLists DEF Shared
<1>15. Listed(ReadingOrder(put))
  BY <1>0, <1>10, <1>12, <1>14, ListedIffPlaced
<1>16. \A j \in 1..n : put[j].width >= MinWidth
  BY <1>a
<1> QED BY <1>b, <1>c, <1>10, <1>11, <1>15, <1>16 DEF ColumnsInv

-----------------------------------------------------------------------------
(* The first columns. *)

Increasing(list, S) ==
    /\ list \in [1..Cardinality(S) -> S]
    /\ \A i, j \in 1..Cardinality(S) : i < j => list[i] < list[j]

LEMMA FiniteIsBounded ==
    ASSUME NEW S \in SUBSET Nat, IsFiniteSet(S)
    PROVE  \E n \in Nat : \A x \in S : x <= n
<1> DEFINE Good == {s \in SUBSET S : \E n \in Nat : \A x \in s : x <= n}
<1>1. {} \in Good
  OBVIOUS
<1>2. ASSUME NEW s \in SUBSET S, s # {}, (s \ {SomeOf(s)}) \in Good PROVE s \in Good
  <2>1. PICK m \in s : m = SomeOf(s)
    BY <1>2 DEF SomeOf
  <2>2. PICK n \in Nat : \A x \in s \ {m} : x <= n
    BY <1>2, <2>1
  <2>3. PICK k : k = IF n < m THEN m ELSE n
    OBVIOUS
  <2>4. k \in Nat /\ n <= k /\ m <= k
    BY <2>3
  <2>5. ASSUME NEW x \in s PROVE x <= k
    <3>1. CASE x = m
      BY <2>4, <3>1
    <3>2. CASE x # m
      <4>1. x <= n /\ x \in Nat
        BY <2>2, <3>2
      <4> QED BY <2>4, <4>1
    <3> QED BY <3>1, <3>2
  <2> QED BY <1>2, <2>4, <2>5
<1> HIDE DEF Good
<1>3. S \in Good
  <2>1. \A s \in SUBSET S : s \in Good
    BY <1>1, <1>2, SetInduction
  <2> QED BY <2>1
<1> QED BY <1>3 DEF Good

LEMMA IncreasingExists ==
    ASSUME NEW S \in SUBSET Children
    PROVE  \E list : Increasing(list, S)
<1>0. /\ Children \subseteq Nat
      /\ \A s \in SUBSET Children : IsFiniteSet(s) /\ Cardinality(s) \in Nat
  BY ColumnLayoutAssumption, FS_Subset, FS_CardinalityType
<1> DEFINE Good == {n \in Nat : \A s \in SUBSET Children : Cardinality(s) = n => \E list : Increasing(list, s)}
<1>1. 0 \in Good
  <2>1. ASSUME NEW s \in SUBSET Children, Cardinality(s) = 0 PROVE \E list : Increasing(list, s)
    <3>1. PICK list : list = [i \in 1..0 |-> 0]
      OBVIOUS
    <3>2. list \in [1..0 -> s] /\ \A i, j \in 1..0 : i < j => list[i] < list[j]
      BY <3>1
    <3>3. Increasing(list, s)
      BY <2>1, <3>2 DEF Increasing
    <3> QED BY <3>3
  <2> QED BY <2>1
<1>2. ASSUME NEW n \in Nat, n \in Good PROVE n + 1 \in Good
  <2>1. ASSUME NEW s \in SUBSET Children, Cardinality(s) = n + 1 PROVE \E list : Increasing(list, s)
    <3>1. s # {}
      <4>1. n + 1 # 0
        OBVIOUS
      <4> QED BY <2>1, <4>1, FS_EmptySet
    <3>2. \E m \in s : \A x \in s : x <= m
      <4>1. PICK N \in Nat : \A x \in s : x <= N
        BY <1>0, FiniteIsBounded
      <4>2. s \in SUBSET (0..N)
        BY <1>0, <4>1
      <4>3. Max(s) \in s /\ \A x \in s : x <= Max(s)
        BY <3>1, <4>2, GreatestNumber
      <4> QED BY <4>3
    <3>3. PICK m \in s : \A x \in s : x <= m
      BY <3>2
    <3>4. PICK r : r = s \ {m}
      OBVIOUS
    <3>5. r \in SUBSET Children /\ Cardinality(r) = n
      BY <1>0, <2>1, <3>3, <3>4, FS_RemoveElement
    <3>6. PICK f : Increasing(f, r)
      BY <1>2, <3>5
    <3>7. f \in [1..n -> r] /\ \A i, j \in 1..n : i < j => f[i] < f[j]
      BY <3>5, <3>6 DEF Increasing
    <3>8. PICK list : list = [i \in 1..(n + 1) |-> IF i = n + 1 THEN m ELSE f[i]]
      OBVIOUS
    <3>9. \A i \in 1..(n + 1) : /\ i = n + 1 => list[i] = m
                                /\ i # n + 1 => i \in 1..n /\ list[i] = f[i] /\ f[i] \in r
      BY <3>7, <3>8
    <3>10. list \in [1..(n + 1) -> s]
      BY <3>3, <3>4, <3>8, <3>9
    <3>11. \A x \in r : x < m
      BY <1>0, <3>3, <3>4
    <3>12. ASSUME NEW i \in 1..(n + 1), NEW j \in 1..(n + 1), i < j PROVE list[i] < list[j]
      <4>1. i # n + 1
        BY <3>12
      <4>2. i \in 1..n /\ list[i] = f[i] /\ f[i] \in r
        BY <3>9, <4>1
      <4>3. CASE j = n + 1
        BY <3>9, <3>11, <4>2, <4>3
      <4>4. CASE j # n + 1
        <5>1. j \in 1..n /\ list[j] = f[j]
          BY <3>9, <4>4
        <5> QED BY <3>7, <3>12, <4>2, <5>1
      <4> QED BY <4>3, <4>4
    <3>13. Increasing(list, s)
      BY <2>1, <3>10, <3>12 DEF Increasing
    <3> QED BY <3>13
  <2> QED BY <2>1
<1>3. PICK n : n = Cardinality(S)
  OBVIOUS
<1>4. n \in Nat /\ n \in 0..n
  BY <1>0, <1>3
<1> HIDE DEF Good
<1>5. n \in Good
  BY <1>1, <1>2, <1>4, UpTo
<1> QED BY <1>3, <1>5 DEF Good

\* The blocks of a set, each once.
LEMMA InOrderOf ==
    ASSUME NEW S \in SUBSET Children
    PROVE  /\ InOrder(S) \in Seq(Children) /\ Distinct(InOrder(S)) /\ Entries(InOrder(S)) = S
<1>0. Children \subseteq Nat /\ IsFiniteSet(S) /\ Cardinality(S) \in Nat
  BY ColumnLayoutAssumption, FS_Subset, FS_CardinalityType
<1>1. PICK n, r : n = Cardinality(S) /\ r = InOrder(S)
  OBVIOUS
<1>2. Increasing(r, S)
  <2>1. \E list \in [1..Cardinality(S) -> S] :
           \A i, j \in 1..Cardinality(S) : i < j => list[i] < list[j]
    BY IncreasingExists DEF Increasing
  <2> QED BY <1>1, <2>1 DEF InOrder, Increasing
<1>3. r \in [1..n -> S] /\ \A i, j \in 1..n : i < j => r[i] < r[j]
  BY <1>1, <1>2 DEF Increasing
<1>4. \A i \in 1..n : r[i] \in Nat
  BY <1>0, <1>3
<1>5. ASSUME NEW i \in 1..n, NEW j \in 1..n, r[i] = r[j] PROVE i = j
  <2>1. ~(i < j) /\ ~(j < i)
    BY <1>3, <1>4, <1>5
  <2> QED BY <2>1
<1>6. r \in Injection(1..n, S)
  BY <1>3, <1>5 DEF Injection, IsInjective
<1>7. Cardinality(1..n) = Cardinality(S)
  BY <1>0, <1>1, LayoutNumbers
<1>8. r \in Surjection(1..n, S)
  BY <1>0, <1>6, <1>7, FS_Injection
<1>9. r \in Seq(Children) /\ Len(r) = n
  <2>1. r \in [1..n -> Children] /\ n \in Nat
    BY <1>0, <1>1, <1>3
  <2> QED BY <2>1, LengthOf
<1>10. Distinct(r)
  BY <1>5, <1>9 DEF Distinct
<1>11. Entries(r) = S
  BY <1>3, <1>8, <1>9 DEF Entries, Surjection
<1> QED BY <1>1, <1>9, <1>10, <1>11

LEMMA OneColumnInv == ColumnsInv(OneColumn)
<1>1. PICK r, col : r = InOrder(Children) /\ col = [width |-> FullWidth, children |-> r]
  OBVIOUS
<1>2. r \in Seq(Children) /\ Distinct(r) /\ Entries(r) = Children
  BY <1>1, InOrderOf
<1>3. col \in Column /\ col.width = FullWidth /\ col.children = r
  BY <1>1, <1>2, LayoutNumbers DEF Column
<1>4. PICK c : c = <<col>>
  OBVIOUS
<1>5. c \in [1..1 -> Column] /\ c[1] = col
  BY <1>3, <1>4
<1>6. PICK n : n = 1
  OBVIOUS
<1>7. n \in 1..MostColumns /\ n \in Nat /\ n >= 1 /\ c \in [1..n -> Column] /\ \A i \in 1..n : i = 1
  BY <1>5, <1>6, LayoutNumbers
<1>8. PICK w, s : w = WidthsOf(c) /\ s = ListsOf(c)
  OBVIOUS
<1>9. \A i \in 1..n : w[i] = FullWidth /\ s[i] = r
  <2>1. \A i \in 1..n : w[i] = c[i].width /\ s[i] = c[i].children
    BY <1>7, <1>8, WidthsAndLists
  <2> QED BY <1>3, <1>5, <1>7, <2>1
<1>10. SumFunctionOnSet(w, 1..n) = FullWidth
  <2>1. IsFiniteSet(1..n) /\ Cardinality(1..n) = 1 /\ FullWidth \in Nat /\ FullWidth * 1 = FullWidth
    <3>1. Cardinality(1..n) = n /\ IsFiniteSet(1..n) /\ FullWidth \in Nat
      BY <1>7, LayoutNumbers
    <3> QED BY <1>6, <3>1
  <2>2. \A i \in 1..n : w[i] = FullWidth
    BY <1>9
  <2>3. SumFunctionOnSet(w, 1..n) = FullWidth * Cardinality(1..n)
    BY <2>1, <2>2, SumOfEqual
  <2> QED BY <2>1, <2>3
<1>11. Shared(s, n)
  <2>1. \A i \in 1..n : Distinct(s[i]) /\ Entries(s[i]) = Children
    BY <1>2, <1>9
  <2>2. \A b \in Children : \E i \in 1..n : b \in Entries(s[i])
    BY <1>7, <2>1
  <2>3. \A i, j \in 1..n : i # j => Entries(s[i]) \cap Entries(s[j]) = {}
    BY <1>7
  <2> QED BY <2>1, <2>2, <2>3 DEF Shared
<1>12. Listed(ReadingOrder(c))
  BY <1>7, <1>8, <1>11, PlacedAsLists, ListedIffPlaced
<1>13. \A i \in 1..n : c[i].width >= MinWidth
  BY <1>3, <1>5, <1>7, LayoutNumbers
<1>14. ColumnsInv(c)
  BY <1>7, <1>8, <1>10, <1>12, <1>13 DEF ColumnsInv
<1> QED BY <1>1, <1>4, <1>14 DEF OneColumn

LEMMA ColumnsInitially ==
    ASSUME ColumnLayoutInit
    PROVE  ColumnsInv(columnList)
<1>1. PICK w \in WidthLists(MostColumns + 1, RawWidths) :
         \E at \in [Children -> DOMAIN w] :
            columnList = Migrated([i \in DOMAIN w |->
               [width |-> w[i], children |-> InOrder({b \in Children : at[b] = i})]])
  BY DEF ColumnLayoutInit
<1>2. PICK at \in [Children -> DOMAIN w] :
            columnList = Migrated([i \in DOMAIN w |->
               [width |-> w[i], children |-> InOrder({b \in Children : at[b] = i})]])
  BY <1>1
<1>3. PICK n \in 1..(MostColumns + 1) : w \in [1..n -> RawWidths]
  BY DEF WidthLists
<1>4. n \in Nat /\ n >= 1 /\ DOMAIN w = 1..n
  BY <1>3, LayoutNumbers
<1>5. PICK c : c = [i \in 1..n |-> [width |-> w[i], children |-> InOrder({b \in Children : at[b] = i})]]
  OBVIOUS
<1>6. ASSUME NEW i \in 1..n
      PROVE  /\ c[i] \in Column /\ Distinct(c[i].children)
             /\ Entries(c[i].children) = {b \in Children : at[b] = i}
  <2>1. PICK S : S = {b \in Children : at[b] = i}
    OBVIOUS
  <2>2. S \in SUBSET Children
    BY <2>1
  <2>3. InOrder(S) \in Seq(Children) /\ Distinct(InOrder(S)) /\ Entries(InOrder(S)) = S
    BY <2>2, InOrderOf
  <2>4. w[i] \in Int
    <3>1. w[i] \in RawWidths
      BY <1>3
    <3>2. \A x \in RawWidths : x \in Int
      BY ColumnLayoutAssumption
    <3> QED BY <3>1, <3>2
  <2>5. c[i] = [width |-> w[i], children |-> InOrder(S)]
    BY <1>5, <2>1
  <2> QED BY <2>1, <2>3, <2>4, <2>5 DEF Column
<1>7. c \in [1..n -> Column]
  BY <1>5, <1>6
<1>8. PICK s : s = ListsOf(c)
  OBVIOUS
<1>9. \A i \in 1..n : s[i] = c[i].children
  BY <1>4, <1>7, <1>8, WidthsAndLists
<1>10. Shared(s, n)
  <2>1. \A i \in 1..n : Distinct(s[i]) /\ Entries(s[i]) = {b \in Children : at[b] = i}
    BY <1>6, <1>9
  <2>2. ASSUME NEW b \in Children PROVE \E i \in 1..n : b \in Entries(s[i])
    <3>1. at[b] \in 1..n
      BY <1>4
    <3> QED BY <2>1, <3>1
  <2>3. \A i, j \in 1..n : i # j => Entries(s[i]) \cap Entries(s[j]) = {}
    BY <2>1
  <2> QED BY <2>1, <2>2, <2>3 DEF Shared
<1>11. Listed(ReadingOrder(c))
  BY <1>4, <1>7, <1>8, <1>10, PlacedAsLists, ListedIffPlaced
<1>12. ColumnsInv(Migrated(c))
  BY <1>4, <1>7, <1>11, MigratedKeeps
<1> QED BY <1>2, <1>4, <1>5, <1>12

-----------------------------------------------------------------------------
(* Every step. *)

ReadKept == Len(columnList') # Len(columnList) => ReadingOrder(columnList') = ReadingOrder(columnList)

LEMMA SetLayoutKeeps ==
    ASSUME ColumnsInv(columnList),
           NEW w \in WidthLists(MostColumns, RawWidths \ {0}), SetLayout(w)
    PROVE  ColumnsInv(columnList)' /\ ReadKept
<1>1. PICK n \in 1..MostColumns : columnList \in [1..n -> Column] /\ Listed(ReadingOrder(columnList))
  BY DEF ColumnsInv
<1>2. PICK count \in 1..MostColumns : w \in [1..count -> RawWidths \ {0}]
  BY DEF WidthLists
<1>3. w \in [1..count -> Int]
  <2>1. \A x \in RawWidths : x \in Int
    BY ColumnLayoutAssumption
  <2> QED BY <1>2, <2>1
<1>4. n \in Nat /\ n >= 1 /\ count \in Nat /\ Len(w) = count
  <2>1. n \in Nat /\ n >= 1 /\ count \in Nat
    BY LayoutNumbers
  <2> QED BY <1>3, <2>1, LengthOf
<1>5. PICK d : d = WithColumnCount(columnList, count, w)
  OBVIOUS
<1>6. columnList' = d
  BY <1>4, <1>5 DEF SetLayout
<1>7. ColumnsInv(d) /\ ReadingOrder(d) = ReadingOrder(columnList)
  BY <1>1, <1>3, <1>4, <1>5, ColumnCountKeeps
<1> QED BY <1>6, <1>7 DEF ColumnsInv, ReadKept

LEMMA ResizeToKeeps ==
    ASSUME ColumnsInv(columnList), NEW i \in DOMAIN columnList, NEW next \in 1..FullWidth,
           ResizeTo(i, next)
    PROVE  ColumnsInv(columnList)' /\ ReadKept
<1>1. PICK n \in 1..MostColumns : columnList \in [1..n -> Column] /\ Listed(ReadingOrder(columnList))
  BY DEF ColumnsInv
<1>2. n \in Nat /\ i \in 1..n /\ next \in Int
  BY <1>1, LayoutNumbers
<1>3. WidthsOf(columnList) \in [1..n -> Int]
  BY <1>1, <1>2, WidthsAndLists
<1>4. PICK w : w = ResizeColumn(WidthsOf(columnList), i, next)
  OBVIOUS
<1>5. w \in [1..n -> Int]
  BY <1>2, <1>3, <1>4, ResizedIn
<1>6. PICK d : d = WithWidths(columnList, NormalizeWidths(w))
  OBVIOUS
<1>7. columnList' = d
  BY <1>4, <1>6 DEF ResizeTo
<1>8. ColumnsInv(d)
  BY <1>1, <1>5, <1>6, NormalizedInv
<1>9. NormalizeWidths(w) \in [1..n -> Int]
  <2>1. NormalizeWidths(w) \in [1..n -> Nat]
    BY <1>5, NormalizedOf
  <2> QED BY <2>1
<1>10. ReadingOrder(d) = ReadingOrder(columnList)
  BY <1>1, <1>2, <1>6, <1>9, WithWidthsKeeps
<1> QED BY <1>7, <1>8, <1>10 DEF ColumnsInv, ReadKept

LEMMA DropColumnKeeps ==
    ASSUME ColumnsInv(columnList), NEW i \in DOMAIN columnList, DropColumn(i)
    PROVE  ColumnsInv(columnList)' /\ ReadKept
<1>1. PICK n \in 1..MostColumns : columnList \in [1..n -> Column] /\ Listed(ReadingOrder(columnList))
  BY DEF ColumnsInv
<1>2. n \in Nat /\ i \in 1..n /\ Len(columnList) = n
  <2>1. n \in Nat /\ i \in 1..n
    BY <1>1, LayoutNumbers
  <2> QED BY <1>1, <2>1, LengthOf
<1>3. n >= 2
  BY <1>2 DEF DropColumn
<1>4. PICK d : d = WithoutColumn(columnList, i)
  OBVIOUS
<1>5. columnList' = d
  BY <1>4 DEF DropColumn
<1>6. ColumnsInv(d) /\ ReadingOrder(d) = ReadingOrder(columnList)
  BY <1>1, <1>2, <1>3, <1>4, DroppedKeeps
<1> QED BY <1>5, <1>6 DEF ColumnsInv, ReadKept

LEMMA SwapColumnsKeeps ==
    ASSUME ColumnsInv(columnList), NEW i \in DOMAIN columnList, SwapColumns(i)
    PROVE  ColumnsInv(columnList)' /\ ReadKept
<1>1. PICK n \in 1..MostColumns :
         /\ columnList \in [1..n -> Column]
         /\ \A j \in 1..n : columnList[j].width >= MinWidth
         /\ SumFunctionOnSet(WidthsOf(columnList), 1..n) = FullWidth
         /\ Listed(ReadingOrder(columnList))
  BY DEF ColumnsInv
<1>2. i \in 1..n /\ i + 1 \in 1..n /\ n \in Nat
  BY <1>1, LayoutNumbers DEF SwapColumns
<1>3. PICK d : d = [columnList EXCEPT ![i] = columnList[i + 1], ![i + 1] = columnList[i]]
  OBVIOUS
<1>4. columnList' = d
  BY <1>3 DEF SwapColumns
<1>5. ColumnsInv(d)
  BY <1>1, <1>2, <1>3, SwappedKeeps
<1>6. Len(columnList) = n /\ Len(d) = n
  <2>1. d \in [1..n -> Column]
    BY <1>1, <1>2, <1>3
  <2> QED BY <1>1, <1>2, <2>1, LengthOf
<1> QED BY <1>4, <1>5, <1>6 DEF ColumnsInv, ReadKept

LEMMA PutBlockKeeps ==
    ASSUME ColumnsInv(columnList), NEW i \in DOMAIN columnList, NEW b \in Children,
           NEW position \in 1..(Cardinality(Children) + 1), PutBlock(b, i, position)
    PROVE  ColumnsInv(columnList)' /\ ReadKept
<1>1. PICK n \in 1..MostColumns :
         /\ columnList \in [1..n -> Column]
         /\ \A j \in 1..n : columnList[j].width >= MinWidth
         /\ SumFunctionOnSet(WidthsOf(columnList), 1..n) = FullWidth
         /\ Listed(ReadingOrder(columnList))
  BY DEF ColumnsInv
<1>2. i \in 1..n /\ n \in Nat /\ position \in Nat /\ position >= 1
  BY <1>1, LayoutNumbers
<1>3. PICK c : c = columnList
  OBVIOUS
<1>4. PICK out : out = PutOut(c, b)
  OBVIOUS
<1>5. PICK put : put = PutIn(out, b, i, position)
  OBVIOUS
<1>6. columnList' = put
  BY <1>3, <1>4, <1>5 DEF PutBlock, PutOut, PutIn
<1>7. ColumnsInv(put)
  BY <1>1, <1>2, <1>3, <1>4, <1>5, PutKeeps
<1>8. Len(columnList) = n /\ Len(put) = n
  <2>1. DOMAIN put = 1..n /\ put = [j \in DOMAIN put |-> put[j]]
    BY <1>1, <1>3, <1>4, <1>5 DEF PutOut, PutIn
  <2>2. put \in [1..n -> {put[j] : j \in 1..n}]
    BY <2>1
  <2> QED BY <1>1, <1>2, <2>2, LengthOf
<1> QED BY <1>6, <1>7, <1>8 DEF ColumnsInv, ReadKept

LEMMA ColumnsStep ==
    ASSUME ColumnsInv(columnList), [ColumnLayoutNext]_columnList
    PROVE  ColumnsInv(columnList)' /\ ReadKept
<1>1. CASE UNCHANGED columnList
  BY <1>1 DEF ColumnsInv, ReadKept
<1>2. CASE \E w \in WidthLists(MostColumns, RawWidths \ {0}) : SetLayout(w)
  BY <1>2, SetLayoutKeeps
<1>3. CASE \E i \in DOMAIN columnList :
          \/ \E next \in 1..FullWidth : ResizeTo(i, next)
          \/ DropColumn(i) \/ SwapColumns(i)
          \/ \E b \in Children, position \in 1..(Cardinality(Children) + 1) :
                PutBlock(b, i, position)
  <2>1. PICK i \in DOMAIN columnList :
          \/ \E next \in 1..FullWidth : ResizeTo(i, next)
          \/ DropColumn(i) \/ SwapColumns(i)
          \/ \E b \in Children, position \in 1..(Cardinality(Children) + 1) :
                PutBlock(b, i, position)
    BY <1>3
  <2>2. CASE \E next \in 1..FullWidth : ResizeTo(i, next)
    BY <2>2, ResizeToKeeps
  <2>3. CASE DropColumn(i)
    BY <2>3, DropColumnKeeps
  <2>4. CASE SwapColumns(i)
    BY <2>4, SwapColumnsKeeps
  <2>5. CASE \E b \in Children, position \in 1..(Cardinality(Children) + 1) :
                PutBlock(b, i, position)
    BY <2>5, PutBlockKeeps
  <2> QED BY <2>1, <2>2, <2>3, <2>4, <2>5
<1> QED BY <1>1, <1>2, <1>3 DEF ColumnLayoutNext

LEMMA ColumnsInvTypes ==
    ASSUME ColumnsInv(columnList)
    PROVE  ColumnLayoutTypeOK
<1>1. PICK n \in 1..MostColumns :
         /\ columnList \in [1..n -> Column]
         /\ \A j \in 1..n : columnList[j].width >= MinWidth
         /\ SumFunctionOnSet(WidthsOf(columnList), 1..n) = FullWidth
         /\ Listed(ReadingOrder(columnList))
  BY DEF ColumnsInv
<1>2. n \in Nat
  BY LayoutNumbers
<1>3. Len(columnList) = n /\ DOMAIN columnList = 1..n /\ WidthsOf(columnList) \in [1..n -> Int]
  BY <1>1, <1>2, WidthsAndLists
<1>4. SumFunction(WidthsOf(columnList)) = FullWidth
  <2>1. DOMAIN WidthsOf(columnList) = 1..n
    BY <1>3
  <2> QED BY <1>1, <2>1 DEF SumFunction
<1>5. /\ Len(ReadingOrder(columnList)) = Cardinality(Children)
      /\ ToSet(ReadingOrder(columnList)) = Children
  BY <1>1, ListedCounts
<1> QED BY <1>1, <1>3, <1>4, <1>5 DEF ColumnLayoutTypeOK

\* The columns of a container always fill it, each wide enough, and every block is in
\* them once.
THEOREM ColumnTypesHold == ColumnLayoutSpec => []ColumnLayoutTypeOK
<1>1. ColumnLayoutInit => ColumnsInv(columnList)
  BY ColumnsInitially
<1>2. ColumnsInv(columnList) /\ [ColumnLayoutNext]_columnList => ColumnsInv(columnList)'
  BY ColumnsStep
<1>3. ColumnsInv(columnList) => ColumnLayoutTypeOK
  BY ColumnsInvTypes
<1> QED BY <1>1, <1>2, <1>3, PTL DEF ColumnLayoutSpec

\* However the number of columns changes, the blocks are read in the order they had.
THEOREM OrderKept == ColumnLayoutSpec => ReadingOrderKept
<1>1. ColumnLayoutInit => ColumnsInv(columnList)
  BY ColumnsInitially
<1>2. ColumnsInv(columnList) /\ [ColumnLayoutNext]_columnList => ColumnsInv(columnList)'
  BY ColumnsStep
<1>3. ColumnsInv(columnList) /\ [ColumnLayoutNext]_columnList
        => [Len(columnList') # Len(columnList)
              => ReadingOrder(columnList') = ReadingOrder(columnList)]_columnList
  BY ColumnsStep DEF ReadKept
<1> QED BY <1>1, <1>2, <1>3, PTL DEF ColumnLayoutSpec, ReadingOrderKept
=============================================================================
