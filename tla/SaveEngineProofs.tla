-------------------------- MODULE SaveEngineProofs --------------------------
(***************************************************************************)
(* The save engine, for every number of changes, losses and 429 answers:   *)
(* whatever happens, one save at a time and no row too many; and while     *)
(* nobody edits during a save, nothing is lost and the screen tells the    *)
(* truth.                                                                  *)
(***************************************************************************)
EXTENDS SaveEngine, FiniteSetTheorems, TLAPS

Row == [doc : DocType, meta : Nat, live : BOOLEAN, mine : BOOLEAN]

Sent == [kind : {"save", "detach"}, id : Nat, doc : DocType, meta : Nat,
         answer : {"none", "ok", "refused", "limited"}, heard : BOOLEAN, after : Nat]

\* Requests there may be with so many rows and versions.
Plausible(requests, ids, versions) ==
    /\ requests \subseteq Sent /\ IsFiniteSet(requests)
    /\ \A r \in requests : r.id \in 0..ids /\ r.doc.v <= versions

\* The types, and that no version is ahead of the latest one.
EngineTypes ==
    /\ SaveEngineTypeOK
    /\ rows \in Seq(Row)
    /\ ~loaded => rows # <<>>
    /\ \A i \in DOMAIN rows : rows[i].doc.v <= fresh
    /\ Plausible(net, Len(rows), fresh)
    /\ fresh \in Nat /\ losses \in Nat /\ limits \in Nat
    /\ doc.v <= fresh

\* A save the tab awaits the answer of.
Awaited(r) == r.kind = "save" /\ r.heard

OneAwaited ==
    /\ \A r, s \in net : r.heard /\ s.heard /\ r.kind = s.kind => r = s
    /\ \A r \in net : r.heard => /\ r.kind = "save" => saving
                                 /\ r.kind = "detach" => detach = "sent"

\* The rows the tab made, and the requests that may still make one.
MyRows == {i \in DOMAIN rows : rows[i].mine}
Posts == {r \in net : r.kind = "save" /\ r.id = 0 /\ r.answer = "none"}

\* The tab knows of a row, will when an answer arrives, or posts no more.
NoMorePosts ==
    \/ signatureId > 0
    \/ tab # "open"
    \/ \E r \in net : Awaited(r) /\ (r.answer = "ok" \/ (r.id = 0 /\ r.answer = "none"))

\* One row or post for the tab, and one for each lost request.
Owed == Cardinality(MyRows) + Cardinality(Posts) <= losses + (IF NoMorePosts THEN 1 ELSE 0)

RowsOwed ==
    /\ ~loaded => signatureId = 1 /\ MyRows = {} /\ \A r \in net : r.id = 1
    /\ link # "free" => signatureId > 0 /\ rows[1].live
    /\ detach # "no" => link # "free"
    /\ \A r \in net : /\ r.answer = "ok" => r.id > 0
                      /\ r.kind = "detach" => r.id > 0 /\ link # "free"
    /\ Owed

-----------------------------------------------------------------------------
\* Nothing happens too early, nothing is edited while a request is under way, no
\* lost request is run later, and every stored design can be read.
Patient ==
    /\ Events \cap {"early", "loadError", "overlap", "assets", "straggler"} = {}
    /\ "unusable" \notin Openings

\* A tab that has not loaded its row has done nothing.
AtRest ==
    net = {} /\ ~timer /\ ~isDirty /\ ~edited /\ meta = 0 /\ detach = "no"

\* What is under way is what the canvas shows, unclean or clean.
CarriesCanvas ==
    \A r \in net : /\ doc \in {r.doc, Clean(r.doc)} /\ meta = r.meta
                   /\ r.answer = "ok" => /\ rows[r.id].doc = Clean(r.doc)
                                         /\ rows[r.id].meta = r.meta

Orderly ==
    /\ ~loaded => AtRest
    /\ doc.kind # "unusable"
    /\ \A i \in DOMAIN rows : rows[i].doc.kind \in {"empty", "plain"}
    /\ \A r \in net : r.heard <=> tab = "open"
    /\ CarriesCanvas
    /\ link # "free" => signatureId = 1 /\ \A r \in net : r.id = 1

\* What isDirty and lastError say of the canvas and the row.
StatusIsTrue ==
    /\ tab # "discarded" /\ ~isDirty => ~LostDesign /\ ~LostMeta
    /\ tab = "closed" => ~isDirty
    /\ tab = "open" /\ loaded /\ signatureId > 0 /\ ~isDirty /\ ~lastError
          => rows[signatureId].doc = doc /\ rows[signatureId].meta = meta

-----------------------------------------------------------------------------
(* The types. *)

\* What the sanitiser does to a document.
LEMMA CleanDocs ==
    ASSUME NEW d \in DocType
    PROVE  /\ Clean(d) \in DocType /\ Clean(d).v = d.v
           /\ Clean(d).kind # "unclean" /\ Clean(Clean(d)) = Clean(d)
           /\ d.kind # "unclean" => Clean(d) = d
           /\ d.kind \in {"empty", "plain"} => Clean(d) = d
           /\ (d.kind = "empty" <=> Clean(d).kind = "empty")
BY DEF Clean, DocType

LEMMA PlausibleRequest ==
    ASSUME EngineTypes, NEW k \in {"save", "detach"}
    PROVE  Plausible({Request(k)}, Len(rows), fresh)
<1>1. Request(k) \in Sent
  BY DEF EngineTypes, SaveEngineTypeOK, Request, Sent
<1>2. Request(k).id \in 0..Len(rows) /\ Request(k).doc.v <= fresh
  BY DEF EngineTypes, SaveEngineTypeOK, Request
<1> QED BY <1>1, <1>2, FS_Singleton DEF Plausible

LEMMA PlausibleNet ==
    ASSUME NEW N, NEW n, NEW f, Plausible(N, n, f)
    PROVE  \A r \in N : r.id \in 0..n /\ r.doc \in DocType
BY DEF Plausible, Sent

LEMMA PlausibleUnion ==
    ASSUME NEW N, NEW M, NEW n \in Nat, NEW f \in Nat,
           Plausible(N, n, f), Plausible(M, n, f)
    PROVE  Plausible(N \cup M, n, f)
BY FS_Union DEF Plausible

LEMMA PlausibleSubset ==
    ASSUME NEW N, NEW M \in SUBSET N, NEW n \in Nat, NEW f \in Nat, Plausible(N, n, f)
    PROVE  Plausible(M, n, f)
BY FS_Subset DEF Plausible

LEMMA PlausibleLater ==
    ASSUME NEW N, NEW n \in Nat, NEW f \in Nat, Plausible(N, n, f),
           NEW m \in Nat, NEW g \in Nat, n <= m, f <= g
    PROVE  Plausible(N, m, g)
<1>1. \A r \in N : r.id \in 0..m
  BY DEF Plausible
<1>2. \A r \in N : r.doc.v <= g
  BY DEF Plausible, Sent, DocType
<1> QED BY <1>1, <1>2 DEF Plausible

\* SaveNow, whatever it does.
LEMMA SaveNowTypes ==
    ASSUME EngineTypes, SaveNow
    PROVE  /\ timer' = FALSE /\ saving' \in BOOLEAN /\ isSaving' \in BOOLEAN
           /\ net' = net \/ net' = net \cup {Request("save")}
           /\ Plausible(net', Len(rows), fresh)
<1>1. /\ timer' = FALSE /\ saving' \in BOOLEAN /\ isSaving' \in BOOLEAN
      /\ net' = net \/ net' = net \cup {Request("save")}
  BY DEF SaveNow, RunSave, EngineTypes, SaveEngineTypeOK
<1>2. Len(rows) \in Nat /\ fresh \in Nat /\ Plausible(net, Len(rows), fresh)
  BY DEF EngineTypes
<1>3. Plausible({Request("save")}, Len(rows), fresh)
  BY PlausibleRequest
<1> QED BY <1>1, <1>2, <1>3, PlausibleUnion

LEMMA WatchTypes ==
    ASSUME EngineTypes, Watch
    PROVE  isDirty' \in BOOLEAN /\ lastError' \in BOOLEAN /\ timer' \in BOOLEAN
BY DEF Watch, EngineTypes, SaveEngineTypeOK

LEMMA LoadTypes == EngineTypes /\ Loads => EngineTypes'
<1> SUFFICES ASSUME EngineTypes, Loads PROVE EngineTypes'
  OBVIOUS
<1>1. Watch
  BY DEF Loads, LoadSucceeds, LoadNotFound, LoadFails
<1>2. isDirty' \in BOOLEAN /\ lastError' \in BOOLEAN /\ timer' \in BOOLEAN
  BY <1>1, WatchTypes
<1>3. doc' \in DocType /\ doc'.v <= fresh /\ meta' \in Nat /\ edited' \in BOOLEAN
  <2>1. CASE LoadSucceeds
    <3>1. rows[1] \in Row /\ rows[1].doc.v <= fresh
      BY <2>1 DEF EngineTypes, LoadSucceeds
    <3> QED BY <2>1, <3>1 DEF LoadSucceeds, EngineTypes, SaveEngineTypeOK, Row
  <2>2. CASE LoadNotFound \/ LoadFails
    BY <2>2 DEF LoadNotFound, LoadFails, EngineTypes, SaveEngineTypeOK
  <2> QED BY <2>1, <2>2 DEF Loads
<1>4. signatureId' \in 0..Len(rows)
  BY DEF Loads, LoadSucceeds, LoadNotFound, LoadFails, EngineTypes, SaveEngineTypeOK
<1>5. /\ loaded' = TRUE
      /\ UNCHANGED <<tab, isSaving, saving, paused, waiting, world, bounds>>
  BY DEF Loads, LoadSucceeds, LoadNotFound, LoadFails
<1> QED BY <1>2, <1>3, <1>4, <1>5 DEF EngineTypes, SaveEngineTypeOK, waiting, world, bounds

LEMMA ChangeTypes ==
    ASSUME EngineTypes, (\E kind \in EditKinds : Edit(kind)) \/ ChangeMeta
    PROVE  EngineTypes'
<1>1. /\ fresh' = fresh + 1
      /\ isDirty' \in BOOLEAN /\ lastError' \in BOOLEAN /\ timer' \in BOOLEAN
  BY WatchTypes DEF Edit, ChangeMeta, Change, EngineTypes, SaveEngineTypeOK, engine
<1>2. /\ fresh \in Nat /\ fresh' \in Nat /\ fresh <= fresh' /\ Len(rows) \in Nat
      /\ Plausible(net, Len(rows), fresh')
  BY <1>1, PlausibleLater DEF EngineTypes
<1>3. doc' \in DocType /\ doc'.v <= fresh' /\ meta' \in Nat /\ edited' \in BOOLEAN
  <2>1. CASE ChangeMeta
    BY <1>2, <2>1 DEF ChangeMeta, EngineTypes, SaveEngineTypeOK, DocType
  <2>2. ASSUME NEW kind \in EditKinds, Edit(kind)
        PROVE  doc' \in DocType /\ doc'.v <= fresh' /\ meta' = meta /\ edited' = TRUE
    <3>1. doc' = [v |-> fresh', kind |-> kind] /\ kind \in {"empty", "plain", "unclean"}
      BY <2>2, SaveEngineAssumption DEF Edit
    <3> QED BY <1>2, <2>2, <3>1 DEF Edit, DocType
  <2> QED BY <2>1, <2>2 DEF EngineTypes, SaveEngineTypeOK
<1>4. \A i \in DOMAIN rows : rows[i].doc.v <= fresh'
  <2> SUFFICES ASSUME NEW i \in DOMAIN rows PROVE rows[i].doc.v <= fresh'
    OBVIOUS
  <2>1. rows[i] \in Row /\ rows[i].doc.v <= fresh
    BY DEF EngineTypes
  <2> QED BY <1>2, <2>1 DEF Row, DocType
<1>5. UNCHANGED <<tab, loaded, isSaving, signatureId, saving, paused, waiting, world, losses, limits>>
  BY DEF Edit, ChangeMeta, engine
<1> QED BY <1>1, <1>2, <1>3, <1>4, <1>5 DEF EngineTypes, SaveEngineTypeOK, waiting, world

LEMMA SavingTypes ==
    ASSUME EngineTypes, AutosaveFires \/ ManualSave \/ BackArrow \/ DetachStarts
    PROVE  EngineTypes'
<1>1. /\ timer' \in BOOLEAN /\ saving' \in BOOLEAN /\ isSaving' \in BOOLEAN
      /\ Plausible(net', Len(rows), fresh)
  <2>1. CASE SaveNow
    BY <2>1, SaveNowTypes
  <2>2. CASE UNCHANGED <<timer, net, saving, isSaving>>
    BY <2>2 DEF EngineTypes, SaveEngineTypeOK
  <2> QED BY <2>1, <2>2 DEF AutosaveFires, ManualSave, BackArrow, DetachStarts
<1>2. /\ leaving' \in BOOLEAN /\ detach' \in {"no", "flushing", "sent"}
      /\ UNCHANGED <<tab, loaded, canvas, isDirty, lastError, signatureId, paused, link, rows, bounds>>
  BY DEF AutosaveFires, ManualSave, BackArrow, DetachStarts, EngineTypes, SaveEngineTypeOK, waiting
<1> QED BY <1>1, <1>2, PlausibleNet DEF EngineTypes, SaveEngineTypeOK, canvas, bounds

LEMMA UnloadTypes ==
    ASSUME EngineTypes, NEW how \in {"closed", "discarded"}, Unload(how)
    PROVE  /\ tab' = how /\ timer' = FALSE /\ leaving' = FALSE /\ detach' = "no" /\ saving' = FALSE
           /\ Plausible(net', Len(rows), fresh)
<1>1. IsFiniteSet(net')
  <2> DEFINE unheard == [r \in net |-> [r EXCEPT !.heard = FALSE]]
  <2>1. unheard \in Surjection(net, net')
    BY DEF Unload, Surjection
  <2> QED BY <2>1, FS_Surjection DEF EngineTypes, Plausible
<1>2. \A r \in net' : r \in Sent /\ r.id \in 0..Len(rows) /\ r.doc.v <= fresh
  BY DEF Unload, EngineTypes, Plausible, Sent
<1> QED BY <1>1, <1>2 DEF Unload, Plausible

LEMMA LeavingTypes ==
    ASSUME EngineTypes, Navigates \/ CloseTab
    PROVE  EngineTypes'
<1>1. /\ tab' \in {"open", "closed", "discarded"} /\ timer' \in BOOLEAN
      /\ leaving' \in BOOLEAN /\ saving' \in BOOLEAN
      /\ detach' \in {"no", "flushing", "sent"}
      /\ Plausible(net', Len(rows), fresh)
  <2>1. CASE \E how \in {"closed", "discarded"} : Unload(how)
    BY <2>1, UnloadTypes
  <2>2. CASE leaving' = FALSE /\ UNCHANGED <<tab, timer, detach, saving, net>>
    BY <2>2 DEF EngineTypes, SaveEngineTypeOK
  <2> QED BY <2>1, <2>2 DEF Navigates, CloseTab
<1>2. UNCHANGED <<loaded, canvas, status, signatureId, paused, link, rows, bounds>>
  BY DEF Navigates, CloseTab
<1> QED BY <1>1, <1>2, PlausibleNet DEF EngineTypes, SaveEngineTypeOK, canvas, status, bounds

LEMMA RestTypes ==
    ASSUME EngineTypes, PauseEnds \/ DetachSends
    PROVE  EngineTypes'
<1>1. Plausible(net', Len(rows), fresh)
  <2>1. Plausible({Request("detach")}, Len(rows), fresh)
    BY PlausibleRequest
  <2> QED BY <2>1, PlausibleUnion DEF PauseEnds, DetachSends, EngineTypes, world
<1>2. /\ paused' \in BOOLEAN /\ detach' \in {"no", "flushing", "sent"}
      /\ UNCHANGED <<tab, loaded, canvas, status, signatureId, saving, timer, link, leaving, rows, bounds>>
  BY DEF PauseEnds, DetachSends, EngineTypes, SaveEngineTypeOK, engine, waiting, world
<1> QED BY <1>1, <1>2, PlausibleNet DEF EngineTypes, SaveEngineTypeOK, canvas, status, bounds

\* What the server does with a request that is answered, heard or not.
LEMMA AnswerTypes ==
    ASSUME EngineTypes, NEW r \in net, NEW answer \in {"ok", "refused", "limited"},
           NEW n \in Nat, Len(rows) <= n, NEW id \in 0..n,
           net' = IF r.heard THEN (net \ {r}) \cup {[r EXCEPT !.answer = answer, !.id = id]}
                  ELSE net \ {r}
    PROVE  Plausible(net', n, fresh)
<1> DEFINE s == [r EXCEPT !.answer = answer, !.id = id]
<1>1. Plausible(net, n, fresh) /\ n \in Nat /\ fresh \in Nat
  BY PlausibleLater DEF EngineTypes
<1>2. Plausible({s}, n, fresh)
  <2>1. s \in Sent /\ s.id = id /\ s.doc = r.doc
    <3>1. r \in Sent /\ id \in Nat
      BY DEF EngineTypes, Plausible
    <3> QED BY <3>1 DEF Sent
  <2> HIDE DEF s
  <2> QED BY <2>1, FS_Singleton DEF EngineTypes, Plausible
<1>3. Plausible(net \ {r}, n, fresh)
  BY <1>1, PlausibleSubset
<1>4. net' = net \ {r} \/ net' = (net \ {r}) \cup {s}
  OBVIOUS
<1> HIDE DEF s
<1> QED BY <1>1, <1>2, <1>3, <1>4, PlausibleUnion

\* What a stored row is, and where.
LEMMA StoredRow ==
    ASSUME EngineTypes, NEW r \in net, Stores(r),
           NEW id, id = IF r.id = 0 THEN Len(rows) + 1 ELSE r.id
    PROVE  /\ id \in 1..Len(rows') /\ Len(rows) \in Nat
           /\ Len(rows') = IF r.id = 0 THEN Len(rows) + 1 ELSE Len(rows)
           /\ rows' \in Seq(Row)
           /\ rows'[id] = [doc |-> Clean(r.doc), meta |-> r.meta, live |-> TRUE,
                           mine |-> r.id = 0 \/ rows[r.id].mine]
           /\ \A i \in 1..Len(rows) : i # id => rows'[i] = rows[i]
<1>1. /\ r \in Sent /\ r.id \in 0..Len(rows) /\ rows \in Seq(Row) /\ Len(rows) \in Nat
      /\ Clean(r.doc) \in DocType /\ r.meta \in Nat
  BY CleanDocs DEF EngineTypes, Plausible, Sent
<1> DEFINE stored == [doc |-> Clean(r.doc), meta |-> r.meta, live |-> TRUE,
                      mine |-> r.id = 0 \/ rows[r.id].mine]
<1>2. rows' = IF r.id = 0 THEN Append(rows, stored) ELSE [rows EXCEPT ![r.id] = stored]
  BY DEF Stores
<1>3. stored \in Row
  <2>1. (r.id = 0 \/ rows[r.id].mine) \in BOOLEAN
    BY <1>1 DEF Row
  <2> QED BY <1>1, <2>1 DEF Row
<1> HIDE DEF stored
<1>4. CASE r.id = 0
  <2>1. rows' = Append(rows, stored)
    BY <1>2, <1>4
  <2> QED BY <1>1, <1>3, <1>4, <2>1 DEF stored
<1>5. CASE r.id # 0
  <2>1. rows' = [rows EXCEPT ![r.id] = stored] /\ r.id \in DOMAIN rows
    BY <1>1, <1>2, <1>5
  <2> QED BY <1>1, <1>3, <1>5, <2>1 DEF stored
<1> QED BY <1>4, <1>5

LEMMA ServerTypes == EngineTypes /\ Server => EngineTypes'
<1> SUFFICES ASSUME EngineTypes, NEW r \in net, Stores(r) \/ Refuses(r) \/ Limits(r)
             PROVE  EngineTypes'
  BY DEF Server
<1>1. CASE Stores(r)
  <2> DEFINE id == IF r.id = 0 THEN Len(rows) + 1 ELSE r.id
  <2> HIDE DEF id
  <2>1. /\ id \in 1..Len(rows') /\ Len(rows) \in Nat /\ rows' \in Seq(Row)
        /\ Len(rows) <= Len(rows') /\ Len(rows') \in Nat
        /\ rows'[id].doc = Clean(r.doc)
        /\ \A i \in 1..Len(rows) : i # id => rows'[i] = rows[i]
        /\ \A i \in 1..Len(rows') : i # id => i \in 1..Len(rows)
    <3>1. id = IF r.id = 0 THEN Len(rows) + 1 ELSE r.id
      BY DEF id
    <3>2. /\ id \in 1..Len(rows') /\ Len(rows) \in Nat
          /\ Len(rows') = IF r.id = 0 THEN Len(rows) + 1 ELSE Len(rows)
          /\ rows' \in Seq(Row)
          /\ rows'[id] = [doc |-> Clean(r.doc), meta |-> r.meta, live |-> TRUE,
                          mine |-> r.id = 0 \/ rows[r.id].mine]
          /\ \A i \in 1..Len(rows) : i # id => rows'[i] = rows[i]
      BY ONLY <1>1, <3>1, EngineTypes, StoredRow
    <3> QED BY <3>1, <3>2
  <2>2. net' = IF r.heard THEN (net \ {r}) \cup {[r EXCEPT !.answer = "ok", !.id = id]}
               ELSE net \ {r}
    BY <1>1 DEF Stores, id
  <2>3. UNCHANGED <<client, bounds>>
    BY <1>1 DEF Stores
  <2>4. Plausible(net', Len(rows'), fresh)
    <3>1. id \in 0..Len(rows') /\ "ok" \in {"ok", "refused", "limited"}
      BY <2>1
    <3> QED BY <2>1, <2>2, <3>1, AnswerTypes
  <2>5. Clean(r.doc).v <= fresh
    BY CleanDocs DEF EngineTypes, Plausible, Sent
  <2>6. \A i \in DOMAIN rows' : rows'[i].doc.v <= fresh
    <3>1. DOMAIN rows' = 1..Len(rows') /\ DOMAIN rows = 1..Len(rows)
      BY <2>1 DEF EngineTypes
    <3> QED BY <2>1, <2>5, <3>1 DEF EngineTypes
  <2>7. signatureId \in 0..Len(rows')
    BY <2>1 DEF EngineTypes, SaveEngineTypeOK
  <2>8. \A i \in DOMAIN rows' : rows'[i] \in Row
    BY <2>1
  <2>9. rows' # <<>>
    BY <2>1
  <2> QED BY <2>1, <2>3, <2>4, <2>6, <2>7, <2>8, <2>9, PlausibleNet
          DEF EngineTypes, SaveEngineTypeOK, client, canvas, status, engine, waiting, bounds, Row
<1>2. CASE Refuses(r) \/ Limits(r)
  <2>1. PICK answer \in {"refused", "limited"} : Answers(r, answer)
    BY <1>2 DEF Refuses, Limits
  <2>2. r.id \in 0..Len(rows) /\ r = [r EXCEPT !.id = r.id] /\ Len(rows) \in Nat
    BY DEF EngineTypes, Plausible, Sent
  <2>3. [r EXCEPT !.answer = answer] = [r EXCEPT !.answer = answer, !.id = r.id]
    BY DEF EngineTypes, Plausible, Sent
  <2>4. Plausible(net', Len(rows), fresh)
    <3>1. net' = IF r.heard
                 THEN (net \ {r}) \cup {[r EXCEPT !.answer = answer, !.id = r.id]}
                 ELSE net \ {r}
      BY <2>1, <2>3 DEF Answers
    <3>2. answer \in {"ok", "refused", "limited"} /\ Len(rows) <= Len(rows)
      BY <2>2
    <3> QED BY <2>2, <3>1, <3>2, AnswerTypes
  <2>5. /\ limits' \in Nat
        /\ UNCHANGED <<client, rows, fresh, losses>>
    BY <1>2 DEF Refuses, Limits, EngineTypes, bounds
  <2> QED BY <2>4, <2>5, PlausibleNet
          DEF EngineTypes, SaveEngineTypeOK, client, canvas, status, engine, waiting
<1> QED BY <1>1, <1>2

LEMMA HearsTypes == EngineTypes /\ Hears => EngineTypes'
<1> SUFFICES ASSUME EngineTypes, NEW r \in net,
                    \/ Saved(r) \/ SaveLimited(r) \/ SaveRefused(r) \/ SaveLost(r)
                    \/ Detached(r) \/ DetachFails(r)
             PROVE  EngineTypes'
  BY DEF Hears
<1>1. /\ r \in Sent /\ r.id \in 0..Len(rows) /\ r.doc \in DocType /\ r.doc.v <= fresh
      /\ Clean(r.doc) \in DocType /\ Clean(r.doc).v <= fresh
  BY CleanDocs DEF EngineTypes, Plausible, Sent
<1>2. Plausible(net', Len(rows), fresh)
  <2>1. Plausible({[r EXCEPT !.heard = FALSE]}, Len(rows), fresh)
    <3>1. [r EXCEPT !.heard = FALSE] \in Sent
      BY <1>1 DEF Sent
    <3> QED BY <1>1, <3>1, FS_Singleton DEF Plausible, Sent
  <2>2. Plausible(net \ {r}, Len(rows), fresh) /\ Len(rows) \in Nat /\ fresh \in Nat
    BY PlausibleSubset DEF EngineTypes
  <2>3. \/ net' = net \ {r}
        \/ net' = (net \ {r}) \cup {[r EXCEPT !.heard = FALSE]}
    BY DEF Saved, SaveLimited, SaveRefused, SaveLost, Detached, DetachFails, Hear, Drop
  <2> QED BY <2>1, <2>2, <2>3, PlausibleUnion
<1>3. losses' \in Nat
  BY DEF Saved, SaveLimited, SaveRefused, SaveLost, Detached, DetachFails, Drop, bounds, EngineTypes
<1>4. UNCHANGED <<tab, loaded, meta, leaving, rows, fresh, limits>>
  BY DEF Saved, SaveLimited, SaveRefused, SaveLost, SaveError, Detached, DetachFails, bounds,
         canvas, waiting
<1>5. /\ doc' \in DocType /\ doc'.v <= fresh /\ edited' \in BOOLEAN
      /\ signatureId' \in 0..Len(rows)
  BY <1>1 DEF Saved, SaveLimited, SaveRefused, SaveLost, SaveError, Detached, DetachFails,
              canvas, engine, EngineTypes, SaveEngineTypeOK
<1>6. isDirty' \in BOOLEAN /\ isSaving' \in BOOLEAN /\ lastError' \in BOOLEAN
  BY DEF Saved, SaveLimited, SaveRefused, SaveLost, SaveError, Detached, DetachFails,
         MarkSaved, status, EngineTypes, SaveEngineTypeOK
<1>7. saving' \in BOOLEAN /\ timer' \in BOOLEAN /\ paused' \in BOOLEAN
  BY DEF Saved, SaveLimited, SaveRefused, SaveLost, SaveError, Detached, DetachFails,
         engine, EngineTypes, SaveEngineTypeOK
<1>8. link' \in {"free", "linked", "detached"} /\ detach' \in {"no", "flushing", "sent"}
  BY DEF Saved, SaveLimited, SaveRefused, SaveLost, SaveError, Detached, DetachFails,
         waiting, EngineTypes, SaveEngineTypeOK
<1> QED BY <1>2, <1>3, <1>4, <1>5, <1>6, <1>7, <1>8, PlausibleNet DEF EngineTypes, SaveEngineTypeOK

LEMMA InitTypes == Init => EngineTypes
<1> SUFFICES ASSUME Init PROVE EngineTypes
  OBVIOUS
<1>1. PICK o \in {"new", "existing", "gone", "unusable"} :
        /\ rows = OpenedRows[o] /\ loaded = (o = "new")
        /\ signatureId = IF o = "new" THEN 0 ELSE 1
  BY SaveEngineAssumption DEF Init, AllOpenings
<1>2. /\ rows \in Seq(Row) /\ \A i \in DOMAIN rows : rows[i] \in Row /\ rows[i].doc.v <= 1
      /\ signatureId \in 0..Len(rows)
      /\ ~loaded => rows # <<>>
  <2>1. CASE o = "new"
    <3>1. OpenedRows["new"] = <<>>
      BY DEF OpenedRows
    <3>2. rows = <<>> /\ signatureId = 0 /\ loaded
      BY <1>1, <2>1, <3>1
    <3> QED BY <3>2
  <2>2. CASE o # "new"
    <3> DEFINE row(kind, live) ==
                 [doc |-> [v |-> 1, kind |-> kind], meta |-> 1, live |-> live, mine |-> FALSE]
    <3>1. /\ OpenedRows["existing"] = << row("plain", TRUE) >>
          /\ OpenedRows["gone"] = << row("plain", FALSE) >>
          /\ OpenedRows["unusable"] = << row("unusable", TRUE) >>
      <4>1. [Opened EXCEPT !.kind = "unusable"] = [v |-> 1, kind |-> "unusable"]
        BY DEF Opened
      <4> QED BY <4>1 DEF OpenedRows, Opened
    <3>2. \A kind \in {"plain", "unusable"}, live \in BOOLEAN :
             row(kind, live) \in Row /\ row(kind, live).doc.v = 1
      BY DEF Row, DocType
    <3>3. PICK kind \in {"plain", "unusable"}, live \in BOOLEAN : rows = << row(kind, live) >>
      BY <1>1, <2>2, <3>1
    <3> HIDE DEF row
    <3>4. rows \in Seq(Row) /\ Len(rows) = 1 /\ DOMAIN rows = {1} /\ rows[1] = row(kind, live)
      BY <3>2, <3>3
    <3> QED BY <1>1, <2>2, <3>2, <3>4
  <2> QED BY <2>1, <2>2
<1>3. doc \in DocType /\ doc.v <= fresh /\ fresh = 1
  BY DEF Init, Blank, DocType
<1>4. Plausible(net, Len(rows), fresh)
  BY FS_EmptySet DEF Init, Plausible
<1>5. /\ link \in {"free", "linked", "detached"} /\ detach = "no"
      /\ tab = "open" /\ meta = 0 /\ losses = 0 /\ limits = 0
  BY <1>1 DEF Init
<1>6. /\ loaded \in BOOLEAN
      /\ edited = FALSE /\ isDirty = FALSE /\ isSaving = FALSE /\ lastError = FALSE
      /\ saving = FALSE /\ timer = FALSE /\ paused = FALSE /\ leaving = FALSE
  BY <1>1 DEF Init
<1>7. SaveEngineTypeOK
  BY <1>2, <1>3, <1>4, <1>5, <1>6, PlausibleNet DEF SaveEngineTypeOK, Row
<1> QED BY <1>2, <1>3, <1>4, <1>5, <1>7 DEF EngineTypes

LEMMA TypesStep == EngineTypes /\ [Next]_vars => EngineTypes'
<1> SUFFICES ASSUME EngineTypes, [Next]_vars PROVE EngineTypes'
  OBVIOUS
<1>1. CASE UNCHANGED vars
  BY <1>1 DEF vars, client, canvas, status, engine, waiting, EngineTypes, SaveEngineTypeOK, Plausible
<1>2. CASE Next
  BY <1>2, LoadTypes, ChangeTypes, SavingTypes, LeavingTypes, RestTypes, ServerTypes,
     HearsTypes DEF Next
<1> QED BY <1>1, <1>2

\* Whatever happens in the tab, on the way and on the server, every variable keeps its
\* type, and no request names a row that does not exist.
THEOREM TypesHold == Spec => []SaveEngineTypeOK
<1>1. EngineTypes => SaveEngineTypeOK
  BY DEF EngineTypes
<1> QED BY <1>1, InitTypes, TypesStep, PTL DEF Spec

-----------------------------------------------------------------------------
(* One save at a time. *)

LEMMA SaveNowAwaited ==
    ASSUME EngineTypes, OneAwaited, SaveNow, detach' = detach \/ detach # "sent"
    PROVE  OneAwaited'
<1>1. CASE net' = net /\ saving' = saving
  BY <1>1 DEF OneAwaited
<1>2. CASE /\ ~saving /\ saving' = TRUE
           /\ net' = net \cup {Request("save")}
  <2>1. \A r \in net : ~Awaited(r)
    BY <1>2 DEF OneAwaited, Awaited
  <2>2. Request("save").kind = "save"
    BY DEF Request
  <2> QED BY <1>2, <2>1, <2>2 DEF OneAwaited, Awaited
<1> QED BY <1>1, <1>2 DEF SaveNow, RunSave

LEMMA AwaitedStep == EngineTypes /\ OneAwaited /\ [Next]_vars => OneAwaited'
<1> SUFFICES ASSUME EngineTypes, OneAwaited, [Next]_vars PROVE OneAwaited'
  OBVIOUS
<1>1. CASE net' = net /\ saving' = saving /\ (detach' = detach \/ detach # "sent")
  BY <1>1 DEF OneAwaited
<1>2. CASE \/ UNCHANGED vars \/ Loads \/ ChangeMeta \/ PauseEnds
           \/ \E kind \in EditKinds : Edit(kind)
  BY <1>1, <1>2 DEF vars, client, engine, waiting, Loads, LoadSucceeds, LoadNotFound, LoadFails,
                    ChangeMeta, PauseEnds, Edit, world
<1>3. CASE AutosaveFires \/ ManualSave \/ BackArrow \/ DetachStarts
  <2>1. detach' = detach \/ detach # "sent"
    BY <1>3 DEF AutosaveFires, ManualSave, BackArrow, DetachStarts, waiting
  <2>2. CASE SaveNow
    BY <2>1, <2>2, SaveNowAwaited
  <2>3. CASE UNCHANGED <<timer, net, saving, isSaving>>
    BY <1>1, <2>1, <2>3
  <2> QED BY <1>3, <2>2, <2>3 DEF AutosaveFires, ManualSave, BackArrow, DetachStarts
<1>4. CASE Navigates \/ CloseTab
  <2>1. CASE \E how \in {"closed", "discarded"} : Unload(how)
    <3>1. \A r \in net : ~[r EXCEPT !.heard = FALSE].heard
      BY DEF EngineTypes, Plausible, Sent
    <3> QED BY <2>1, <3>1 DEF Unload, OneAwaited
  <2>2. CASE UNCHANGED <<detach, saving, net>>
    BY <1>1, <2>2
  <2> QED BY <1>4, <2>1, <2>2 DEF Navigates, CloseTab
<1>5. CASE DetachSends
  <2>1. /\ net' = net \cup {Request("detach")} /\ saving' = saving
        /\ detach = "flushing" /\ detach' = "sent"
    BY <1>5 DEF DetachSends, engine
  <2>2. Request("detach").kind = "detach"
    BY DEF Request
  <2> QED BY <2>1, <2>2 DEF OneAwaited
<1>6. CASE Server
  <2> SUFFICES ASSUME NEW r \in net, Stores(r) \/ Refuses(r) \/ Limits(r)
               PROVE  OneAwaited'
    BY <1>6 DEF Server
  <2>1. saving' = saving /\ detach' = detach
    BY DEF Stores, Refuses, Limits, client, engine, waiting
  <2>2. PICK s : /\ s.kind = r.kind /\ s.heard = r.heard
                 /\ net' = net \ {r} \/ net' = (net \ {r}) \cup {s}
    <3>1. \A a, i : /\ [r EXCEPT !.answer = a, !.id = i].kind = r.kind
                    /\ [r EXCEPT !.answer = a, !.id = i].heard = r.heard
                    /\ [r EXCEPT !.answer = a].kind = r.kind
                    /\ [r EXCEPT !.answer = a].heard = r.heard
      BY DEF EngineTypes, Plausible, Sent
    <3>2. CASE net' = net \ {r}
      BY <3>2
    <3>3. CASE \E a, i : net' = (net \ {r}) \cup {[r EXCEPT !.answer = a, !.id = i]}
      BY <3>1, <3>3
    <3>4. CASE \E a : net' = (net \ {r}) \cup {[r EXCEPT !.answer = a]}
      BY <3>1, <3>4
    <3> QED BY <3>2, <3>3, <3>4 DEF Stores, Refuses, Limits, Answers
  <2> QED BY <2>1, <2>2 DEF OneAwaited
<1>7. CASE Hears
  <2> SUFFICES ASSUME NEW r \in net, \/ Saved(r) \/ SaveLimited(r) \/ SaveRefused(r) \/ SaveLost(r)
                                     \/ Detached(r) \/ DetachFails(r)
               PROVE  OneAwaited'
    BY <1>7 DEF Hears
  <2>1. r.heard /\ \A s \in net' : s.heard => s \in net /\ s # r
    BY DEF Saved, SaveLimited, SaveRefused, SaveLost, Detached, DetachFails, Hear, Drop,
           EngineTypes, Plausible, Sent
  <2>2. CASE r.kind = "save" /\ detach' = detach
    BY <2>1, <2>2 DEF OneAwaited, EngineTypes, Plausible, Sent
  <2>3. CASE r.kind = "detach" /\ saving' = saving
    BY <2>1, <2>3 DEF OneAwaited, EngineTypes, Plausible, Sent
  <2> QED BY <2>2, <2>3 DEF Saved, SaveLimited, SaveRefused, SaveLost, SaveError, Detached, DetachFails,
             Hear, engine, waiting
<1> QED BY <1>2, <1>3, <1>4, <1>5, <1>6, <1>7 DEF Next

\* The tab never waits for two saves, however the user, the timer and the back arrow
\* ask for them and whatever becomes of the requests (saveNow(), inFlight).
THEOREM OneSave == Spec => []OneSaveAtATime
<1>1. Init => OneAwaited
  BY DEF Init, OneAwaited
<1>2. EngineTypes /\ OneAwaited => OneSaveAtATime
  <2> SUFFICES ASSUME EngineTypes, OneAwaited PROVE OneSaveAtATime
    OBVIOUS
  <2> DEFINE awaited == {r \in net : r.kind = "save" /\ r.heard}
  <2>1. awaited = {} \/ \E r : awaited = {r}
    BY DEF OneAwaited, Awaited
  <2> HIDE DEF awaited
  <2>2. Cardinality(awaited) <= 1
    <3>1. CASE awaited = {}
      BY <3>1, FS_EmptySet
    <3>2. ASSUME NEW r, awaited = {r} PROVE Cardinality(awaited) = 1
      <4>1. Cardinality({r}) = 1
        BY FS_Singleton
      <4> QED BY <3>2, <4>1
    <3> QED BY <2>1, <3>1, <3>2
  <2> QED BY <2>2 DEF OneSaveAtATime, OneAwaited, Awaited, awaited
<1> QED BY <1>1, <1>2, InitTypes, TypesStep, AwaitedStep, PTL DEF Spec

-----------------------------------------------------------------------------
(* No row too many. *)

LEMMA Counts ==
    EngineTypes => /\ IsFiniteSet(MyRows) /\ IsFiniteSet(Posts)
                   /\ Cardinality(MyRows) \in Nat /\ Cardinality(Posts) \in Nat
<1> SUFFICES ASSUME EngineTypes
             PROVE  /\ IsFiniteSet(MyRows) /\ IsFiniteSet(Posts)
                    /\ Cardinality(MyRows) \in Nat /\ Cardinality(Posts) \in Nat
  OBVIOUS
<1>1. Posts \in SUBSET net /\ IsFiniteSet(net)
  BY DEF Posts, EngineTypes, Plausible
<1>2. MyRows \in SUBSET (1..Len(rows)) /\ Len(rows) \in Nat
  BY DEF MyRows, EngineTypes
<1>3. IsFiniteSet(1..Len(rows))
  BY <1>2, FS_Interval
<1> QED BY <1>1, <1>2, <1>3, FS_Subset, FS_CardinalityType

LEMMA CountsNext ==
    EngineTypes' => Cardinality(MyRows') \in Nat /\ Cardinality(Posts') \in Nat
<1>1. (EngineTypes => Cardinality(MyRows) \in Nat /\ Cardinality(Posts) \in Nat)'
  BY Counts, PTL
<1> QED BY <1>1

\* A step that raises the number of rows and posts by no more than that of lost
\* requests keeps within the bound, if the tab stops to post for none but a lost one.
LEMMA StaysOwed ==
    ASSUME EngineTypes, EngineTypes', Owed,
           MyRows' = MyRows, Cardinality(Posts') <= Cardinality(Posts),
           \/ losses' = losses /\ (NoMorePosts => NoMorePosts')
           \/ losses' = losses + 1
    PROVE  Owed'
<1>1. /\ Cardinality(MyRows) \in Nat /\ Cardinality(Posts) \in Nat /\ Cardinality(Posts') \in Nat
      /\ losses \in Nat
  BY Counts, CountsNext DEF EngineTypes
<1>2. Cardinality(MyRows)' = Cardinality(MyRows)
  OBVIOUS
<1> QED BY <1>1, <1>2 DEF Owed

\* What happens in the tab, while the net and the rows stay as they are.
LEMMA QuietOwed ==
    ASSUME EngineTypes, EngineTypes', RowsOwed, net' = net, rows' = rows,
           losses' = losses, signatureId' = signatureId, link' = link, tab' = tab,
           ~loaded' => ~loaded, detach' # "no" => link # "free"
    PROVE  RowsOwed'
<1>1. MyRows' = MyRows /\ Posts' = Posts /\ (NoMorePosts => NoMorePosts')
  BY DEF MyRows, Posts, NoMorePosts
<1>2. Owed'
  BY <1>1, Counts, StaysOwed DEF RowsOwed, Owed
<1> QED BY <1>1, <1>2 DEF RowsOwed, Owed

LEMMA LoadsOwed ==
    ASSUME EngineTypes, EngineTypes', RowsOwed, Loads
    PROVE  RowsOwed'
<1>1. /\ net' = net /\ rows' = rows /\ losses' = losses /\ link' = link /\ detach' = detach
      /\ tab' = tab /\ ~loaded /\ loaded'
  BY DEF Loads, LoadSucceeds, LoadNotFound, LoadFails, world, bounds, waiting
<1>2. CASE signatureId' = signatureId
  BY <1>1, <1>2, QuietOwed DEF RowsOwed
<1>3. CASE LoadNotFound
  <2>1. MyRows' = {} /\ Posts' = {}
    BY <1>1 DEF RowsOwed, MyRows, Posts
  <2>2. Owed'
    BY <2>1, FS_EmptySet DEF Owed, EngineTypes
  <2>3. link = "free"
    BY <1>3 DEF RowsOwed, LoadNotFound
  <2> QED BY <1>1, <2>2, <2>3 DEF RowsOwed, Owed
<1> QED BY <1>2, <1>3 DEF Loads, LoadSucceeds, LoadFails

LEMMA SavingOwed ==
    ASSUME EngineTypes, EngineTypes', OneAwaited, RowsOwed,
           AutosaveFires \/ ManualSave \/ BackArrow \/ DetachStarts
    PROVE  RowsOwed'
<1>1. /\ rows' = rows /\ losses' = losses /\ signatureId' = signatureId /\ link' = link
      /\ tab' = tab /\ tab = "open" /\ loaded' = loaded
      /\ detach' # "no" => link # "free"
  BY DEF AutosaveFires, ManualSave, BackArrow, DetachStarts, bounds, waiting, RowsOwed
<1>2. CASE net' = net
  BY <1>1, <1>2, QuietOwed
<1>3. CASE ~saving /\ net' = net \cup {Request("save")}
  <2>1. /\ Request("save").kind = "save" /\ Request("save").id = signatureId
        /\ Request("save").answer = "none" /\ Request("save").heard
    BY DEF Request
  <2>2. MyRows' = MyRows
    BY <1>1 DEF MyRows
  <2>3. CASE signatureId > 0
    <3>1. Posts' = Posts /\ NoMorePosts /\ NoMorePosts'
      BY <1>1, <1>3, <2>1, <2>3 DEF Posts, NoMorePosts
    <3>2. Owed'
      BY <1>1, <2>2, <3>1, Counts, StaysOwed DEF RowsOwed, Owed
    <3> QED BY <1>1, <1>3, <2>1, <2>2, <2>3, <3>1, <3>2 DEF RowsOwed, Owed
  <2>4. CASE signatureId = 0
    <3>1. ~NoMorePosts
      BY <1>1, <1>3, <2>4 DEF NoMorePosts, OneAwaited, Awaited
    <3>2. Posts' = Posts \cup {Request("save")} /\ NoMorePosts'
      BY <1>3, <2>1, <2>4 DEF Posts, NoMorePosts, Awaited
    <3>3. Cardinality(Posts') <= Cardinality(Posts) + 1
      BY <3>2, Counts, FS_AddElement
    <3>4. Owed'
      BY <1>1, <2>2, <3>1, <3>2, <3>3, Counts, CountsNext DEF RowsOwed, Owed, EngineTypes
    <3> QED BY <1>1, <1>3, <2>1, <2>4, <3>4 DEF RowsOwed, Owed
  <2> QED BY <2>3, <2>4 DEF EngineTypes, SaveEngineTypeOK
<1> QED BY <1>2, <1>3 DEF AutosaveFires, ManualSave, BackArrow, DetachStarts, SaveNow, RunSave

LEMMA LeavingOwed ==
    ASSUME EngineTypes, EngineTypes', RowsOwed, Navigates \/ CloseTab
    PROVE  RowsOwed'
<1>1. /\ rows' = rows /\ losses' = losses /\ signatureId' = signatureId /\ link' = link
      /\ loaded' = loaded
  BY DEF Navigates, CloseTab, bounds
<1>2. CASE leaving' = FALSE /\ UNCHANGED <<tab, timer, detach, saving, net>>
  BY <1>1, <1>2, QuietOwed DEF RowsOwed
<1>3. CASE \E how \in {"closed", "discarded"} : Unload(how)
  <2> DEFINE unheard(r) == [r EXCEPT !.heard = FALSE]
  <2>1. /\ tab' # "open" /\ detach' = "no"
        /\ net' = {unheard(r) : r \in net}
    BY <1>3 DEF Unload
  <2>2. \A r \in net : /\ unheard(r).kind = r.kind /\ unheard(r).id = r.id
                       /\ unheard(r).answer = r.answer
    BY DEF EngineTypes, Plausible, Sent
  <2> HIDE DEF unheard
  <2>3. Posts' = {unheard(r) : r \in Posts}
    <3>1. Posts' = {s \in net' : s.kind = "save" /\ s.id = 0 /\ s.answer = "none"}
      BY DEF Posts
    <3> QED BY <2>1, <2>2, <3>1 DEF Posts
  <2>4. Cardinality(Posts') <= Cardinality(Posts)
    <3> DEFINE all == [r \in Posts |-> unheard(r)]
    <3>1. all \in Surjection(Posts, Posts')
      BY <2>3 DEF Surjection
    <3> QED BY <3>1, Counts, FS_Surjection
  <2>5. MyRows' = MyRows /\ NoMorePosts'
    BY <1>1, <2>1 DEF MyRows, NoMorePosts
  <2>6. Owed'
    BY <1>1, <2>4, <2>5, StaysOwed DEF RowsOwed, Owed
  <2> QED BY <1>1, <2>1, <2>2, <2>3, <2>5, <2>6 DEF RowsOwed, Owed
<1> QED BY <1>2, <1>3 DEF Navigates, CloseTab

LEMMA DetachSendsOwed ==
    ASSUME EngineTypes, EngineTypes', RowsOwed, DetachSends
    PROVE  RowsOwed'
<1>1. /\ rows' = rows /\ losses' = losses /\ signatureId' = signatureId /\ link' = link
      /\ tab' = tab /\ loaded' = loaded /\ link # "free" /\ signatureId > 0
      /\ net' = net \cup {Request("detach")}
  BY DEF DetachSends, bounds, engine, RowsOwed
<1>2. /\ Request("detach").kind = "detach" /\ Request("detach").id = signatureId
      /\ Request("detach").answer = "none"
  BY DEF Request
<1>3. MyRows' = MyRows /\ Posts' = Posts /\ NoMorePosts'
  BY <1>1, <1>2 DEF MyRows, Posts, NoMorePosts
<1>4. Owed'
  BY <1>1, <1>3, Counts, StaysOwed DEF RowsOwed, Owed
<1> QED BY <1>1, <1>2, <1>3, <1>4 DEF RowsOwed, Owed

\* A request leaves the net, or is answered, other than by a row.
LEMMA FewerPosts ==
    ASSUME EngineTypes, NEW r \in net, Posts' \in {Posts, Posts \ {r}}
    PROVE  /\ Cardinality(Posts') <= Cardinality(Posts)
           /\ r \in Posts /\ Posts' # Posts => Cardinality(Posts') + 1 = Cardinality(Posts)
<1>1. /\ IsFiniteSet(Posts) /\ Cardinality(Posts) \in Nat
  BY Counts
<1>2. Cardinality(Posts \ {r}) = IF r \in Posts THEN Cardinality(Posts) - 1 ELSE Cardinality(Posts)
  BY <1>1, FS_RemoveElement
<1> QED BY <1>1, <1>2

LEMMA StoresOwed ==
    ASSUME EngineTypes, EngineTypes', RowsOwed, NEW r \in net, Stores(r)
    PROVE  RowsOwed'
<1> DEFINE id == IF r.id = 0 THEN Len(rows) + 1 ELSE r.id
<1>1. id = IF r.id = 0 THEN Len(rows) + 1 ELSE r.id
  OBVIOUS
<1>2. /\ net' = IF r.heard THEN (net \ {r}) \cup {[r EXCEPT !.answer = "ok", !.id = id]}
                ELSE net \ {r}
      /\ r.answer = "none"
  BY DEF Stores
<1> HIDE DEF id
<1>3. /\ id \in 1..Len(rows') /\ Len(rows) \in Nat
      /\ Len(rows') = IF r.id = 0 THEN Len(rows) + 1 ELSE Len(rows)
      /\ rows' \in Seq(Row)
      /\ rows'[id].live = TRUE /\ rows'[id].mine = (r.id = 0 \/ rows[r.id].mine)
      /\ \A i \in 1..Len(rows) : i # id => rows'[i] = rows[i]
  <2>1. rows'[id] = [doc |-> Clean(r.doc), meta |-> r.meta, live |-> TRUE,
                     mine |-> r.id = 0 \/ rows[r.id].mine]
    BY <1>1, StoredRow
  <2> QED BY <1>1, <2>1, StoredRow
<1>4. UNCHANGED <<tab, loaded, link, detach, signatureId, losses>>
  BY DEF Stores, client, engine, waiting, bounds
<1>5. PICK s : /\ s.kind = r.kind /\ s.heard = r.heard /\ s.answer = "ok" /\ s.id = id
               /\ net' = IF r.heard THEN (net \ {r}) \cup {s} ELSE net \ {r}
  <2>1. /\ [r EXCEPT !.answer = "ok", !.id = id].kind = r.kind
        /\ [r EXCEPT !.answer = "ok", !.id = id].heard = r.heard
        /\ [r EXCEPT !.answer = "ok", !.id = id].answer = "ok"
        /\ [r EXCEPT !.answer = "ok", !.id = id].id = id
    BY DEF EngineTypes, Plausible, Sent
  <2> QED BY <1>2, <2>1
<1>6. Posts' = Posts \ {r}
  BY <1>5, <1>2 DEF Posts
<1>7. NoMorePosts => NoMorePosts'
  BY <1>4, <1>5 DEF NoMorePosts, Awaited
<1>8. /\ rows \in Seq(Row) /\ DOMAIN rows = 1..Len(rows) /\ DOMAIN rows' = 1..Len(rows')
      /\ r.id \in 0..Len(rows)
  BY <1>3 DEF EngineTypes, Plausible
<1>9. Owed' /\ (~loaded => MyRows' = {})
  <2>1. CASE r.id = 0
    <3>1. r \in Posts
      BY <1>2, <2>1 DEF Posts, RowsOwed, EngineTypes, Plausible, Sent
    <3>2. MyRows' = MyRows \cup {id}
      <4>1. id = Len(rows) + 1 /\ rows'[id].mine /\ 1..Len(rows') = (1..Len(rows)) \cup {id}
        <5>1. id = Len(rows) + 1 /\ Len(rows') = Len(rows) + 1 /\ Len(rows) \in Nat
          BY <1>1, <1>3, <2>1
        <5>2. rows'[id].mine = TRUE
          BY <1>3, <2>1
        <5>3. 1..(Len(rows) + 1) = (1..Len(rows)) \cup {Len(rows) + 1}
          BY <5>1
        <5> QED BY <5>1, <5>2, <5>3
      <4>2. \A i \in 1..Len(rows) : rows'[i] = rows[i]
        BY <1>3, <4>1
      <4> QED BY <1>8, <4>1, <4>2 DEF MyRows
    <3>3. Cardinality(MyRows') <= Cardinality(MyRows) + 1
      <4>1. IsFiniteSet(MyRows) /\ Cardinality(MyRows) \in Nat
        BY Counts
      <4>2. Cardinality(MyRows \cup {id}) = IF id \in MyRows THEN Cardinality(MyRows)
                                            ELSE Cardinality(MyRows) + 1
        BY <4>1, FS_AddElement
      <4> QED BY <3>2, <4>1, <4>2
    <3>4. Cardinality(Posts') + 1 = Cardinality(Posts)
      <4>1. Posts' # Posts
        BY <1>6, <3>1
      <4> QED BY <1>6, <3>1, <4>1, FewerPosts
    <3>5. Cardinality(MyRows') + Cardinality(Posts') <= Cardinality(MyRows) + Cardinality(Posts)
      BY <3>3, <3>4, Counts, CountsNext
    <3>6. Owed'
      BY <1>4, <1>7, <3>5, Counts, CountsNext DEF RowsOwed, Owed, EngineTypes
    <3>7. loaded
      BY <2>1 DEF RowsOwed
    <3> QED BY <3>6, <3>7
  <2>2. CASE r.id # 0
    <3>1. MyRows' = MyRows
      BY <1>1, <1>3, <1>8, <2>2 DEF MyRows
    <3>2. Cardinality(Posts') <= Cardinality(Posts)
      BY <1>6, FewerPosts
    <3> QED BY <1>4, <1>7, <3>1, <3>2, StaysOwed DEF RowsOwed, Owed
  <2> QED BY <2>1, <2>2
<1>10. link # "free" => rows'[1].live
  <2>1. link # "free" => rows[1].live /\ 1 \in 1..Len(rows)
    BY <1>8 DEF RowsOwed, EngineTypes, SaveEngineTypeOK
  <2> QED BY <1>3, <2>1
<1>11. \A q \in net' : (q.answer = "ok" => q.id > 0) /\ (q.kind = "detach" => q.id > 0 /\ link # "free")
  <2>1. \A q \in net' : q \in net \/ q = s
    BY <1>5
  <2>2. s.id > 0 /\ (s.kind = "detach" => link # "free")
    BY <1>3, <1>5 DEF RowsOwed
  <2> QED BY <2>1, <2>2 DEF RowsOwed
<1>12. ~loaded => \A q \in net' : q.id = 1
  <2>1. ~loaded => s.id = 1
    BY <1>1, <1>5 DEF RowsOwed
  <2> QED BY <1>5, <2>1 DEF RowsOwed
<1> QED BY <1>4, <1>9, <1>10, <1>11, <1>12 DEF RowsOwed, Owed

LEMMA AnswersOwed ==
    ASSUME EngineTypes, EngineTypes', RowsOwed, NEW r \in net, Refuses(r) \/ Limits(r)
    PROVE  RowsOwed'
<1>1. UNCHANGED <<tab, loaded, link, detach, signatureId, losses, rows>>
  BY DEF Refuses, Limits, client, engine, waiting, bounds
<1>2. PICK s : /\ s.kind = r.kind /\ s.heard = r.heard /\ s.answer \notin {"none", "ok"} /\ s.id = r.id
               /\ net' = IF r.heard THEN (net \ {r}) \cup {s} ELSE net \ {r}
               /\ r.answer = "none"
  <2>1. \A answer \in {"refused", "limited"} :
            /\ [r EXCEPT !.answer = answer].kind = r.kind
            /\ [r EXCEPT !.answer = answer].heard = r.heard
            /\ [r EXCEPT !.answer = answer].answer = answer
            /\ [r EXCEPT !.answer = answer].id = r.id
    BY DEF EngineTypes, Plausible, Sent
  <2>2. PICK answer \in {"refused", "limited"} : Answers(r, answer)
    BY DEF Refuses, Limits
  <2> QED BY <2>1, <2>2 DEF Answers
<1>3. MyRows' = MyRows /\ Posts' = Posts \ {r}
  BY <1>1, <1>2 DEF MyRows, Posts
<1>4. Owed'
  <2>1. CASE r \in Posts
    <3>1. Cardinality(Posts') + 1 = Cardinality(Posts)
      <4>1. Posts' # Posts
        BY <1>3, <2>1
      <4> QED BY <1>3, <2>1, <4>1, FewerPosts
    <3> QED BY <1>1, <1>3, <3>1, Counts, CountsNext DEF RowsOwed, Owed, EngineTypes
  <2>2. CASE r \notin Posts
    <3>1. NoMorePosts => NoMorePosts'
      BY <1>1, <1>2, <2>2 DEF NoMorePosts, Posts, Awaited
    <3>2. Cardinality(Posts') <= Cardinality(Posts)
      BY <1>3, FewerPosts
    <3> QED BY <1>1, <1>3, <3>1, <3>2, StaysOwed DEF RowsOwed, Owed
  <2> QED BY <2>1, <2>2
<1>5. \A q \in net' : (q.answer = "ok" => q.id > 0) /\ (q.kind = "detach" => q.id > 0 /\ link # "free")
  <2>1. \A q \in net' : q \in net \/ q = s
    BY <1>2
  <2>2. (s.kind = "detach" => s.id > 0 /\ link # "free") /\ s.answer # "ok"
    BY <1>2 DEF RowsOwed
  <2> QED BY <2>1, <2>2 DEF RowsOwed
<1>6. ~loaded => \A q \in net' : q.id = 1
  BY <1>2 DEF RowsOwed
<1> QED BY <1>1, <1>3, <1>4, <1>5, <1>6 DEF RowsOwed, Owed

LEMMA HearsOwed ==
    ASSUME EngineTypes, EngineTypes', RowsOwed, NEW r \in net,
           \/ Saved(r) \/ SaveLimited(r) \/ SaveRefused(r) \/ SaveLost(r)
           \/ Detached(r) \/ DetachFails(r)
    PROVE  RowsOwed'
<1>1. /\ UNCHANGED <<tab, loaded, rows>>
      /\ detach' # "no" => detach' = detach
      /\ link' = link \/ (link' = "detached" /\ r.kind = "detach")
  <2>1. CASE Saved(r) \/ SaveLimited(r) \/ SaveRefused(r) \/ SaveLost(r)
    BY <2>1 DEF Saved, SaveLimited, SaveRefused, SaveLost, SaveError, waiting
  <2>2. CASE Detached(r)
    BY <2>2 DEF Detached, Hear
  <2>3. CASE DetachFails(r)
    BY <2>3 DEF DetachFails
  <2> QED BY <2>1, <2>2, <2>3
<1>2. link' # "free" => link # "free"
  BY <1>1 DEF RowsOwed
<1>3. MyRows' = MyRows
  BY <1>1 DEF MyRows
<1>4. CASE net' = net \ {r} /\ (losses' = losses => r.answer # "none")
  <2>1. Posts' = Posts \ {r}
    BY <1>4 DEF Posts
  <2>2. Cardinality(Posts') <= Cardinality(Posts)
    BY <2>1, FewerPosts
  <2>3. \/ losses' = losses /\ (NoMorePosts => NoMorePosts')
        \/ losses' = losses + 1
    <3>1. CASE Saved(r)
      <4>1. signatureId' > 0 /\ losses' = losses
        BY <3>1 DEF Saved, Hear, RowsOwed, bounds
      <4> QED BY <4>1 DEF NoMorePosts
    <3>2. CASE r.answer \in {"refused", "limited"} \/ r.kind = "detach"
      <4>1. signatureId' = signatureId /\ (losses' = losses \/ losses' = losses + 1)
        BY <3>2 DEF Saved, SaveLimited, SaveRefused, SaveLost, SaveError, Detached, DetachFails, Hear, Drop,
                    engine, bounds
      <4>2. NoMorePosts => NoMorePosts'
        BY <1>1, <1>4, <3>2, <4>1 DEF NoMorePosts, Awaited
      <4> QED BY <4>1, <4>2
    <3>3. CASE SaveLost(r)
      BY <3>3 DEF SaveLost, Drop
    <3> QED BY <3>1, <3>2, <3>3 DEF SaveLimited, SaveRefused, Detached, DetachFails, Hear
  <2>4. Owed'
    BY <1>3, <2>2, <2>3, StaysOwed DEF RowsOwed, Owed
  <2>5. ~loaded' => signatureId' = 1
    BY <1>1 DEF Saved, SaveLimited, SaveRefused, SaveLost, SaveError, Detached, DetachFails, engine,
                RowsOwed
  <2>6. signatureId > 0 => signatureId' > 0
    BY DEF Saved, SaveLimited, SaveRefused, SaveLost, SaveError, Detached, DetachFails, engine,
           RowsOwed, Hear
  <2> QED BY <1>1, <1>2, <1>3, <1>4, <2>4, <2>5, <2>6 DEF RowsOwed, Owed
<1>5. CASE /\ losses' = losses + 1 /\ signatureId' = signatureId
           /\ net' = (net \ {r}) \cup {[r EXCEPT !.heard = FALSE]}
  <2> DEFINE s == [r EXCEPT !.heard = FALSE]
  <2>1. s.kind = r.kind /\ s.id = r.id /\ s.answer = r.answer
    BY DEF EngineTypes, Plausible, Sent
  <2> HIDE DEF s
  <2>2. net' = (net \ {r}) \cup {s}
    BY <1>5 DEF s
  <2>3. Cardinality(Posts') <= Cardinality(Posts)
    <3>1. CASE r \in Posts
      <4>1. Posts' = (Posts \ {r}) \cup {s}
        BY <2>1, <2>2, <3>1 DEF Posts
      <4>2. IsFiniteSet(Posts \ {r}) /\ Cardinality(Posts \ {r}) = Cardinality(Posts) - 1
        BY <3>1, Counts, FS_RemoveElement
      <4>3. Cardinality(Posts') \in {Cardinality(Posts \ {r}), Cardinality(Posts \ {r}) + 1}
        BY <4>1, <4>2, FS_AddElement
      <4> QED BY <4>2, <4>3, Counts
    <3>2. CASE r \notin Posts
      <4>1. Posts' = Posts
        BY <2>1, <2>2, <3>2 DEF Posts
      <4> QED BY <4>1, Counts
    <3> QED BY <3>1, <3>2
  <2>4. Owed'
    BY <1>3, <1>5, <2>3, StaysOwed DEF RowsOwed, Owed
  <2> QED BY <1>1, <1>2, <1>3, <1>5, <2>1, <2>2, <2>4 DEF RowsOwed, Owed
<1>6. CASE Saved(r) \/ SaveLimited(r) \/ SaveRefused(r) \/ Detached(r)
  BY <1>4, <1>6 DEF Saved, SaveLimited, SaveRefused, Detached, Hear
<1>7. CASE SaveLost(r)
  BY <1>4, <1>5, <1>7 DEF SaveLost, SaveError, Drop, EngineTypes
<1>8. CASE DetachFails(r)
  BY <1>4, <1>5, <1>8 DEF DetachFails, Hear, Drop, engine, EngineTypes
<1> QED BY <1>6, <1>7, <1>8

LEMMA OpenedRow ==
    ASSUME Init
    PROVE  /\ \A i \in DOMAIN rows : ~rows[i].mine
           /\ ~loaded => signatureId = 1
           /\ link # "free" => signatureId = 1 /\ rows[1].live
           /\ "unusable" \notin Openings => \A i \in DOMAIN rows : rows[i].doc.kind = "plain"
<1>1. PICK o \in Openings :
        /\ rows = OpenedRows[o] /\ loaded = (o = "new")
        /\ signatureId = IF o = "new" THEN 0 ELSE 1
        /\ link # "free" => o = "existing"
  BY DEF Init
<1>2. o \in {"new", "existing", "gone", "unusable"}
  BY SaveEngineAssumption DEF AllOpenings
<1>3. CASE o = "new"
  <2>1. OpenedRows["new"] = <<>>
    BY DEF OpenedRows
  <2>2. DOMAIN rows = {}
    BY <1>1, <1>3, <2>1
  <2> QED BY <1>1, <1>3, <2>2
<1>4. CASE o # "new"
  <2>1. /\ DOMAIN rows = {1} /\ rows[1].mine = FALSE
        /\ o = "existing" => rows[1].live = TRUE
        /\ o # "unusable" => rows[1].doc.kind = "plain"
    BY <1>1, <1>2, <1>4 DEF OpenedRows, Opened
  <2> QED BY <1>1, <1>4, <2>1
<1> QED BY <1>3, <1>4

LEMMA InitOwed == Init => RowsOwed
<1> SUFFICES ASSUME Init PROVE RowsOwed
  OBVIOUS
<1>1. net = {} /\ losses = 0 /\ detach = "no"
  BY DEF Init
<1>2. MyRows = {} /\ Posts = {}
  BY <1>1, OpenedRow DEF MyRows, Posts
<1>3. Owed
  BY <1>1, <1>2, FS_EmptySet DEF Owed
<1> QED BY <1>1, <1>2, <1>3, OpenedRow DEF RowsOwed, Owed

LEMMA OwedStep ==
    EngineTypes /\ EngineTypes' /\ OneAwaited /\ RowsOwed /\ [Next]_vars => RowsOwed'
<1> SUFFICES ASSUME EngineTypes, EngineTypes', OneAwaited, RowsOwed, [Next]_vars PROVE RowsOwed'
  OBVIOUS
<1>1. CASE \/ UNCHANGED vars \/ ChangeMeta \/ PauseEnds \/ \E kind \in EditKinds : Edit(kind)
  <2>1. /\ net' = net /\ rows' = rows /\ losses' = losses /\ signatureId' = signatureId
        /\ link' = link /\ tab' = tab /\ loaded' = loaded /\ detach' = detach
    BY <1>1 DEF vars, client, engine, waiting, world, bounds, ChangeMeta, PauseEnds, Edit
  <2> QED BY <2>1, QuietOwed DEF RowsOwed
<1>2. CASE Server
  BY <1>2, StoresOwed, AnswersOwed DEF Server
<1>3. CASE Hears
  BY <1>3, HearsOwed DEF Hears
<1> QED BY <1>1, <1>2, <1>3, LoadsOwed, SavingOwed, LeavingOwed, DetachSendsOwed DEF Next

\* A tab makes one row, and one more for each answer lost on its way, for any number
\* of those: each post that was sent and has not failed is counted before its row is.
THEOREM OneRow == Spec => []NoDuplicateRows
<1>1. EngineTypes /\ RowsOwed => NoDuplicateRows
  BY Counts DEF RowsOwed, Owed, NoDuplicateRows, MyRows, EngineTypes
<1>2. Init => OneAwaited
  BY DEF Init, OneAwaited
<1> QED BY <1>1, <1>2, InitTypes, TypesStep, AwaitedStep, InitOwed, OwedStep, PTL DEF Spec

\* No answer to a save takes an edit off the canvas, whatever answers come and when.
THEOREM ScreenKeepsEdits == Spec => EditsStayOnScreen
<1>1. EngineTypes /\ OneAwaited /\ [Next]_vars => [doc'.v < doc.v => loaded' # loaded \/ detach' # detach]_vars
  <2> SUFFICES ASSUME EngineTypes, OneAwaited, Next
               PROVE  doc'.v < doc.v => loaded' # loaded \/ detach' # detach
    OBVIOUS
  <2>1. doc.v \in Nat /\ doc.v <= fresh /\ fresh \in Nat
    BY DEF EngineTypes, SaveEngineTypeOK, DocType
  <2>2. CASE doc' = doc
    BY <2>1, <2>2
  <2>3. CASE Loads
    <3>1. ~loaded /\ loaded'
      BY <2>3 DEF Loads, LoadSucceeds, LoadNotFound, LoadFails
    <3> QED BY <3>1
  <2>4. CASE \E kind \in EditKinds : Edit(kind)
    BY <2>1, <2>4 DEF Edit, Change
  <2>5. CASE Hears
    <3> SUFFICES ASSUME NEW r \in net,
                        \/ Saved(r) \/ SaveLimited(r) \/ SaveRefused(r) \/ SaveLost(r)
                        \/ Detached(r) \/ DetachFails(r)
                 PROVE  doc'.v < doc.v => loaded' # loaded \/ detach' # detach
      BY <2>5 DEF Hears
    <3>1. CASE Detached(r)
      BY <3>1 DEF Detached, Hear, OneAwaited
    <3>2. CASE Saved(r)
      <4>1. Clean(r.doc).v = r.doc.v
        BY CleanDocs DEF EngineTypes, Plausible, Sent
      <4> QED BY <2>1, <3>2, <4>1 DEF Saved, Adopts, Unchanged
    <3> QED BY <2>2, <3>1, <3>2 DEF SaveLimited, SaveRefused, SaveLost, SaveError, DetachFails, canvas
  <2> QED BY <2>2, <2>3, <2>4, <2>5 DEF Next, ChangeMeta, AutosaveFires, PauseEnds, ManualSave, BackArrow,
             Navigates, CloseTab, DetachStarts, DetachSends, Server, Stores, Refuses, Limits, client, canvas
<1>2. Init => OneAwaited
  BY DEF Init, OneAwaited
<1> QED BY <1>1, <1>2, InitTypes, TypesStep, AwaitedStep, PTL DEF Spec, EditsStayOnScreen

-----------------------------------------------------------------------------
(* Nothing lost. *)

\* What the steps below start from and end with.
Sound == EngineTypes /\ OneAwaited /\ RowsOwed

\* What is under way has the same clean copy as the canvas.
LEMMA SameClean ==
    ASSUME EngineTypes, CarriesCanvas, NEW r \in net
    PROVE  /\ r.doc \in DocType /\ Clean(r.doc) = Clean(doc) /\ r.meta = meta
           /\ doc \in {r.doc, Clean(r.doc)}
           /\ r.doc.kind = "unusable" => doc.kind = "unusable"
<1>1. r.doc \in DocType /\ doc \in DocType
  BY DEF EngineTypes, SaveEngineTypeOK, Plausible, Sent
<1>2. doc \in {r.doc, Clean(r.doc)} /\ r.meta = meta
  BY DEF CarriesCanvas
<1>3. Clean(Clean(r.doc)) = Clean(r.doc)
  BY <1>1, CleanDocs
<1>4. r.doc.kind = "unusable" => Clean(r.doc).kind = "unusable"
  BY <1>1 DEF Clean
<1> QED BY <1>1, <1>2, <1>3, <1>4

LEMMA LoadsOrderly ==
    ASSUME Patient, Sound, Orderly, StatusIsTrue, Loads
    PROVE  Orderly' /\ StatusIsTrue'
<1>1. /\ UNCHANGED <<tab, link, detach, net, rows>> /\ ~loaded /\ loaded' /\ AtRest
      /\ tab = "open" /\ signatureId = 1 /\ 1 \in DOMAIN rows
  BY DEF Loads, LoadSucceeds, LoadNotFound, LoadFails, world, waiting, Orderly, Sound, RowsOwed,
         EngineTypes
<1>2. ~LoadFails
  BY DEF LoadFails, Patient
<1>3. CASE LoadSucceeds
  <2>1. rows[1].doc.kind \in {"empty", "plain"}
    BY <1>1 DEF Orderly
  <2>2. /\ doc' = rows[1].doc /\ meta' = rows[1].meta /\ edited' = FALSE /\ signatureId' = 1
    BY <1>1, <1>3, <2>1 DEF LoadSucceeds
  <2>3. net' = {}
    BY <1>1 DEF AtRest
  <2>4. Orderly'
    BY <1>1, <2>1, <2>2, <2>3 DEF Orderly, CarriesCanvas
  <2>5. StatusIsTrue'
    BY <1>1, <2>2 DEF StatusIsTrue, LostDesign, LostMeta
  <2> QED BY <2>4, <2>5
<1>4. CASE LoadNotFound
  <2>1. /\ doc' = doc /\ meta' = 0 /\ ~edited' /\ signatureId' = 0 /\ net' = {}
    BY <1>1, <1>4 DEF LoadNotFound, AtRest
  <2>2. link = "free"
    BY <1>4 DEF LoadNotFound, Sound, RowsOwed
  <2>3. Orderly'
    BY <1>1, <2>1, <2>2 DEF Orderly, CarriesCanvas
  <2>4. StatusIsTrue'
    BY <1>1, <2>1 DEF StatusIsTrue, LostDesign, LostMeta
  <2> QED BY <2>3, <2>4
<1> QED BY <1>2, <1>3, <1>4 DEF Loads

LEMMA ChangeOrderly ==
    ASSUME Patient, Sound, Orderly, StatusIsTrue, (\E kind \in EditKinds : Edit(kind)) \/ ChangeMeta
    PROVE  Orderly' /\ StatusIsTrue'
<1>1. Change /\ tab = "open" /\ loaded /\ ~saving /\ detach = "no"
  BY DEF Edit, ChangeMeta, Change, Patient
<1>2. net = {}
  <2> SUFFICES ASSUME NEW r \in net PROVE FALSE
    OBVIOUS
  <2>1. r.heard /\ r.kind \in {"save", "detach"}
    BY <1>1 DEF Orderly, Sound, EngineTypes, Plausible, Sent
  <2> QED BY <1>1, <2>1 DEF Sound, OneAwaited
<1>3. isDirty' = TRUE /\ UNCHANGED <<tab, loaded, signatureId, link, net, rows>>
  BY <1>1 DEF Edit, ChangeMeta, Watch, engine, waiting, world
<1>4. doc'.kind # "unusable"
  BY SaveEngineAssumption DEF Edit, ChangeMeta, Orderly
<1>5. Orderly'
  BY <1>1, <1>2, <1>3, <1>4 DEF Orderly, CarriesCanvas
<1>6. StatusIsTrue'
  BY <1>1, <1>3 DEF StatusIsTrue
<1> QED BY <1>5, <1>6

\* A step that changes nothing the status tells of.
LEMMA QuietStatus ==
    ASSUME StatusIsTrue,
           UNCHANGED <<tab, loaded, doc, meta, edited, isDirty, lastError, signatureId, rows>>
    PROVE  StatusIsTrue'
BY DEF StatusIsTrue, LostDesign, LostMeta

LEMMA SavingOrderly ==
    ASSUME Patient, Sound, Orderly, StatusIsTrue,
           AutosaveFires \/ ManualSave \/ BackArrow \/ DetachStarts \/ DetachSends
    PROVE  Orderly' /\ StatusIsTrue'
<1>1. /\ UNCHANGED <<tab, loaded, doc, meta, edited, isDirty, lastError, signatureId, rows, link>>
      /\ tab = "open"
  BY DEF AutosaveFires, ManualSave, BackArrow, DetachStarts, DetachSends, canvas, status, engine,
         waiting, bounds
<1>2. loaded
  BY DEF AutosaveFires, ManualSave, BackArrow, DetachStarts, DetachSends, Patient, Orderly, AtRest
<1>3. net' = net \/ \E kind \in {"save", "detach"} : net' = net \cup {Request(kind)}
  BY DEF AutosaveFires, ManualSave, BackArrow, DetachStarts, DetachSends, SaveNow, RunSave
<1>4. \A kind : /\ Request(kind).doc = doc /\ Request(kind).meta = meta
                /\ Request(kind).heard /\ Request(kind).id = signatureId
                /\ Request(kind).answer = "none"
  BY DEF Request
<1>5. Orderly'
  BY <1>1, <1>2, <1>3, <1>4 DEF Orderly, CarriesCanvas
<1> QED BY <1>1, <1>5, QuietStatus

LEMMA LeavingOrderly ==
    ASSUME Patient, Sound, Orderly, StatusIsTrue, Navigates \/ CloseTab
    PROVE  Orderly' /\ StatusIsTrue'
<1>1. /\ UNCHANGED <<loaded, doc, meta, edited, isDirty, lastError, signatureId, rows, link>>
      /\ tab = "open"
  BY DEF Navigates, CloseTab, canvas, status, bounds
<1>2. CASE UNCHANGED <<tab, timer, detach, saving, net>>
  <2>1. Orderly'
    BY <1>1, <1>2 DEF Orderly, CarriesCanvas, AtRest
  <2> QED BY <1>1, <1>2, <2>1, QuietStatus
<1>3. CASE \E how \in {"closed", "discarded"} : Unload(how) /\ (how = "closed" => ~Warns)
  <2>1. PICK how \in {"closed", "discarded"} : Unload(how) /\ (how = "closed" => ~Warns)
    BY <1>3
  <2>2. tab' = how /\ timer' = FALSE /\ detach' = "no"
    BY <2>1 DEF Unload
  <2> DEFINE unheard(r) == [r EXCEPT !.heard = FALSE]
  <2>3. net' = {unheard(r) : r \in net}
    BY <2>1 DEF Unload
  <2>4. \A r \in net : /\ unheard(r).doc = r.doc /\ unheard(r).id = r.id /\ unheard(r).meta = r.meta
                       /\ unheard(r).answer = r.answer /\ ~unheard(r).heard
    BY DEF Sound, EngineTypes, Plausible, Sent
  <2> HIDE DEF unheard
  <2>5. CarriesCanvas'
    BY <1>1, <2>3, <2>4 DEF Orderly, CarriesCanvas
  <2>6. ~loaded => net' = {}
    BY <2>3 DEF Orderly, AtRest
  <2>7. Orderly'
    BY <1>1, <2>2, <2>3, <2>4, <2>5, <2>6 DEF Orderly, AtRest
  <2>8. StatusIsTrue'
    BY <1>1, <2>1, <2>2 DEF StatusIsTrue, LostDesign, LostMeta, Warns
  <2> QED BY <2>7, <2>8
<1> QED BY <1>2, <1>3 DEF Navigates, CloseTab

LEMMA StoresOrderly ==
    ASSUME Patient, Sound, Orderly, StatusIsTrue, NEW r \in net, Stores(r)
    PROVE  Orderly' /\ StatusIsTrue'
<1> DEFINE id == IF r.id = 0 THEN Len(rows) + 1 ELSE r.id
<1>1. id = IF r.id = 0 THEN Len(rows) + 1 ELSE r.id
  OBVIOUS
<1>2. /\ net' = IF r.heard THEN (net \ {r}) \cup {[r EXCEPT !.answer = "ok", !.id = id]}
                ELSE net \ {r}
      /\ UNCHANGED <<tab, loaded, doc, meta, edited, timer, isDirty, lastError, signatureId, link, detach>>
  BY DEF Stores, client, canvas, status, engine, waiting
<1> HIDE DEF id
<1>3. /\ id \in 1..Len(rows') /\ Len(rows) \in Nat
      /\ Len(rows') = IF r.id = 0 THEN Len(rows) + 1 ELSE Len(rows)
      /\ rows' \in Seq(Row)
      /\ rows'[id].doc = Clean(r.doc) /\ rows'[id].meta = r.meta
      /\ \A i \in 1..Len(rows) : i # id => rows'[i] = rows[i]
  <2>1. rows'[id] = [doc |-> Clean(r.doc), meta |-> r.meta, live |-> TRUE,
                     mine |-> r.id = 0 \/ rows[r.id].mine]
    BY <1>1, StoredRow DEF Sound
  <2> QED BY <1>1, <2>1, StoredRow DEF Sound
<1>4. PICK s : /\ s.doc = r.doc /\ s.meta = r.meta /\ s.heard = r.heard /\ s.id = id
               /\ net' = net \ {r} \/ net' = (net \ {r}) \cup {s}
  <2>1. /\ [r EXCEPT !.answer = "ok", !.id = id].doc = r.doc
        /\ [r EXCEPT !.answer = "ok", !.id = id].meta = r.meta
        /\ [r EXCEPT !.answer = "ok", !.id = id].heard = r.heard
        /\ [r EXCEPT !.answer = "ok", !.id = id].id = id
    BY DEF Sound, EngineTypes, Plausible, Sent
  <2> QED BY <1>2, <2>1
<1>5. /\ Clean(r.doc) = Clean(doc) /\ r.meta = meta /\ doc \in {r.doc, Clean(r.doc)}
      /\ r.doc \in DocType /\ r.doc.kind # "unusable" /\ doc \in DocType /\ loaded
  BY SameClean DEF Sound, Orderly, AtRest, EngineTypes, SaveEngineTypeOK
<1>6. Clean(r.doc).kind \in {"empty", "plain"}
  BY <1>5 DEF Clean, DocType
<1>7. /\ \A i \in DOMAIN rows' : i = id \/ (i \in DOMAIN rows /\ rows'[i] = rows[i])
      /\ signatureId \in 0..Len(rows) /\ DOMAIN rows = 1..Len(rows)
      /\ DOMAIN rows' = 1..Len(rows')
  BY <1>1, <1>3 DEF Sound, EngineTypes, SaveEngineTypeOK
<1>8. CarriesCanvas'
  <2> SUFFICES ASSUME NEW q \in net'
               PROVE  /\ doc \in {q.doc, Clean(q.doc)} /\ meta = q.meta
                      /\ q.answer = "ok" => /\ rows'[q.id].doc = Clean(q.doc)
                                            /\ rows'[q.id].meta = q.meta
    BY <1>2 DEF CarriesCanvas
  <2>1. CASE q = s
    BY <1>3, <1>4, <1>5, <2>1
  <2>2. CASE q \in net
    <3>1. /\ doc \in {q.doc, Clean(q.doc)} /\ meta = q.meta /\ Clean(q.doc) = Clean(doc)
          /\ q.answer = "ok" => /\ rows[q.id].doc = Clean(q.doc) /\ rows[q.id].meta = q.meta
                                /\ q.id \in 1..Len(rows)
      BY <2>2, SameClean DEF Orderly, CarriesCanvas, Sound, RowsOwed, EngineTypes, Plausible
    <3>2. CASE q.id = id
      BY <1>3, <1>5, <3>1, <3>2
    <3>3. CASE q.id # id
      BY <1>3, <3>1, <3>3
    <3> QED BY <3>2, <3>3
  <2> QED BY <1>4, <2>1, <2>2
<1>9. Orderly'
  <2>1. \A i \in DOMAIN rows' : rows'[i].doc.kind \in {"empty", "plain"}
    BY <1>3, <1>6, <1>7 DEF Orderly
  <2>2. \A q \in net' : q.heard <=> tab' = "open"
    BY <1>2, <1>4 DEF Orderly
  <2>3. link # "free" => \A q \in net' : q.id = 1
    BY <1>1, <1>4 DEF Orderly
  <2> QED BY <1>2, <1>5, <1>8, <2>1, <2>2, <2>3 DEF Orderly
<1>10. CASE signatureId = id
  <2>1. signatureId > 0 /\ signatureId \in DOMAIN rows
    BY <1>3, <1>7, <1>10
  <2>2. rows'[signatureId].doc = Clean(doc) /\ rows'[signatureId].meta = meta
    BY <1>3, <1>5, <1>10
  <2>3. ~LostDesign' /\ ~LostMeta'
    BY <1>2, <2>1, <2>2 DEF LostDesign, LostMeta
  <2>4. rows[signatureId].doc = doc => Clean(doc) = doc
    BY <1>5, <2>1, CleanDocs DEF Orderly
  <2>5. tab = "closed" => ~isDirty'
    BY <1>2 DEF StatusIsTrue
  <2>6. tab = "open" /\ loaded /\ ~isDirty /\ ~lastError => Clean(doc) = doc
    BY <2>1, <2>4 DEF StatusIsTrue
  <2> QED BY <1>2, <1>9, <2>2, <2>3, <2>5, <2>6 DEF StatusIsTrue
<1>11. CASE signatureId # id
  <2>1. signatureId > 0 => rows'[signatureId] = rows[signatureId]
    BY <1>3, <1>7, <1>11
  <2>2. signatureId = 0 \/ signatureId > 0
    BY <1>7
  <2>3. ~LostDesign => ~LostDesign'
    BY <1>2, <2>1, <2>2 DEF LostDesign
  <2>4. ~LostMeta => ~LostMeta'
    BY <1>2, <2>1, <2>2 DEF LostMeta
  <2> QED BY <1>2, <1>9, <2>1, <2>3, <2>4 DEF StatusIsTrue
<1> QED BY <1>10, <1>11

LEMMA AnswersOrderly ==
    ASSUME Patient, Sound, Orderly, StatusIsTrue, NEW r \in net, Refuses(r) \/ Limits(r)
    PROVE  Orderly' /\ StatusIsTrue'
<1>1. UNCHANGED <<tab, loaded, doc, meta, edited, timer, isDirty, lastError, signatureId, link, detach, rows>>
  BY DEF Refuses, Limits, client, canvas, status, engine, waiting
<1>2. PICK s : /\ s.doc = r.doc /\ s.meta = r.meta /\ s.heard = r.heard /\ s.id = r.id
               /\ s.answer # "ok"
               /\ net' = net \ {r} \/ net' = (net \ {r}) \cup {s}
  <2>1. \A answer \in {"refused", "limited"} :
            /\ [r EXCEPT !.answer = answer].doc = r.doc
            /\ [r EXCEPT !.answer = answer].meta = r.meta
            /\ [r EXCEPT !.answer = answer].heard = r.heard
            /\ [r EXCEPT !.answer = answer].id = r.id
            /\ [r EXCEPT !.answer = answer].answer = answer
    BY DEF Sound, EngineTypes, Plausible, Sent
  <2>2. PICK answer \in {"refused", "limited"} : Answers(r, answer)
    BY DEF Refuses, Limits
  <2> QED BY <2>1, <2>2 DEF Answers
<1>3. Orderly'
  BY <1>1, <1>2 DEF Orderly, CarriesCanvas, AtRest
<1> QED BY <1>1, <1>3, QuietStatus

LEMMA HearsOrderly ==
    ASSUME Patient, Sound, Orderly, StatusIsTrue, NEW r \in net,
           \/ Saved(r) \/ SaveLimited(r) \/ SaveRefused(r) \/ SaveLost(r)
           \/ Detached(r) \/ DetachFails(r)
    PROVE  Orderly' /\ StatusIsTrue'
<1>1. /\ net' = net \ {r} /\ r.heard /\ tab = "open" /\ loaded
      /\ UNCHANGED <<tab, loaded, meta, rows>>
  <2>1. r.heard /\ tab = "open" /\ loaded
    BY DEF Saved, SaveLimited, SaveRefused, SaveLost, Detached, DetachFails, Hear, Drop, Orderly, AtRest
  <2>2. net' = net \ {r}
    BY DEF Saved, SaveLimited, SaveRefused, SaveLost, Detached, DetachFails, Hear, Drop, Patient
  <2>3. UNCHANGED <<tab, loaded, meta, rows>>
    BY DEF Saved, SaveLimited, SaveRefused, SaveLost, SaveError, Detached, DetachFails, canvas
  <2> QED BY <2>1, <2>2, <2>3
<1>2. /\ Clean(r.doc) = Clean(doc) /\ r.meta = meta /\ doc \in {r.doc, Clean(r.doc)}
      /\ r.doc \in DocType /\ Clean(r.doc).kind # "unusable"
      /\ Clean(Clean(r.doc)) = Clean(r.doc)
  <2>1. r.doc \in DocType /\ r.doc.kind # "unusable"
    BY SameClean DEF Orderly, Sound
  <2>2. Clean(r.doc).kind # "unusable"
    BY <2>1 DEF Clean, DocType
  <2> QED BY <2>1, <2>2, SameClean, CleanDocs DEF Orderly, Sound
<1>3. \/ doc' = doc
      \/ doc' = Clean(r.doc)
  BY DEF Saved, SaveLimited, SaveRefused, SaveLost, SaveError, Detached, DetachFails, canvas
<1>4. link' = link \/ (link' = "detached" /\ r.kind = "detach")
  <2>1. CASE Saved(r) \/ SaveLimited(r) \/ SaveRefused(r) \/ SaveLost(r)
    BY <2>1 DEF Saved, SaveLimited, SaveRefused, SaveLost, SaveError, waiting
  <2>2. CASE Detached(r)
    BY <2>2 DEF Detached, Hear
  <2>3. CASE DetachFails(r)
    BY <2>3 DEF DetachFails
  <2> QED BY <2>1, <2>2, <2>3
<1>5. link' # "free" => signatureId' = 1 /\ \A q \in net' : q.id = 1
  <2>1. link' # "free" => link # "free"
    BY <1>4 DEF Sound, RowsOwed
  <2>2. signatureId' = signatureId \/ signatureId' = r.id
    BY DEF Saved, SaveLimited, SaveRefused, SaveLost, SaveError, Detached, DetachFails, engine
  <2> QED BY <1>1, <2>1, <2>2 DEF Orderly
<1>6. CarriesCanvas'
  <2> SUFFICES ASSUME NEW q \in net \ {r} PROVE doc' \in {q.doc, Clean(q.doc)}
    BY <1>1 DEF CarriesCanvas, Orderly
  <2>1. doc \in {q.doc, Clean(q.doc)} /\ Clean(q.doc) = Clean(doc)
    BY SameClean DEF Orderly, Sound
  <2> QED BY <1>2, <1>3, <2>1
<1>7. Orderly'
  BY <1>1, <1>2, <1>3, <1>5, <1>6 DEF Orderly
<1>8. StatusIsTrue'
  <2>1. CASE Saved(r)
    <3>1. /\ rows[r.id].doc = Clean(r.doc) /\ rows[r.id].meta = r.meta /\ r.id > 0
          /\ signatureId' = r.id
      BY <2>1 DEF Saved, Hear, Orderly, CarriesCanvas, Sound, RowsOwed
    <3>2. CASE Adopts(r)
      BY <1>1, <2>1, <3>2 DEF Saved, StatusIsTrue
    <3>3. CASE ~Adopts(r)
      <4>1. doc' = doc /\ doc = Clean(r.doc)
        BY <1>2, <2>1, <3>3 DEF Saved, Adopts, Unchanged
      <4> QED BY <1>1, <1>2, <3>1, <4>1 DEF StatusIsTrue, LostDesign, LostMeta
    <3> QED BY <3>2, <3>3
  <2>2. CASE SaveLimited(r)
    BY <1>1, <2>2 DEF SaveLimited, StatusIsTrue
  <2>3. CASE SaveRefused(r) \/ SaveLost(r)
    BY <1>1, <2>3 DEF SaveRefused, SaveLost, SaveError, StatusIsTrue, LostDesign, LostMeta, canvas
  <2>4. CASE Detached(r)
    <3>1. signatureId' = 1 /\ r.id = 1 /\ doc' = Clean(r.doc) /\ edited' = FALSE
      BY <1>5, <2>4 DEF Detached, Hear, Orderly, Sound, RowsOwed
    <3>2. rows[r.id].doc = Clean(r.doc) /\ rows[r.id].meta = r.meta
      BY <2>4 DEF Detached, Hear, Orderly, CarriesCanvas
    <3> QED BY <1>1, <1>2, <3>1, <3>2 DEF StatusIsTrue, LostDesign, LostMeta
  <2>5. CASE DetachFails(r)
    BY <1>1, <2>5, QuietStatus DEF DetachFails, canvas, status, engine
  <2> QED BY <2>1, <2>2, <2>3, <2>4, <2>5
<1> QED BY <1>7, <1>8

LEMMA OrderlyStep ==
    ASSUME Patient
    PROVE  Sound /\ Orderly /\ StatusIsTrue /\ [Next]_vars => Orderly' /\ StatusIsTrue'
<1> SUFFICES ASSUME Sound, Orderly, StatusIsTrue, [Next]_vars PROVE Orderly' /\ StatusIsTrue'
  OBVIOUS
<1>1. CASE UNCHANGED vars \/ PauseEnds
  <2>1. UNCHANGED <<tab, loaded, doc, meta, edited, timer, isDirty, lastError, signatureId, link, detach,
                    net, rows>>
    BY <1>1 DEF vars, client, canvas, status, engine, waiting, world, PauseEnds
  <2>2. Orderly'
    BY <2>1 DEF Orderly, CarriesCanvas, AtRest
  <2> QED BY <2>1, <2>2, QuietStatus
<1>2. CASE Server
  BY <1>2, StoresOrderly, AnswersOrderly DEF Server
<1>3. CASE Hears
  BY <1>3, HearsOrderly DEF Hears
<1> QED BY <1>1, <1>2, <1>3, LoadsOrderly, ChangeOrderly, SavingOrderly, LeavingOrderly DEF Next

LEMMA InitOrderly ==
    ASSUME Patient
    PROVE  Init => Orderly /\ StatusIsTrue
<1> SUFFICES ASSUME Init PROVE Orderly /\ StatusIsTrue
  OBVIOUS
<1>1. \A i \in DOMAIN rows : rows[i].doc.kind = "plain"
  BY OpenedRow DEF Patient
<1>2. link # "free" => signatureId = 1
  BY OpenedRow
<1>3. net = {} /\ tab = "open" /\ doc.kind = "empty" /\ meta = 0 /\ ~edited /\ ~timer /\ ~isDirty
      /\ detach = "no"
  BY DEF Init, Blank
<1>4. loaded => signatureId = 0
  BY DEF Init
<1> QED BY <1>1, <1>2, <1>3, <1>4 DEF Orderly, CarriesCanvas, AtRest, StatusIsTrue, LostDesign, LostMeta

LEMMA SoundAlways == Spec => []Sound
<1>1. Init => OneAwaited
  BY DEF Init, OneAwaited
<1> QED BY <1>1, InitTypes, TypesStep, AwaitedStep, InitOwed, OwedStep, PTL DEF Spec, Sound

LEMMA OrderlyAlways ==
    ASSUME Patient
    PROVE  Spec => [](Orderly /\ StatusIsTrue)
BY InitOrderly, OrderlyStep, SoundAlways, PTL DEF Spec

\* While nobody edits during a save, a tab that goes away without the browser asking
\* takes no work with it, whatever was refused, limited or lost before.
THEOREM NothingLost ==
    ASSUME Patient
    PROVE  Spec => []NoSilentLoss
<1>1. Orderly /\ StatusIsTrue => NoSilentLoss
  BY DEF StatusIsTrue, NoSilentLoss
<1> QED BY <1>1, OrderlyAlways, PTL

\* ... and the canvas of a tab whose topbar says "Saved" is what the row holds.
THEOREM ScreenIsTrue ==
    ASSUME Patient
    PROVE  Spec => []ScreenShowsRow
<1>1. Orderly /\ StatusIsTrue => ScreenShowsRow
  BY DEF StatusIsTrue, ScreenShowsRow
<1> QED BY <1>1, OrderlyAlways, PTL
=============================================================================
