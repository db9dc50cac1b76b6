--------------------------- MODULE DeliveryProofs ---------------------------
(***************************************************************************)
(* The compiled HTML and its way to Gmail, for every number of signatures, *)
(* designs, states of the inputs, changes and failures.                    *)
(***************************************************************************)
EXTENDS GmailPush, FiniteSetTheorems, WellFoundedInduction, TLAPS

\* The types; and a pass that is at a signature has it on its page.
DeliveryTypes ==
    /\ DeliveryTypeOK
    /\ record.retries <= failures
    /\ pass.at \in {"retry", "compiled", "checked"} => pass.page # {}

-----------------------------------------------------------------------------
\* Every write falls into a second of its own, and no request comes between a check
\* and its write.
OneByOne == ~SameSecond /\ ~Overlap

\* What the editor or the browser will store is what it says it is.
TrueWhenStored ==
    /\ saving # NoSave =>
          /\ pass.at # "checked"
          /\ ~saving.outdated => saving.html = <<saving.design, inputs>>
    /\ pass.at = "compiled" =>
          LET r == rows[Min(pass.page)]
          IN  /\ pass.updated <= now
              /\ pass.updated = r.updated => pass.html[1] = r.design
    /\ pass.at = "checked" => pass.html = <<rows[Min(pass.page)].design, inputs>>

\* No row is newer than the last write.
InThePast == \A i \in Ids : rows[i].updated <= now /\ rows[i].compiled <= now

TrueHtml == TrueWhenStored /\ InThePast /\ FreshHtmlIsTrue

\* Any reader who compares the record with the mailbox finds them equal.
RecordIsMailbox == record.hash = mailbox

-----------------------------------------------------------------------------
(* The types. *)

LEMMA SmallestOne ==
    ASSUME NEW S \in SUBSET Nat, S # {}
    PROVE  Min(S) \in S /\ \A n \in S : Min(S) <= n
<1> DEFINE Upto(n) == 0 .. n
           T == {Upto(n) : n \in S}
           R == StrictSubsetOrdering(Nat)
<1>1. T \subseteq FiniteSubsetsOf(Nat)
  <2>1. \A n \in S : Upto(n) \subseteq Nat /\ IsFiniteSet(Upto(n))
    BY FS_Interval
  <2> QED BY <2>1 DEF FiniteSubsetsOf
<1>2. T # {}
  OBVIOUS
<1>3. PICK x \in T : \A y \in T : ~ (<<y, x>> \in R)
  <2>1. IsWellFoundedOn(R, FiniteSubsetsOf(Nat))
    BY FS_StrictSubsetOrderingWellFounded
  <2> HIDE DEF T, R
  <2> QED BY <1>1, <1>2, <2>1, WFMin
<1>4. PICK m \in S : x = Upto(m)
  BY <1>3
<1>5. \A n \in S : m <= n
  <2> SUFFICES ASSUME NEW n \in S, n < m PROVE FALSE
    OBVIOUS
  <2>1. /\ Upto(n) \subseteq Nat /\ Upto(m) \subseteq Nat /\ Upto(n) \subseteq Upto(m)
        /\ m \in Upto(m) /\ m \notin Upto(n)
    OBVIOUS
  <2>2. <<Upto(n), Upto(m)>> \in R
    <3> HIDE DEF Upto
    <3> QED BY <2>1 DEF StrictSubsetOrdering
  <2> QED BY <1>3, <1>4, <2>2
<1> QED BY <1>5 DEF Min

LEMMA InitDelivery == Init => DeliveryTypes
<1> SUFFICES ASSUME Init PROVE DeliveryTypes
  OBVIOUS
<1>1. Min(Inputs) \in Inputs /\ Min(Designs) \in Designs
  BY CompiledHtmlAssumption, SmallestOne
<1>2. rows \in [Ids -> [design : Designs, html : Html, compiled : Nat, updated : Nat]]
  BY <1>1 DEF Init, CompiledHtmlInit, Html, NoHtml
<1>3. inputs \in Inputs /\ window \in Nat
  BY <1>1, CompiledHtmlAssumption DEF Init, CompiledHtmlInit
<1>4. pass = Idle /\ Idle \in [at : {"idle", "list", "item", "retry", "compiled", "checked"},
                 page : SUBSET Ids, last : BOOLEAN, after : {0} \cup Ids,
                 attempt : {0, 1}, updated : Nat, html : Html]
  BY DEF Init, CompiledHtmlInit, Idle, Html
<1>5. CompiledHtmlTypeOK
  BY <1>2, <1>3, <1>4 DEF Init, CompiledHtmlInit, CompiledHtmlTypeOK
<1>6. DeliveryTypeOK
  BY <1>5, GmailPushAssumption DEF Init, GmailPushInit, DeliveryTypeOK, Html
<1> QED BY <1>4, <1>6 DEF DeliveryTypes, Init, GmailPushInit, Idle

\* A row is written.
LEMMA StoreTypes ==
    ASSUME CompiledHtmlTypeOK, NEW i \in Ids, NEW d \in Designs, NEW h \in Html, NEW o \in BOOLEAN,
           StoreHtml(i, d, h, o) \/ StoreDesign(i, d)
    PROVE  /\ now' \in Nat
           /\ rows' \in [Ids -> [design : Designs, html : Html, compiled : Nat, updated : Nat]]
<1>1. PICK t \in Instants :
        /\ now' = t
        /\ \/ rows' = [rows EXCEPT ![i] =
                 [design |-> d, html |-> h, compiled |-> IF o THEN 0 ELSE t, updated |-> t]]
           \/ rows' = [rows EXCEPT ![i].design = d, ![i].updated = t]
  BY DEF StoreHtml, StoreDesign
<1>2. t \in Nat
  BY <1>1 DEF Instants, CompiledHtmlTypeOK
<1> QED BY <1>1, <1>2 DEF CompiledHtmlTypeOK

\* The signature a pass is at.
LEMMA AtSignature ==
    ASSUME CompiledHtmlTypeOK, pass.page # {}
    PROVE  Min(pass.page) \in Ids /\ Min(pass.page) \in pass.page
BY CompiledHtmlAssumption, SmallestOne DEF CompiledHtmlTypeOK

Pages == [at : {"idle", "list", "item", "retry", "compiled", "checked"},
          page : SUBSET Ids, last : BOOLEAN, after : {0} \cup Ids,
          attempt : {0, 1}, updated : Nat, html : Html]

\* The places of a pass keep their types.
LEMMA PassTypes ==
    ASSUME CompiledHtmlTypeOK, pass.at \in {"retry", "compiled", "checked"} => pass.page # {},
           StartPass \/ Recompile
    PROVE  /\ pass' \in Pages
           /\ pass'.at \in {"retry", "compiled", "checked"} => pass'.page # {}
<1> USE DEF Pages
<1>1. pass \in Pages /\ inputs \in Inputs
  BY DEF CompiledHtmlTypeOK
<1>2. Idle \in Pages
  BY DEF Idle, Html
<1>3. CASE StartPass
  BY <1>2, <1>3 DEF StartPass, Idle
<1>4. CASE ListStale
  <2> DEFINE found == StaleAfter(pass.after)
             page  == {i \in found : Cardinality({j \in found : j < i}) < PageSize}
             last  == Cardinality(page) < PageSize
  <2>1. page \in SUBSET Ids /\ last \in BOOLEAN
    BY DEF StaleAfter
  <2>2. pass' = [pass EXCEPT !.at = "item", !.page = page, !.last = last]
    BY <1>4 DEF ListStale
  <2> HIDE DEF page, last
  <2> QED BY <1>1, <2>1, <2>2
<1>5. CASE LoadContext
  <2>1. Min(pass.page) \in Ids
    BY <1>5, AtSignature DEF LoadContext
  <2>2. rows[Min(pass.page)].updated \in Nat /\ rows[Min(pass.page)].design \in Designs
    BY <2>1 DEF CompiledHtmlTypeOK
  <2>3. <<rows[Min(pass.page)].design, inputs>> \in Html
    BY <1>1, <2>2 DEF Html
  <2>4. PICK a \in {0, 1} : pass' = [pass EXCEPT !.at = "compiled", !.updated = rows[Min(pass.page)].updated,
                                !.attempt = a, !.html = <<rows[Min(pass.page)].design, inputs>>]
    BY <1>5 DEF LoadContext
  <2> QED BY <1>1, <1>5, <2>2, <2>3, <2>4 DEF LoadContext
<1>6. CASE pass.at \in {"compiled", "checked"} /\ pass' = NextItem
  <2>1. Min(pass.page) \in Ids
    BY <1>6, AtSignature
  <2> QED BY <1>1, <1>2, <1>6, <2>1 DEF NextItem, Idle
<1>7. CASE StoreChecks
  <2>1. NoHtml \in Html
    BY DEF Html
  <2> QED BY <1>1, <1>6, <1>7, <2>1 DEF StoreChecks
<1>8. CASE StoreWrites
  BY <1>6, <1>8 DEF StoreWrites
<1>9. CASE PageDone
  BY <1>1, <1>2, <1>9 DEF PageDone, Idle
<1> QED BY <1>3, <1>4, <1>5, <1>7, <1>8, <1>9 DEF Recompile

\* What people do to the tables and the inputs, and what follows from it.
LEMMA ChangeTypes ==
    ASSUME CompiledHtmlTypeOK, CompiledHtmlNext, ~ (StartPass \/ Recompile)
    PROVE  CompiledHtmlTypeOK' /\ UNCHANGED pass
<1> USE DEF tables
<1>1. ASSUME NEW i \in Ids, NEW d \in Designs, NEW p \in Inputs, SaveChecks(i, d, p)
      PROVE  CompiledHtmlTypeOK' /\ UNCHANGED pass
  <2>1. <<d, p>> \in Html
    BY DEF Html
  <2> QED BY <1>1, <2>1 DEF SaveChecks, CompiledHtmlTypeOK
<1>2. ASSUME SaveWrites PROVE CompiledHtmlTypeOK' /\ UNCHANGED pass
  <2>1. saving \in [id : Ids, design : Designs, html : Html, outdated : BOOLEAN]
    BY <1>2 DEF SaveWrites, CompiledHtmlTypeOK
  <2>2. /\ now' \in Nat
        /\ rows' \in [Ids -> [design : Designs, html : Html, compiled : Nat, updated : Nat]]
    BY <1>2, <2>1, StoreTypes DEF SaveWrites
  <2> QED BY <1>2, <2>2 DEF SaveWrites, CompiledHtmlTypeOK
<1>3. ASSUME NEW i \in Ids, NEW d \in Designs, Rewrite(i, d)
      PROVE  CompiledHtmlTypeOK' /\ UNCHANGED pass
  <2>1. NoHtml \in Html /\ TRUE \in BOOLEAN
    BY DEF Html
  <2>2. /\ now' \in Nat
        /\ rows' \in [Ids -> [design : Designs, html : Html, compiled : Nat, updated : Nat]]
    BY <1>3, <2>1, StoreTypes DEF Rewrite
  <2> QED BY <1>3, <2>2 DEF Rewrite, CompiledHtmlTypeOK
<1>4. ASSUME NEW i \in Ids, SetPrimary(i) PROVE CompiledHtmlTypeOK' /\ UNCHANGED pass
  BY <1>4 DEF SetPrimary, CompiledHtmlTypeOK
<1>5. ASSUME NEW v \in Inputs, ChangeInputs(v) \/ DayTurns(v)
      PROVE  CompiledHtmlTypeOK' /\ UNCHANGED pass
  BY <1>5, CompiledHtmlAssumption DEF ChangeInputs, DayTurns, CompiledHtmlTypeOK
<1>6. ASSUME CheckWindow PROVE CompiledHtmlTypeOK' /\ UNCHANGED pass
  BY <1>6, CompiledHtmlAssumption DEF CheckWindow, CompiledHtmlTypeOK
<1>7. ASSUME Mark PROVE CompiledHtmlTypeOK' /\ UNCHANGED pass
  <2>1. rows' \in [Ids -> [design : Designs, html : Html, compiled : Nat, updated : Nat]]
    BY <1>7 DEF Mark, CompiledHtmlTypeOK
  <2> QED BY <1>7, <2>1 DEF Mark, CompiledHtmlTypeOK
<1> QED BY <1>1, <1>2, <1>3, <1>4, <1>5, <1>6, <1>7 DEF CompiledHtmlNext

LEMMA HtmlTypes ==
    ASSUME CompiledHtmlTypeOK, pass.at \in {"retry", "compiled", "checked"} => pass.page # {},
           CompiledHtmlNext
    PROVE  /\ CompiledHtmlTypeOK'
           /\ pass'.at \in {"retry", "compiled", "checked"} => pass'.page # {}
<1>1. CASE ~ (StartPass \/ Recompile)
  BY <1>1, ChangeTypes
<1>2. CASE StartPass \/ Recompile
  <2>1. /\ pass' \in Pages
        /\ pass'.at \in {"retry", "compiled", "checked"} => pass'.page # {}
    BY <1>2, PassTypes
  <2>2. CASE ~StoreWrites
    <3>1. UNCHANGED <<tables, inputs, window, unmarked, saving>>
      BY <1>2, <2>2 DEF StartPass, Recompile, ListStale, LoadContext, StoreChecks, PageDone
    <3> QED BY <2>1, <3>1 DEF CompiledHtmlTypeOK, tables, Pages
  <2>3. CASE StoreWrites
    <3> DEFINE i == Min(pass.page)
    <3>1. i \in Ids
      BY <2>3, AtSignature DEF StoreWrites
    <3>2. /\ rows[i].design \in Designs /\ pass.html \in Html
          /\ StoreHtml(i, rows[i].design, pass.html, FALSE)
      BY <2>3, <3>1 DEF StoreWrites, CompiledHtmlTypeOK
    <3>3. /\ now' \in Nat
          /\ rows' \in [Ids -> [design : Designs, html : Html, compiled : Nat, updated : Nat]]
      <4> HIDE DEF i
      <4> QED BY <3>1, <3>2, StoreTypes
    <3> QED BY <2>1, <2>3, <3>3 DEF StoreWrites, CompiledHtmlTypeOK, Pages
  <2> QED BY <2>2, <2>3
<1> QED BY <1>1, <1>2

\* The push: what is sent, recorded and in the mailbox is HTML of a row; every
\* failure counts once.
LEMMA PushTypes ==
    ASSUME DeliveryTypes, GmailPushNext, UNCHANGED htmlVars
    PROVE  DeliveryTypes'
<1> USE DEF DeliveryTypes, DeliveryTypeOK
<1>1. CompiledHtmlTypeOK' /\ (pass'.at \in {"retry", "compiled", "checked"} => pass'.page # {})
  BY DEF htmlVars, tables, CompiledHtmlTypeOK
<1>2. NoHtml \in Html
  BY DEF Html
<1>3. \A i \in Ids : rows[i].html \in Html
  BY DEF CompiledHtmlTypeOK
<1>4. ASSUME NEW force \in BOOLEAN, Reads(force), pending' \in {pending, "no"}
      PROVE  DeliveryTypes'
  <2>1. sending' \in Html
    BY <1>2, <1>3, <1>4 DEF Reads
  <2>2. record' \in [hash : Html, error : BOOLEAN, retries : 0..MaxFailures]
        /\ record'.retries = record.retries
    BY <1>4 DEF Reads
  <2> QED BY <1>1, <1>4, <2>1, <2>2 DEF Reads
<1>5. CASE EventFires \/ DailyFires \/ AdminPushes
  BY <1>4, <1>5 DEF EventFires, DailyFires, AdminPushes
<1>6. CASE Pushed
  BY <1>1, <1>2, <1>6, GmailPushAssumption DEF Pushed
<1>7. ASSUME NEW retryable \in BOOLEAN, Failed(retryable)
      PROVE  DeliveryTypes'
  <2>1. /\ failures \in Nat /\ failures < MaxFailures /\ failures' = failures + 1
        /\ failures' \in 0..MaxFailures
    BY <1>7, GmailPushAssumption DEF Failed
  <2>2. PICK n \in {record.retries + 1, 0} : record' = [record EXCEPT !.error = TRUE, !.retries = n]
    BY <1>7 DEF Failed
  <2>3. n \in 0 .. MaxFailures /\ n <= failures'
    BY <2>1, <2>2, GmailPushAssumption
  <2>4. record' \in [hash : Html, error : BOOLEAN, retries : 0..MaxFailures]
        /\ record'.retries <= failures'
    BY <2>2, <2>3
  <2>5. mailbox' \in Html /\ sending' \in Html /\ pending' \in {"no", "soon", "later"}
    BY <1>2, <1>7 DEF Failed, Sooner
  <2> QED BY <1>1, <2>1, <2>4, <2>5
<1> QED BY <1>5, <1>6, <1>7 DEF GmailPushNext

LEMMA TypesNext == DeliveryTypes /\ [Next]_vars => DeliveryTypes'
<1> SUFFICES ASSUME DeliveryTypes, [Next]_vars PROVE DeliveryTypes'
  OBVIOUS
<1>1. CASE CompiledHtmlNext /\ OnPrimaryHtmlChanged
  <2>1. CompiledHtmlTypeOK' /\ (pass'.at \in {"retry", "compiled", "checked"} => pass'.page # {})
    BY <1>1, HtmlTypes DEF DeliveryTypes, DeliveryTypeOK
  <2>2. pending' \in {"no", "soon", "later"} /\ UNCHANGED <<sending, record, mailbox, failures>>
    BY <1>1 DEF OnPrimaryHtmlChanged, Sooner, DeliveryTypes, DeliveryTypeOK
  <2> QED BY <2>1, <2>2 DEF DeliveryTypes, DeliveryTypeOK
<1>2. CASE GmailPushNext /\ UNCHANGED htmlVars
  BY <1>2, PushTypes
<1>3. CASE UNCHANGED vars
  BY <1>3 DEF vars, htmlVars, tables, gmailVars, DeliveryTypes, DeliveryTypeOK, CompiledHtmlTypeOK
<1> QED BY <1>1, <1>2, <1>3 DEF Next

LEMMA DeliveryTypesHold == Spec => []DeliveryTypes
BY InitDelivery, TypesNext, PTL DEF Spec

\* The signatures, the save under way, the pass, the push and its record keep their
\* types; retries never exceed the failures there were.
THEOREM TypesHold == Spec => []DeliveryTypeOK
<1>1. DeliveryTypes => DeliveryTypeOK
  BY DEF DeliveryTypes
<1> QED BY <1>1, DeliveryTypesHold, PTL

-----------------------------------------------------------------------------
(* Fresh HTML is what the owner's editor would compile now. *)

LEMMA InitTrue == Init => TrueHtml
<1> SUFFICES ASSUME Init PROVE TrueHtml
  OBVIOUS
<1>1. saving = NoSave /\ pass.at = "idle"
  BY DEF Init, CompiledHtmlInit, Idle
<1>2. \A i \in Ids : /\ rows[i].updated <= now /\ rows[i].compiled <= now
                     /\ ~IsStale(rows[i]) => rows[i].html = <<rows[i].design, inputs>>
  BY DEF Init, CompiledHtmlInit, IsStale
<1> QED BY <1>1, <1>2 DEF TrueHtml, TrueWhenStored, InThePast, FreshHtmlIsTrue

\* A write of a row falls into a second of its own: what was read of the row before
\* does not pass for the row as it is now, and what was compiled before is stale.
LEMMA WriteIsLater ==
    ASSUME OneByOne, CompiledHtmlTypeOK, InThePast,
           NEW i \in Ids, NEW d \in Designs, NEW h \in Html, NEW o \in BOOLEAN,
           StoreHtml(i, d, h, o) \/ StoreDesign(i, d)
    PROVE  /\ InThePast'
           /\ now' = now + 1 /\ rows'[i].updated = now'
           /\ \A j \in Ids \ {i} : rows'[j] = rows[j]
           /\ StoreDesign(i, d) => rows'[i].design = d /\ rows'[i].compiled < rows'[i].updated
           /\ StoreHtml(i, d, h, o) =>
                 /\ rows'[i].design = d /\ rows'[i].html = h
                 /\ o => rows'[i].compiled = 0
<1>1. now \in Nat
  BY DEF CompiledHtmlTypeOK
<1>2. Instants = {now + 1}
  BY DEF OneByOne, Instants
<1>3. rows \in [Ids -> [design : Designs, html : Html, compiled : Nat, updated : Nat]]
  BY DEF CompiledHtmlTypeOK
<1>4. \A j \in Ids : /\ rows[j].updated \in Nat /\ rows[j].compiled \in Nat
                     /\ rows[j].updated <= now /\ rows[j].compiled <= now
  BY <1>3 DEF InThePast
<1>5. CASE StoreHtml(i, d, h, o)
  <2>1. now' = now + 1
        /\ rows' = [rows EXCEPT ![i] = [design |-> d, html |-> h,
                       compiled |-> IF o THEN 0 ELSE now + 1, updated |-> now + 1]]
    BY <1>2, <1>5 DEF StoreHtml
  <2>2. \A j \in Ids \ {i} : rows'[j] = rows[j]
    BY <1>3, <2>1
  <2>3. rows'[i] = [design |-> d, html |-> h,
                    compiled |-> IF o THEN 0 ELSE now + 1, updated |-> now + 1]
    BY <1>3, <2>1
  <2>4. InThePast'
    BY <1>1, <1>4, <2>1, <2>2, <2>3 DEF InThePast
  <2>5. ~StoreDesign(i, d) \/ rows'[i] = [rows[i] EXCEPT !.design = d, !.updated = now + 1]
    BY <1>2, <1>3 DEF StoreDesign
  <2>6. StoreDesign(i, d) => rows'[i].compiled < rows'[i].updated
    <3> SUFFICES ASSUME rows'[i] = [rows[i] EXCEPT !.design = d, !.updated = now + 1]
                 PROVE  rows'[i].compiled < rows'[i].updated
      BY <2>5
    <3>1. rows[i] \in [design : Designs, html : Html, compiled : Nat, updated : Nat]
      BY <1>3
    <3>2. rows'[i].compiled = rows[i].compiled /\ rows'[i].updated = now + 1
      BY <3>1
    <3> QED BY <1>1, <1>4, <3>2
  <2> QED BY <2>1, <2>2, <2>3, <2>4, <2>6
<1>6. CASE StoreDesign(i, d) /\ ~StoreHtml(i, d, h, o)
  <2>1. now' = now + 1
        /\ rows' = [rows EXCEPT ![i].design = d, ![i].updated = now + 1]
    BY <1>2, <1>6 DEF StoreDesign
  <2>2. \A j \in Ids \ {i} : rows'[j] = rows[j]
    BY <1>3, <2>1
  <2>3. rows'[i] = [rows[i] EXCEPT !.design = d, !.updated = now + 1]
    BY <1>3, <2>1
  <2>4. /\ rows'[i].design = d /\ rows'[i].updated = now + 1
        /\ rows'[i].compiled = rows[i].compiled
    BY <1>3, <2>3
  <2>5. now' = now + 1
    BY <2>1
  <2>6. InThePast'
    <3> SUFFICES ASSUME NEW j \in Ids
                 PROVE  rows'[j].updated <= now + 1 /\ rows'[j].compiled <= now + 1
      BY <2>5 DEF InThePast
    <3> QED BY <1>1, <1>4, <2>2, <2>4
  <2>7. rows'[i].compiled < rows'[i].updated
    BY <1>1, <1>4, <2>4
  <2> QED BY <1>6, <2>2, <2>4, <2>5, <2>6, <2>7
<1> QED BY <1>5, <1>6

\* After such a write what a pass has compiled is still what it says.
LEMMA WriteKeepsPass ==
    ASSUME OneByOne, DeliveryTypes, TrueHtml, pass.at # "checked", UNCHANGED pass,
           NEW i \in Ids, now' = now + 1, rows'[i].updated = now',
           \A j \in Ids \ {i} : rows'[j] = rows[j], saving' = NoSave
    PROVE  TrueWhenStored'
<1>1. CASE pass.at # "compiled"
  BY <1>1 DEF TrueWhenStored
<1>2. CASE pass.at = "compiled"
  <2> DEFINE k == Min(pass.page)
  <2>1. k \in Ids /\ pass.page' = pass.page /\ now \in Nat /\ pass.updated \in Nat
    BY <1>2, AtSignature DEF DeliveryTypes, DeliveryTypeOK, CompiledHtmlTypeOK
  <2>2. /\ pass.updated <= now
        /\ pass.updated = rows[k].updated => pass.html[1] = rows[k].design
    BY <1>2 DEF TrueHtml, TrueWhenStored
  <2>3. /\ pass.updated <= now'
        /\ pass.updated = rows'[k].updated => pass.html[1] = rows'[k].design
    <3> HIDE DEF k
    <3> QED BY <2>1, <2>2
  <2> QED BY <1>2, <2>3 DEF TrueWhenStored
<1> QED BY <1>1, <1>2

\* A save from the editor.
LEMMA SaveKeepsTrue ==
    ASSUME OneByOne, DeliveryTypes, TrueHtml,
           \/ SaveWrites
           \/ \E i \in Ids, d \in Designs, p \in Inputs : SaveChecks(i, d, p)
    PROVE  TrueHtml'
<1> USE DEF tables
<1>1. ASSUME NEW i \in Ids, NEW d \in Designs, NEW p \in Inputs, SaveChecks(i, d, p)
      PROVE  TrueHtml'
  <2>1. saving = NoSave /\ pass.at # "checked"
    BY <1>1 DEF SaveChecks, Act, OneByOne
  <2>2. ~saving'.outdated => saving'.html = <<saving'.design, inputs>>
    BY <1>1 DEF SaveChecks
  <2>3. UNCHANGED <<now, rows, inputs, window, unmarked, pass>>
    BY <1>1 DEF SaveChecks
  <2> QED BY <2>1, <2>2, <2>3 DEF TrueHtml, TrueWhenStored, InThePast, FreshHtmlIsTrue, IsStale
<1>2. CASE SaveWrites
  <2>1. saving \in [id : Ids, design : Designs, html : Html, outdated : BOOLEAN]
    BY <1>2 DEF SaveWrites, DeliveryTypes, DeliveryTypeOK, CompiledHtmlTypeOK
  <2> DEFINE i == saving.id
             d == saving.design
             h == saving.html
             o == saving.outdated
  <2>2. StoreHtml(i, d, h, o) /\ saving' = NoSave /\ UNCHANGED <<inputs, window, unmarked, pass>>
    BY <1>2 DEF SaveWrites
  <2>3. pass.at # "checked" /\ (~o => h = <<d, inputs>>)
    BY <1>2 DEF SaveWrites, TrueHtml, TrueWhenStored
  <2>4. i \in Ids /\ d \in Designs /\ h \in Html /\ o \in BOOLEAN /\ CompiledHtmlTypeOK /\ InThePast
    BY <2>1 DEF DeliveryTypes, DeliveryTypeOK, TrueHtml
  <2> HIDE DEF i, d, h, o
  <2>5. /\ InThePast'
        /\ now' = now + 1 /\ rows'[i].updated = now'
        /\ \A j \in Ids \ {i} : rows'[j] = rows[j]
        /\ rows'[i].design = d /\ rows'[i].html = h
        /\ o => rows'[i].compiled = 0
    BY <2>2, <2>4, WriteIsLater
  <2>6. TrueWhenStored'
    BY <2>2, <2>3, <2>4, <2>5, WriteKeepsPass
  <2>7. FreshHtmlIsTrue'
    BY <2>2, <2>3, <2>4, <2>5 DEF FreshHtmlIsTrue, IsStale, TrueHtml
  <2> QED BY <2>5, <2>6, <2>7 DEF TrueHtml
<1> QED BY <1>1, <1>2

\* The inputs change, and the hooks mark what was compiled from the old ones.
LEMMA InputsKeepTrue ==
    ASSUME OneByOne, DeliveryTypes, TrueHtml,
           \/ \E v \in Inputs : ChangeInputs(v) \/ DayTurns(v)
           \/ CheckWindow \/ Mark
    PROVE  TrueHtml'
<1> USE DEF tables
<1>1. ASSUME NEW v \in Inputs, ChangeInputs(v) \/ DayTurns(v) PROVE TrueHtml'
  <2>1. saving = NoSave /\ pass.at # "checked"
    BY <1>1 DEF ChangeInputs, DayTurns, Act, OneByOne
  <2>2. UNCHANGED <<now, rows, saving, pass>>
    BY <1>1 DEF ChangeInputs, DayTurns
  <2>3. TrueWhenStored' /\ InThePast'
    BY <2>1, <2>2 DEF TrueHtml, TrueWhenStored, InThePast
  <2>4. unmarked' \/ window' # CampaignsOf[inputs']
    BY <1>1 DEF ChangeInputs, DayTurns
  <2> QED BY <2>3, <2>4 DEF TrueHtml, FreshHtmlIsTrue
<1>2. CASE CheckWindow
  <2>1. UNCHANGED <<now, rows, inputs, saving, pass>> /\ unmarked'
    BY <1>2 DEF CheckWindow
  <2> QED BY <2>1 DEF TrueHtml, TrueWhenStored, InThePast, FreshHtmlIsTrue
<1>3. CASE Mark
  <2>1. /\ UNCHANGED <<now, inputs, saving, pass>> /\ saving = NoSave /\ pass.at # "checked"
        /\ rows' = [i \in Ids |-> [rows[i] EXCEPT !.compiled = 0]]
    BY <1>3 DEF Mark, OneByOne
  <2>2. now \in Nat
        /\ rows \in [Ids -> [design : Designs, html : Html, compiled : Nat, updated : Nat]]
    BY DEF DeliveryTypes, DeliveryTypeOK, CompiledHtmlTypeOK
  <2>3. \A i \in Ids : rows'[i].compiled = 0 /\ rows'[i].updated = rows[i].updated
                       /\ rows'[i].design = rows[i].design
    BY <2>1, <2>2
  <2>4. InThePast'
    BY <2>1, <2>2, <2>3 DEF TrueHtml, InThePast
  <2>5. CASE pass.at = "compiled"
    <3>1. Min(pass.page) \in Ids /\ pass.page' = pass.page
      BY <2>1, <2>5, AtSignature DEF DeliveryTypes, DeliveryTypeOK
    <3> QED BY <2>1, <2>3, <2>4, <2>5, <3>1 DEF TrueHtml, TrueWhenStored, FreshHtmlIsTrue, IsStale
  <2>6. CASE pass.at # "compiled"
    BY <2>1, <2>3, <2>4, <2>6 DEF TrueHtml, TrueWhenStored, FreshHtmlIsTrue, IsStale
  <2> QED BY <2>5, <2>6
<1> QED BY <1>1, <1>2, <1>3

\* The recompilation in the administrator's browser.
LEMMA PassKeepsTrue ==
    ASSUME OneByOne, DeliveryTypes, TrueHtml, StartPass \/ Recompile
    PROVE  TrueHtml'
<1> USE DEF tables
<1> DEFINE k == Min(pass.page)
<1>1. rows \in [Ids -> [design : Designs, html : Html, compiled : Nat, updated : Nat]]
      /\ now \in Nat /\ inputs \in Inputs
  BY DEF DeliveryTypes, DeliveryTypeOK, CompiledHtmlTypeOK
<1>2. ASSUME UNCHANGED <<tables, inputs, window, unmarked, saving>>, TrueWhenStored' PROVE TrueHtml'
  BY <1>2 DEF TrueHtml, InThePast, FreshHtmlIsTrue, IsStale
<1>3. CASE StartPass \/ ListStale \/ PageDone
  <2>1. pass'.at \notin {"compiled", "checked"}
    <3>1. pass \in Pages
      BY DEF DeliveryTypes, DeliveryTypeOK, CompiledHtmlTypeOK, Pages
    <3>2. CASE StartPass
      BY <3>2 DEF StartPass, Idle
    <3>3. CASE ListStale
      BY <3>1, <3>3 DEF ListStale, Pages
    <3>4. CASE PageDone
      BY <3>1, <3>4 DEF PageDone, Idle, Pages
    <3> QED BY <1>3, <3>2, <3>3, <3>4
  <2>2. UNCHANGED <<tables, inputs, window, unmarked, saving>>
    BY <1>3 DEF StartPass, ListStale, PageDone
  <2>3. TrueWhenStored'
    BY <2>1, <2>2 DEF TrueHtml, TrueWhenStored
  <2> QED BY <1>2, <2>2, <2>3
<1>4. CASE LoadContext
  <2>1. k \in Ids
    BY <1>4, AtSignature DEF LoadContext, DeliveryTypes, DeliveryTypeOK
  <2>2. pass \in Pages
    BY DEF DeliveryTypes, DeliveryTypeOK, CompiledHtmlTypeOK, Pages
  <2>3. /\ pass'.at = "compiled" /\ pass'.page = pass.page
        /\ pass'.updated = rows[k].updated /\ pass'.html = <<rows[k].design, inputs>>
    BY <1>4, <2>2 DEF LoadContext, Pages
  <2>4. UNCHANGED <<tables, inputs, window, unmarked, saving>>
    BY <1>4 DEF LoadContext
  <2>5. TrueWhenStored'
    BY <2>1, <2>3, <2>4 DEF TrueHtml, TrueWhenStored, InThePast
  <2> QED BY <1>2, <2>4, <2>5
<1>5. CASE StoreChecks
  <2>1. pass \in Pages
    BY DEF DeliveryTypes, DeliveryTypeOK, CompiledHtmlTypeOK, Pages
  <2>2. saving = NoSave /\ UNCHANGED <<tables, inputs, window, unmarked, saving>>
    BY <1>5 DEF StoreChecks, OneByOne
  <2>3. CASE ~Conflict
    <3>1. pass'.at = "checked" /\ pass'.page = pass.page /\ pass'.html = pass.html
      BY <1>5, <2>1, <2>3 DEF StoreChecks, Pages
    <3>2. pass.html[1] = rows[k].design /\ pass.html[2] = inputs
      BY <1>5, <2>3 DEF StoreChecks, Conflict, TrueHtml, TrueWhenStored
    <3>3. pass.html = <<rows[k].design, inputs>>
      BY <2>1, <3>2 DEF Pages, Html, NoHtml
    <3>4. TrueWhenStored'
      BY <2>2, <3>1, <3>3 DEF TrueWhenStored
    <3> QED BY <1>2, <2>2, <3>4
  <2>4. CASE Conflict
    <3>1. pass'.at \in {"retry", "item"}
      BY <1>5, <2>1, <2>4 DEF StoreChecks, NextItem, Idle, Pages
    <3>2. TrueWhenStored'
      BY <2>2, <3>1 DEF TrueWhenStored
    <3> QED BY <1>2, <2>2, <3>2
  <2> QED BY <2>3, <2>4
<1>6. CASE StoreWrites
  <2>1. k \in Ids /\ saving = NoSave /\ pass.html = <<rows[k].design, inputs>>
    BY <1>6, AtSignature DEF StoreWrites, DeliveryTypes, DeliveryTypeOK, TrueHtml, TrueWhenStored
  <2> DEFINE d == rows[k].design
  <2>2. d \in Designs /\ pass.html \in Html /\ StoreHtml(k, d, pass.html, FALSE)
        /\ CompiledHtmlTypeOK /\ InThePast
    BY <1>1, <1>6, <2>1 DEF StoreWrites, DeliveryTypes, DeliveryTypeOK, CompiledHtmlTypeOK, TrueHtml
  <2>3. pass'.at = "item" /\ saving' = NoSave /\ UNCHANGED <<inputs, window, unmarked>>
    BY <1>6, <2>1 DEF StoreWrites, NextItem, Idle
  <2>4. pass.html = <<d, inputs>>
    BY <2>1
  <2> HIDE DEF k, d
  <2>5. /\ InThePast'
        /\ \A j \in Ids \ {k} : rows'[j] = rows[j]
        /\ rows'[k].design = d /\ rows'[k].html = pass.html
    BY <2>1, <2>2, WriteIsLater
  <2>6. TrueWhenStored'
    BY <2>3 DEF TrueWhenStored
  <2>7. FreshHtmlIsTrue'
    BY <2>1, <2>3, <2>4, <2>5 DEF FreshHtmlIsTrue, IsStale, TrueHtml
  <2> QED BY <2>5, <2>6, <2>7 DEF TrueHtml
<1> QED BY <1>3, <1>4, <1>5, <1>6 DEF Recompile

LEMMA TrueNext == OneByOne /\ DeliveryTypes /\ TrueHtml /\ [Next]_vars => TrueHtml'
<1> SUFFICES ASSUME OneByOne, DeliveryTypes, TrueHtml, [Next]_vars PROVE TrueHtml'
  OBVIOUS
<1>1. ASSUME UNCHANGED htmlVars PROVE TrueHtml'
  BY <1>1 DEF htmlVars, tables, TrueHtml, TrueWhenStored, InThePast, FreshHtmlIsTrue, IsStale
<1>2. ASSUME NEW i \in Ids, NEW d \in Designs, Rewrite(i, d) PROVE TrueHtml'
  <2>1. StoreDesign(i, d) /\ saving' = NoSave /\ pass.at # "checked"
        /\ UNCHANGED <<inputs, window, unmarked, pass>>
    BY <1>2 DEF Rewrite, Act, OneByOne
  <2>2. NoHtml \in Html /\ TRUE \in BOOLEAN /\ CompiledHtmlTypeOK /\ InThePast
    BY DEF Html, DeliveryTypes, DeliveryTypeOK, TrueHtml
  <2>3. /\ InThePast'
        /\ now' = now + 1 /\ rows'[i].updated = now'
        /\ \A j \in Ids \ {i} : rows'[j] = rows[j]
        /\ rows'[i].compiled < rows'[i].updated
    BY <2>1, <2>2, WriteIsLater
  <2>4. TrueWhenStored'
    BY <2>1, <2>3, WriteKeepsPass
  <2>5. FreshHtmlIsTrue'
    BY <2>1, <2>3 DEF FreshHtmlIsTrue, IsStale, TrueHtml
  <2> QED BY <2>3, <2>4, <2>5 DEF TrueHtml
<1>3. ASSUME NEW i \in Ids, SetPrimary(i) PROVE TrueHtml'
  BY <1>3 DEF SetPrimary, TrueHtml, TrueWhenStored, InThePast, FreshHtmlIsTrue, IsStale
<1>4. CASE CompiledHtmlNext
  BY <1>2, <1>3, <1>4, SaveKeepsTrue, InputsKeepTrue, PassKeepsTrue DEF CompiledHtmlNext
<1> QED BY <1>1, <1>4 DEF Next, vars

\* When requests of one user do not interleave within a write, and two writes do not
\* share a second, HTML that does not count as stale is what the owner's editor would
\* compile now, whatever the editors, the recompilation and the hooks do in between
\* (the run html_race shows what happens otherwise).
THEOREM FreshIsTrue ==
    ASSUME OneByOne
    PROVE  Spec => []FreshHtmlIsTrue
<1>1. TrueHtml => FreshHtmlIsTrue
  BY DEF TrueHtml
<1>2. DeliveryTypes /\ TrueHtml /\ [Next]_vars => TrueHtml'
  BY TrueNext
<1> QED BY <1>1, <1>2, InitTrue, DeliveryTypesHold, PTL DEF Spec

-----------------------------------------------------------------------------
(* The record of the push. *)

\* When a push that fails has not changed the mailbox, the record always holds the
\* hash of what Gmail uses, so that without an error it does (the console compares it
\* with the signature's, and an unchanged signature is not pushed again).
THEOREM RecordIsTrue ==
    ASSUME ~Partial
    PROVE  Spec => []RecordMatchesMailbox
<1>1. Init => RecordIsMailbox
  BY DEF Init, GmailPushInit, RecordIsMailbox
<1>2. RecordIsMailbox /\ DeliveryTypes /\ [Next]_vars => RecordIsMailbox'
  <2> SUFFICES ASSUME RecordIsMailbox, DeliveryTypes, [Next]_vars PROVE RecordIsMailbox'
    OBVIOUS
  <2>1. record \in [hash : Html, error : BOOLEAN, retries : 0..MaxFailures]
    BY DEF DeliveryTypes, DeliveryTypeOK
  <2>2. CASE OnPrimaryHtmlChanged \/ UNCHANGED vars
    BY <2>2 DEF OnPrimaryHtmlChanged, vars, gmailVars, RecordIsMailbox
  <2>3. CASE EventFires \/ DailyFires \/ AdminPushes
    <3>1. mailbox' = mailbox /\ (record' = [record EXCEPT !.error = FALSE] \/ record' = record)
      BY <2>3 DEF EventFires, DailyFires, AdminPushes, Reads
    <3> QED BY <2>1, <3>1 DEF RecordIsMailbox
  <2>4. CASE Pushed
    BY <2>4 DEF Pushed, RecordIsMailbox
  <2>5. ASSUME NEW retryable \in BOOLEAN, Failed(retryable) PROVE RecordIsMailbox'
    <3>1. mailbox' = mailbox /\ record'.hash = record.hash
      BY <2>1, <2>5 DEF Failed
    <3> QED BY <3>1 DEF RecordIsMailbox
  <2> QED BY <2>2, <2>3, <2>4, <2>5 DEF Next, GmailPushNext
<1>3. RecordIsMailbox => RecordMatchesMailbox
  BY DEF RecordIsMailbox, RecordMatchesMailbox
<1> QED BY <1>1, <1>2, <1>3, DeliveryTypesHold, PTL DEF Spec
=============================================================================
