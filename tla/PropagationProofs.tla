------------------------- MODULE PropagationProofs -------------------------
(***************************************************************************)
(* A template's design reaching its signatures, for every number of        *)
(* templates, signatures, versions, saves and dying requests: the types    *)
(* whatever overlaps, and what the progress says when requests come one    *)
(* after the other.                                                        *)
(***************************************************************************)
EXTENDS TemplatePropagation, FiniteSetTheorems, TLAPS

\* The types, and who the processes and the saves are.
PropagationTypes ==
    /\ PropagationTypeOK
    /\ worker = [w \in Workers |-> worker[w]]
    /\ saving = [i \in Ids |-> saving[i]]

-----------------------------------------------------------------------------
(* What holds while no two requests are served at the same time. *)

Busy(w) == worker[w] # Idle

OneAtATime ==
    /\ \A w, x \in Workers : Busy(w) /\ Busy(x) => w = x
    /\ \A i, j \in Ids : saving[i] # NoSave /\ saving[j] # NoSave => i = j
    /\ \A w \in Workers, i \in Ids : Busy(w) => saving[i] = NoSave

\* What a request has read is still so.
Current(w) ==
    /\ worker[w].at \in {"batch", "refresh"} => worker[w].all = option
    /\ worker[w].at = "refresh" =>
          /\ worker[w].schema = version[worker[w].t]
          /\ \A i \in worker[w].todo : worker[w].read[i] = rows[i]

ReadIsCurrent ==
    /\ \A w \in Workers : Current(w)
    /\ \A i \in Ids : saving[i] # NoSave =>
          saving[i].link = rows[i].link /\ saving[i].schema = version[TemplateOf[i]]

\* Ids are given in their order, to rows nobody has written.
FreeAtTheEnd ==
    \A i \in Ids : rows[i].link = "free" =>
       rows[i].own = 0 /\ \A j \in Ids : i < j => rows[j].link = "free"

\* A deletion that did not die is over, or goes on with its next step.
DeletionDied(t) == Died(t, {"deleted", "detached", "forgotten"})

Gone(t) ==
    \/ \E w \in Workers : worker[w] = [at |-> "deleted", t |-> t]
    \/ Linked(t) = {} /\ \E w \in Workers : worker[w] = [at |-> "detached", t |-> t]
    \/ Linked(t) = {} /\ option[t] = NoRun
       /\ \E w \in Workers : worker[w] = [at |-> "forgotten", t |-> t]
    \/ Linked(t) = {} /\ t \notin scheduled /\ option[t] = NoRun

\* An update announces a template that is there, a deletion one that is not; and
\* a run of one that is not, the deletion has left behind.
Placed(w) ==
    /\ worker[w].at \in {"updated", "schedules"} => version[worker[w].t] > 0
    /\ worker[w].at \in {"deleted", "detached", "forgotten"} => version[worker[w].t] = 0
    /\ worker[w].at = "batch" => version[worker[w].t] > 0 \/ DeletionDied(worker[w].t)

DeletionEnds ==
    /\ \A t \in Templates : version[t] = 0 => DeletionDied(t) \/ Gone(t)
    /\ \A w \in Workers : Placed(w)

\* The template has a design, and its last one was announced.
Announced(t) == version[t] > 0 /\ ~Announcing(t) /\ ~Died(t, {"updated"})

RowsAt(t, cursor) == \A i \in Linked(t) : i <= cursor => rows[i].design = version[t]

\* Up to the cursor, and everywhere once a run is over, rows have the design.
CursorIsTrue(t) ==
    Announced(t) =>
       /\ RowsAt(t, option[t].last)
       /\ option[t].status \in {"none", "done"} =>
             \A i \in Linked(t) : rows[i].design = version[t]

\* So do those a batch has come past. The rest of it are the next rows after that,
\* all of them if the batch is not full.
BatchIsTrue(w) ==
    worker[w].at = "refresh" =>
       LET t    == worker[w].t
           todo == worker[w].todo
           last == worker[w].last
       IN  /\ todo \subseteq Linked(t) /\ \A i \in todo : last < i
           /\ Announced(t) => RowsAt(t, last)
           /\ \A i \in Linked(t) \ todo : last < i =>
                 /\ \A j \in todo : j < i
                 /\ Cardinality(DOMAIN worker[w].read) >= BatchSize

RunIsTrue ==
    /\ \A t \in Templates : CursorIsTrue(t)
    /\ \A w \in Workers : BatchIsTrue(w)

OneByOne ==
    OneAtATime /\ ReadIsCurrent /\ FreeAtTheEnd /\ DeletionEnds /\ RunIsTrue

-----------------------------------------------------------------------------
(* The types. *)

WorkersOK ==
    /\ \A w \in Workers : WorkerOK(worker[w])
    /\ worker = [w \in Workers |-> worker[w]]

SavesOK ==
    /\ \A i \in Ids : saving[i] = NoSave \/
          saving[i] \in [at : {"read"}, link : {"linked", "detached"}, schema : Nat]
    /\ saving = [i \in Ids |-> saving[i]]

\* A process, at each place.
LEMMA AtBatch ==
    ASSUME NEW x, WorkerOK(x), x.at = "batch"
    PROVE  x \in [at : {"batch"}, t : Templates, all : ProgressType, cron : BOOLEAN]
BY DEF WorkerOK, Idle

LEMMA AtRefresh ==
    ASSUME NEW x, WorkerOK(x), x.at = "refresh"
    PROVE  /\ x \in [at : {"refresh"}, t : Templates, all : ProgressType, cron : BOOLEAN,
                     schema : Nat \ {0}, read : [DOMAIN x.read -> RowType],
                     todo : SUBSET DOMAIN x.read, last : {0} \cup Ids]
           /\ DOMAIN x.read \subseteq Ids
BY DEF WorkerOK, Idle

LEMMA AtTemplate ==
    ASSUME NEW x, WorkerOK(x), x # Idle
    PROVE  x.t \in Templates /\ x.at \in Steps
<1>1. CASE x.at = "refresh"
  BY <1>1, AtRefresh DEF Steps
<1>2. CASE x.at # "refresh"
  BY <1>2 DEF WorkerOK, Steps
<1> QED BY <1>1, <1>2

LEMMA OtherPlaces ==
    \A t \in Templates :
       /\ \A at \in {"updated", "deleted", "detached", "forgotten"} : WorkerOK([at |-> at, t |-> t])
       /\ \A c \in BOOLEAN : WorkerOK([at |-> "schedules", t |-> t, cron |-> c])
BY DEF WorkerOK

LEMMA IdleOK == WorkerOK(Idle)
BY DEF WorkerOK

\* One process goes to another place, the others stay where they are.
LEMMA WorkerMoves ==
    ASSUME WorkersOK, NEW w \in Workers, NEW x, WorkerOK(x), worker' = [worker EXCEPT ![w] = x]
    PROVE  WorkersOK' /\ worker'[w] = x /\ \A v \in Workers \ {w} : worker'[v] = worker[v]
<1>1. worker' = [v \in Workers |-> IF v = w THEN x ELSE worker[v]]
  BY DEF WorkersOK
<1> QED BY <1>1 DEF WorkersOK

\* save_progress() writes back the progress it has read, one entry of it changed.
LEMMA SavedTypes ==
    ASSUME WorkersOK, NEW w \in Workers, worker[w].at \in {"batch", "refresh"},
           NEW status \in {"done", "running"}, NEW last \in {0} \cup Ids,
           SavesProgress(w, status, last)
    PROVE  /\ option' \in ProgressType
           /\ option'[worker[w].t] = [status |-> status, last |-> last]
           /\ \A t \in Templates \ {worker[w].t} : option'[t] = worker[w].all[t]
<1>1. worker[w].all \in ProgressType /\ worker[w].t \in Templates
  BY AtBatch, AtRefresh DEF WorkersOK
<1>2. option' = [worker[w].all EXCEPT ![worker[w].t] = [status |-> status, last |-> last]]
  BY DEF SavesProgress
<1>3. [status |-> status, last |-> last] \in
         [status : {"none", "queued", "running", "done"}, last : {0} \cup Ids]
  OBVIOUS
<1> QED BY <1>1, <1>2, <1>3 DEF ProgressType

LEMMA SavingMoves ==
    ASSUME SavesOK, NEW i \in Ids, NEW x,
           x = NoSave \/ x \in [at : {"read"}, link : {"linked", "detached"}, schema : Nat],
           saving' = [saving EXCEPT ![i] = x]
    PROVE  SavesOK' /\ saving'[i] = x /\ \A j \in Ids \ {i} : saving'[j] = saving[j]
<1>1. saving' = [j \in Ids |-> IF j = i THEN x ELSE saving[j]]
  BY DEF SavesOK
<1> QED BY <1>1 DEF SavesOK

TablesOK ==
    /\ version \in [Templates -> Nat]
    /\ rows \in [Ids -> RowType]
    /\ option \in ProgressType
    /\ scheduled \subseteq Templates
    /\ crashes \in Nat
    /\ broken \subseteq Templates \X Steps

LEMMA TypesAre == PropagationTypes <=> TablesOK /\ WorkersOK /\ SavesOK
BY DEF PropagationTypes, PropagationTypeOK, TablesOK, WorkersOK, SavesOK

LEMMA InitPropagation == Init => PropagationTypes
<1> SUFFICES ASSUME Init PROVE PropagationTypes
  OBVIOUS
<1>1. TablesOK
  BY DEF Init, TablesOK, RowType, ProgressType, NoRun
<1>2. WorkersOK
  BY IdleOK DEF Init, WorkersOK
<1>3. SavesOK
  BY DEF Init, SavesOK
<1> QED BY <1>1, <1>2, <1>3, TypesAre

\* A deletion goes on to its next step.
LEMMA DeletionMoves ==
    ASSUME WorkersOK, NEW w \in Workers, worker[w].at \in {"deleted", "detached"}
    PROVE  /\ WorkerOK([worker[w] EXCEPT !.at = "detached"])
           /\ WorkerOK([worker[w] EXCEPT !.at = "forgotten"])
<1>1. worker[w] \in [at : {"updated", "deleted", "detached", "forgotten"}, t : Templates]
  BY DEF WorkersOK, WorkerOK, Idle
<1> QED BY <1>1 DEF WorkerOK

\* PATCH and DELETE of a template, and what its deletion leads to.
LEMMA TemplateTypes ==
    ASSUME TablesOK, WorkersOK, NEW w \in Workers, NEW t \in Templates,
           UpdateTemplate(w, t) \/ DeleteTemplate(w, t) \/ CronFires(w, t)
           \/ Propagate(w) \/ ScheduleNext(w) \/ DetachAll(w) \/ ForgetRun(w) \/ ClearEvent(w)
           \/ RequestDies(w)
    PROVE  TablesOK' /\ WorkersOK'
<1>1. CASE UpdateTemplate(w, t)
  <2>1. WorkersOK'
    BY <1>1, OtherPlaces, WorkerMoves DEF UpdateTemplate
  <2>2. version' \in [Templates -> Nat]
    BY <1>1 DEF UpdateTemplate, TablesOK
  <2> QED BY <1>1, <2>1, <2>2 DEF UpdateTemplate, TablesOK
<1>2. CASE DeleteTemplate(w, t)
  <2>1. WorkersOK'
    BY <1>2, OtherPlaces, WorkerMoves DEF DeleteTemplate
  <2>2. version' \in [Templates -> Nat]
    BY <1>2 DEF DeleteTemplate, TablesOK
  <2> QED BY <1>2, <2>1, <2>2 DEF DeleteTemplate, TablesOK
<1>3. CASE CronFires(w, t)
  <2>1. WorkerOK([at |-> "batch", t |-> t, all |-> option, cron |-> TRUE])
    BY DEF WorkerOK, TablesOK
  <2>2. WorkersOK'
    BY <1>3, <2>1, WorkerMoves DEF CronFires
  <2> QED BY <1>3, <2>2 DEF CronFires, TablesOK
<1>4. CASE Propagate(w)
  <2> DEFINE u     == worker[w].t
             total == Cardinality(Linked(u))
             all   == [option EXCEPT ![u] =
                         [status |-> IF total = 0 THEN "done" ELSE "queued", last |-> 0]]
             batch == [at |-> "batch", t |-> u, all |-> all, cron |-> FALSE]
             schedules == [at |-> "schedules", t |-> u, cron |-> FALSE]
             x == CASE total = 0 -> Idle
                    [] total \in 1..BatchSize -> batch
                    [] OTHER -> schedules
  <2>1. u \in Templates
    BY <1>4, AtTemplate DEF Propagate, WorkersOK, Idle
  <2>2. all \in ProgressType
    BY <2>1 DEF ProgressType, TablesOK
  <2>3. /\ option' = all /\ broken' = {b \in broken : b[1] # u}
        /\ UNCHANGED scheduled /\ worker' = [worker EXCEPT ![w] = x]
    BY <1>4 DEF Propagate
  <2>6. x \in {Idle, batch, schedules}
    <3> HIDE DEF batch, schedules, total, u, all
    <3>1. CASE total = 0
      BY <3>1 DEF x
    <3>2. CASE total # 0 /\ total \in 1..BatchSize
      BY <3>2 DEF x
    <3>3. CASE ~(total = 0) /\ ~(total \in 1..BatchSize)
      BY <3>3, Zenon DEF x
    <3> QED BY <3>1, <3>2, <3>3
  <2> HIDE DEF u, all, x
  <2>4. WorkerOK(batch) /\ WorkerOK(schedules)
    BY <2>1, <2>2, OtherPlaces DEF WorkerOK
  <2>5. WorkersOK'
    BY <2>3, <2>4, <2>6, IdleOK, WorkerMoves
  <2> QED BY <1>4, <2>1, <2>2, <2>3, <2>5 DEF Propagate, TablesOK
<1>5. CASE DetachAll(w)
  <2>1. worker' = [worker EXCEPT ![w] = [worker[w] EXCEPT !.at = "detached"]]
    BY <1>5 DEF DetachAll
  <2>2. WorkersOK'
    BY <1>5, <2>1, DeletionMoves, WorkerMoves DEF DetachAll
  <2>3. rows' \in [Ids -> RowType]
    BY <1>5 DEF DetachAll, TablesOK, RowType
  <2> QED BY <1>5, <2>2, <2>3 DEF DetachAll, TablesOK
<1>6. CASE ForgetRun(w)
  <2>1. worker' = [worker EXCEPT ![w] = [worker[w] EXCEPT !.at = "forgotten"]]
    BY <1>6 DEF ForgetRun
  <2>2. WorkersOK'
    BY <1>6, <2>1, DeletionMoves, WorkerMoves DEF ForgetRun
  <2>3. option' \in ProgressType
    BY <1>6 DEF ForgetRun, TablesOK, ProgressType, NoRun
  <2> QED BY <1>6, <2>2, <2>3 DEF ForgetRun, TablesOK
<1>8. CASE ClearEvent(w)
  <2>1. WorkersOK'
    BY <1>8, IdleOK, WorkerMoves DEF ClearEvent
  <2> QED BY <1>8, <2>1 DEF ClearEvent, TablesOK
<1>9. CASE ScheduleNext(w)
  <2>1. WorkersOK'
    BY <1>9, IdleOK, WorkerMoves DEF ScheduleNext
  <2>2. worker[w].t \in Templates
    BY <1>9, AtTemplate DEF ScheduleNext, WorkersOK, Idle
  <2> QED BY <1>9, <2>1, <2>2 DEF ScheduleNext, TablesOK
<1>7. CASE RequestDies(w)
  <2>1. WorkersOK'
    BY <1>7, IdleOK, WorkerMoves DEF RequestDies
  <2>2. worker[w].t \in Templates /\ worker[w].at \in Steps
    BY <1>7, AtTemplate DEF RequestDies, WorkersOK
  <2> QED BY <1>7, <2>1, <2>2 DEF RequestDies, TablesOK
<1> QED BY <1>1, <1>2, <1>3, <1>4, <1>5, <1>6, <1>7, <1>8, <1>9

\* A batch.
LEMMA BatchTypes ==
    ASSUME TablesOK, WorkersOK, NEW w \in Workers,
           BatchHasNoTemplate(w) \/ BatchReads(w) \/ RefreshRow(w) \/ EndBatch(w)
    PROVE  TablesOK' /\ WorkersOK'
<1>1. CASE BatchHasNoTemplate(w)
  <2>1. worker[w].t \in Templates /\ worker[w].all \in ProgressType
    BY <1>1, AtBatch DEF BatchHasNoTemplate, WorkersOK
  <2>2. worker[w].all[worker[w].t].last \in {0} \cup Ids
    BY <2>1 DEF ProgressType
  <2>3. option' \in ProgressType
    BY <1>1, <2>2, SavedTypes DEF BatchHasNoTemplate, Finish
  <2>4. WorkersOK'
    BY <1>1, IdleOK, WorkerMoves DEF BatchHasNoTemplate, Finish
  <2> QED BY <1>1, <2>3, <2>4 DEF BatchHasNoTemplate, TablesOK
<1>2. CASE BatchReads(w)
  <2> DEFINE b == worker[w]
  <2>1. b \in [at : {"batch"}, t : Templates, all : ProgressType, cron : BOOLEAN]
    BY <1>2, AtBatch DEF BatchReads, WorkersOK
  <2>2. PICK batch \in SUBSET Linked(b.t) : worker' = [worker EXCEPT ![w] =
               [at |-> "refresh", t |-> b.t, all |-> b.all, cron |-> b.cron,
                schema |-> version[b.t], read |-> [i \in batch |-> rows[i]], todo |-> batch,
                last |-> b.all[b.t].last]]
    BY <1>2 DEF BatchReads
  <2> DEFINE read == [i \in batch |-> rows[i]]
             x == [at |-> "refresh", t |-> b.t, all |-> b.all, cron |-> b.cron,
                   schema |-> version[b.t], read |-> read, todo |-> batch,
                   last |-> b.all[b.t].last]
  <2>3. version[b.t] \in Nat \ {0} /\ b.all[b.t].last \in {0} \cup Ids
    BY <1>2, <2>1 DEF BatchReads, TablesOK, ProgressType
  <2>4. batch \subseteq Ids /\ DOMAIN read = batch /\ read \in [batch -> RowType]
    BY DEF Linked, TablesOK
  <2>5. WorkerOK(x)
    <3> HIDE DEF read, b
    <3> QED BY <2>1, <2>3, <2>4 DEF WorkerOK
  <2>6. worker' = [worker EXCEPT ![w] = x]
    BY <2>2
  <2> HIDE DEF x
  <2> QED BY <1>2, <2>5, <2>6, WorkerMoves DEF BatchReads, TablesOK
<1>3. CASE RefreshRow(w)
  <2> DEFINE b == worker[w]
  <2>1. /\ b \in [at : {"refresh"}, t : Templates, all : ProgressType, cron : BOOLEAN,
                  schema : Nat \ {0}, read : [DOMAIN b.read -> RowType],
                  todo : SUBSET DOMAIN b.read, last : {0} \cup Ids]
        /\ DOMAIN b.read \subseteq Ids
    BY <1>3, AtRefresh DEF RefreshRow, WorkersOK
  <2>2. PICK i \in b.todo :
          /\ rows' \in {rows, [rows EXCEPT ![i].design = b.schema, ![i].own = b.read[i].own]}
          /\ worker' = [worker EXCEPT ![w].todo = @ \ {i}, ![w].last = i]
    BY <1>3 DEF RefreshRow, Refreshed
  <2> DEFINE x == [b EXCEPT !.todo = @ \ {i}, !.last = i]
  <2>3. worker' = [worker EXCEPT ![w] = x]
    BY <2>2
  <2>4. i \in Ids /\ b.read[i].own \in Nat /\ b.schema \in Nat
    BY <2>1, <2>2 DEF RowType
  <2>5. rows' \in [Ids -> RowType]
    <3> HIDE DEF b
    <3> QED BY <2>2, <2>4 DEF TablesOK, RowType
  <2>6. WorkerOK(x)
    <3> HIDE DEF b
    <3>1. x.read = b.read /\ x.at = "refresh"
      BY <2>1
    <3>2. x \in [at : {"refresh"}, t : Templates, all : ProgressType, cron : BOOLEAN,
                 schema : Nat \ {0}, read : [DOMAIN b.read -> RowType],
                 todo : SUBSET DOMAIN b.read, last : {0} \cup Ids]
      BY <2>1, <2>4
    <3> HIDE DEF x
    <3> QED BY <2>1, <3>1, <3>2 DEF WorkerOK
  <2> HIDE DEF x
  <2> QED BY <1>3, <2>3, <2>5, <2>6, WorkerMoves DEF RefreshRow, TablesOK
<1>4. CASE EndBatch(w)
  <2>1. /\ worker[w].last \in {0} \cup Ids /\ worker[w].t \in Templates
        /\ worker[w].cron \in BOOLEAN
    BY <1>4, AtRefresh DEF EndBatch, WorkersOK
  <2>2. \E status \in {"done", "running"} : SavesProgress(w, status, worker[w].last)
    BY <1>4 DEF EndBatch, Finish
  <2>3. option' \in ProgressType
    BY <1>4, <2>1, <2>2, SavedTypes DEF EndBatch
  <2>4. WorkersOK'
    <3>1. WorkerOK([at |-> "schedules", t |-> worker[w].t, cron |-> worker[w].cron])
      BY <2>1, OtherPlaces
    <3>2. \/ worker' = [worker EXCEPT ![w] = Idle]
          \/ worker' = [worker EXCEPT ![w] =
                           [at |-> "schedules", t |-> worker[w].t, cron |-> worker[w].cron]]
      BY <1>4 DEF EndBatch, Finish
    <3> QED BY <3>1, <3>2, IdleOK, WorkerMoves
  <2> QED BY <1>4, <2>3, <2>4 DEF EndBatch, TablesOK
<1> QED BY <1>1, <1>2, <1>3, <1>4

\* The signatures.
LEMMA SignatureTypes ==
    ASSUME TablesOK, SavesOK, NEW i \in Ids,
           SaveReads(i) \/ SaveWrites(i) \/ Detach(i) \/ Duplicate(i) \/ DeleteSignature(i)
    PROVE  TablesOK' /\ SavesOK'
<1>1. rows \in [Ids -> RowType]
  BY DEF TablesOK
<1>2. CASE SaveReads(i)
  <2>1. TemplateOf[i] \in Templates
    BY PropagationAssumption
  <2>2. [at |-> "read", link |-> rows[i].link, schema |-> version[TemplateOf[i]]]
           \in [at : {"read"}, link : {"linked", "detached"}, schema : Nat]
    BY <1>2, <2>1 DEF SaveReads, Stored, TablesOK
  <2> QED BY <1>2, <2>2, SavingMoves DEF SaveReads, TablesOK
<1>3. CASE SaveWrites(i)
  <2>1. saving[i].schema \in Nat
    BY <1>3 DEF SaveWrites, SavesOK, NoSave
  <2>2. rows' \in [Ids -> RowType]
    <3>1. rows' \in {rows} \cup {[rows EXCEPT ![i].own = @ + 1, ![i].design = d] :
                                  d \in {saving[i].schema, 0}}
      BY <1>3 DEF SaveWrites
    <3> QED BY <1>1, <2>1, <3>1 DEF RowType
  <2>3. SavesOK'
    BY <1>3, SavingMoves DEF SaveWrites
  <2> QED BY <1>3, <2>2, <2>3 DEF SaveWrites, TablesOK
<1>4. CASE Detach(i) \/ DeleteSignature(i)
  <2>1. rows' \in [Ids -> RowType]
    BY <1>1, <1>4 DEF Detach, DeleteSignature, RowType
  <2> QED BY <1>4, <2>1 DEF Detach, DeleteSignature, TablesOK, SavesOK
<1>5. CASE Duplicate(i)
  BY <1>1, <1>5 DEF Duplicate, TablesOK, SavesOK
<1> QED BY <1>2, <1>3, <1>4, <1>5

LEMMA PropagationTypesNext == PropagationTypes /\ [Next]_vars => PropagationTypes'
<1> SUFFICES ASSUME PropagationTypes, [Next]_vars PROVE PropagationTypes'
  OBVIOUS
<1>1. TablesOK /\ WorkersOK /\ SavesOK
  BY TypesAre
<1>2. TablesOK' /\ WorkersOK' /\ SavesOK' => PropagationTypes'
  BY TypesAre, PTL
<1>3. ASSUME UNCHANGED saving PROVE SavesOK'
  BY <1>1, <1>3 DEF SavesOK
<1>4. ASSUME UNCHANGED worker PROVE WorkersOK'
  BY <1>1, <1>4 DEF WorkersOK
<1>5. ASSUME NEW w \in Workers, NEW t \in Templates,
             UpdateTemplate(w, t) \/ DeleteTemplate(w, t) \/ CronFires(w, t)
      PROVE  PropagationTypes'
  BY <1>1, <1>2, <1>3, <1>5, TemplateTypes DEF UpdateTemplate, DeleteTemplate, CronFires
<1>6. ASSUME NEW w \in Workers, \/ Propagate(w) \/ ScheduleNext(w) \/ DetachAll(w)
                                 \/ ForgetRun(w) \/ ClearEvent(w) \/ RequestDies(w)
      PROVE  PropagationTypes'
  <2>1. worker[w].t \in Templates
    BY <1>1, <1>6, AtTemplate DEF Propagate, ScheduleNext, DetachAll, ForgetRun, ClearEvent,
                                  RequestDies, WorkersOK, Idle
  <2> QED BY <1>1, <1>2, <1>3, <1>6, <2>1, TemplateTypes
          DEF Propagate, ScheduleNext, DetachAll, ForgetRun, ClearEvent, RequestDies
<1>7. ASSUME NEW w \in Workers,
             BatchHasNoTemplate(w) \/ BatchReads(w) \/ RefreshRow(w) \/ EndBatch(w)
      PROVE  PropagationTypes'
  BY <1>1, <1>2, <1>3, <1>7, BatchTypes DEF BatchHasNoTemplate, BatchReads, RefreshRow, EndBatch
<1>8. ASSUME NEW i \in Ids,
             SaveReads(i) \/ SaveWrites(i) \/ Detach(i) \/ Duplicate(i) \/ DeleteSignature(i)
      PROVE  PropagationTypes'
  BY <1>1, <1>2, <1>4, <1>8, SignatureTypes
     DEF SaveReads, SaveWrites, Detach, Duplicate, DeleteSignature
<1>9. CASE UNCHANGED vars
  BY <1>9 DEF vars, PropagationTypes, PropagationTypeOK
<1> QED BY <1>5, <1>6, <1>7, <1>8, <1>9 DEF Next, Serves

LEMMA PropagationTypesHold == Spec => []PropagationTypes
BY InitPropagation, PropagationTypesNext, PTL DEF Spec

\* However requests overlap, die and write back old progress, templates, signatures,
\* progress and processes keep their types: a cursor is 0 or an id, and a batch refreshes
\* rows it has read.
THEOREM TypesHold == Spec => []PropagationTypeOK
<1>1. PropagationTypes => PropagationTypeOK
  BY DEF PropagationTypes
<1> QED BY <1>1, PropagationTypesHold, PTL

-----------------------------------------------------------------------------
(* Requests one after the other. *)

LEMMA InitOneByOne == Init => OneByOne
<1> SUFFICES ASSUME Init PROVE OneByOne
  OBVIOUS
<1>1. /\ \A w \in Workers : worker[w] = Idle
      /\ \A i \in Ids : saving[i] = NoSave
      /\ \A t \in Templates : version[t] = 1
      /\ \A i \in Ids : /\ rows[i].design = 1 /\ rows[i].own = 0
                        /\ TemplateOf[i] \in Templates
  BY PropagationAssumption DEF Init
<1>2. OneAtATime /\ ReadIsCurrent
  BY <1>1 DEF OneAtATime, ReadIsCurrent, Current, Busy, Idle
<1>3. FreeAtTheEnd
  <2>1. PICK n \in (NumRows - NumCopies)..NumRows : \A i \in Ids : rows[i].link = "free" <=> i > n
    BY DEF Init
  <2>2. n \in Int /\ Ids \subseteq Int
    BY <2>1, PropagationAssumption DEF Ids
  <2> QED BY <1>1, <2>1, <2>2 DEF FreeAtTheEnd
<1>4. DeletionEnds
  BY <1>1 DEF DeletionEnds, Placed, Idle
<1>5. RunIsTrue
  BY <1>1 DEF RunIsTrue, CursorIsTrue, BatchIsTrue, RowsAt, Linked, Idle
<1> QED BY <1>2, <1>3, <1>4, <1>5 DEF OneByOne

\* The only request that is served, if any is.
OnlyServes(w) ==
    (\A v \in Workers \ {w} : worker[v] = Idle) /\ \A i \in Ids : saving[i] = NoSave

LEMMA OnlyOne ==
    ASSUME ~Overlap, OneAtATime, NEW w \in Workers, worker[w] # Idle \/ Alone
    PROVE  OnlyServes(w)
BY DEF OneAtATime, Alone, OnlyServes, Busy

LEMMA OnlyAnnouncer ==
    \A w \in Workers, t \in Templates :
       OnlyServes(w) => (Announcing(t) <=> worker[w] = [at |-> "updated", t |-> t])
BY DEF OnlyServes, Announcing, Idle

LEMMA OnlyDeleter ==
    \A w \in Workers, t \in Templates : OnlyServes(w) =>
       (Gone(t) <=> \/ worker[w] = [at |-> "deleted", t |-> t]
                    \/ Linked(t) = {} /\ worker[w] = [at |-> "detached", t |-> t]
                    \/ Linked(t) = {} /\ option[t] = NoRun
                       /\ worker[w] = [at |-> "forgotten", t |-> t]
                    \/ Linked(t) = {} /\ t \notin scheduled /\ option[t] = NoRun)
BY DEF OnlyServes, Gone, Idle

\* What is left to show of the request that is served.
Served(w) ==
    /\ OnlyServes(w) /\ Current(w) /\ Placed(w) /\ BatchIsTrue(w) /\ FreeAtTheEnd
    /\ \A t \in Templates : version[t] = 0 => DeletionDied(t) \/ Gone(t)
    /\ \A t \in Templates : CursorIsTrue(t)

LEMMA ServedSuffices == \A w \in Workers : Served(w) => OneByOne
<1> SUFFICES ASSUME NEW w \in Workers, Served(w) PROVE OneByOne
  OBVIOUS
<1> USE DEF Served, OnlyServes
<1>1. OneAtATime
  BY DEF OneAtATime, Busy
<1>2. \A v \in Workers \ {w} : Current(v) /\ Placed(v) /\ BatchIsTrue(v)
  BY DEF Current, Placed, BatchIsTrue, Idle
<1> QED BY <1>1, <1>2 DEF OneByOne, ReadIsCurrent, DeletionEnds, RunIsTrue

\* The facts a step of a process starts from.
LEMMA ServedNow ==
    ASSUME ~Overlap, OneByOne, NEW w \in Workers, worker[w] # Idle \/ Alone
    PROVE  /\ Served(w)
           /\ \A t \in Templates : Announcing(t) <=> worker[w] = [at |-> "updated", t |-> t]
           /\ \A t \in Templates :
                 Gone(t) <=> \/ worker[w] = [at |-> "deleted", t |-> t]
                             \/ Linked(t) = {} /\ worker[w] = [at |-> "detached", t |-> t]
                             \/ Linked(t) = {} /\ option[t] = NoRun
                                /\ worker[w] = [at |-> "forgotten", t |-> t]
                             \/ Linked(t) = {} /\ t \notin scheduled /\ option[t] = NoRun
<1>1. Served(w)
  BY OnlyOne DEF OneByOne, ReadIsCurrent, DeletionEnds, RunIsTrue, Served
<1> QED BY <1>1, OnlyAnnouncer, OnlyDeleter DEF Served

LEMMA PrimedFacts ==
    /\ (\A w \in Workers : Served(w) => OneByOne)'
    /\ (\A w \in Workers, t \in Templates :
          OnlyServes(w) => (Announcing(t) <=> worker[w] = [at |-> "updated", t |-> t]))'
    /\ (\A w \in Workers, t \in Templates : OnlyServes(w) =>
          (Gone(t) <=> \/ worker[w] = [at |-> "deleted", t |-> t]
                       \/ Linked(t) = {} /\ worker[w] = [at |-> "detached", t |-> t]
                       \/ Linked(t) = {} /\ option[t] = NoRun
                          /\ worker[w] = [at |-> "forgotten", t |-> t]
                       \/ Linked(t) = {} /\ t \notin scheduled /\ option[t] = NoRun))'
BY ServedSuffices, OnlyAnnouncer, OnlyDeleter, PTL

\* And those it ends with: it is still the only one.
LEMMA ServedNext ==
    ASSUME WorkersOK, NEW w \in Workers, OnlyServes(w), UNCHANGED saving,
           NEW x, WorkerOK(x), worker' = [worker EXCEPT ![w] = x]
    PROVE  /\ OnlyServes(w)' /\ worker'[w] = x
           /\ Served(w)' => OneByOne'
           /\ \A t \in Templates : Announcing(t)' <=> x = [at |-> "updated", t |-> t]
           /\ \A t \in Templates :
                 Gone(t)' <=> \/ x = [at |-> "deleted", t |-> t]
                              \/ Linked(t)' = {} /\ x = [at |-> "detached", t |-> t]
                              \/ Linked(t)' = {} /\ option'[t] = NoRun
                                 /\ x = [at |-> "forgotten", t |-> t]
                              \/ Linked(t)' = {} /\ t \notin scheduled' /\ option'[t] = NoRun
<1>1. worker'[w] = x /\ \A v \in Workers \ {w} : worker'[v] = worker[v]
  BY WorkerMoves
<1>2. OnlyServes(w)'
  BY <1>1 DEF OnlyServes
<1> QED BY <1>1, <1>2, PrimedFacts

\* The places of a deletion, and of what announces a template.
Announces == {"updated", "deleted", "detached", "forgotten"}

LEMMA PlacesDiffer ==
    /\ \A t : \A a \in Announces : Idle # [at |-> a, t |-> t]
    /\ \A t, u : \A a, b \in Announces :
          [at |-> a, t |-> t] = [at |-> b, t |-> u] <=> a = b /\ t = u
<1> DEFINE Place(a, v) == [at |-> a, t |-> v]
<1>1. \A a, v : Place(a, v).at = a /\ Place(a, v).t = v
  OBVIOUS
<1>2. Idle.at = "idle"
  BY DEF Idle
<1> HIDE DEF Place
<1>3. \A t : \A a \in Announces : Idle # Place(a, t)
  BY <1>1, <1>2 DEF Announces
<1>4. ASSUME NEW a \in Announces, NEW b \in Announces, NEW t, NEW u
      PROVE  Place(a, t) = Place(b, u) <=> a = b /\ t = u
  BY <1>1
<1> QED BY <1>3, <1>4 DEF Place

LEMMA BatchDiffers ==
    ASSUME NEW x, x.at \in {"batch", "refresh", "schedules"}, NEW t
    PROVE  /\ \A a \in Announces : x # [at |-> a, t |-> t]
           /\ x # Idle
<1> DEFINE Place(a) == [at |-> a, t |-> t]
<1>1. \A a : Place(a).at = a
  OBVIOUS
<1>2. Idle.at = "idle"
  BY DEF Idle
<1> HIDE DEF Place
<1>3. (\A a \in Announces : x # Place(a)) /\ x # Idle
  BY <1>1, <1>2 DEF Announces
<1> QED BY <1>3 DEF Place

\* The update and the deletion of a template, and its cron event, begin.
LEMMA TemplateOneByOne ==
    ASSUME ~Overlap, PropagationTypes, OneByOne, NEW w \in Workers, NEW t \in Templates,
           UpdateTemplate(w, t) \/ DeleteTemplate(w, t) \/ CronFires(w, t)
    PROVE  OneByOne'
<1>1. WorkersOK /\ TablesOK /\ UNCHANGED <<rows, option, saving, broken>>
  BY TypesAre DEF UpdateTemplate, DeleteTemplate, CronFires
<1>2. worker[w] = Idle /\ Alone
  BY DEF UpdateTemplate, DeleteTemplate, CronFires
<1>3. /\ Served(w)
      /\ \A u \in Templates : ~Announcing(u)
      /\ \A u \in Templates : Gone(u) <=> Linked(u) = {} /\ u \notin scheduled /\ option[u] = NoRun
  <2>1. \A u : /\ worker[w] # [at |-> "updated", t |-> u]
               /\ worker[w] # [at |-> "deleted", t |-> u]
               /\ worker[w] # [at |-> "detached", t |-> u]
               /\ worker[w] # [at |-> "forgotten", t |-> u]
    BY <1>2, PlacesDiffer DEF Announces
  <2> QED BY <1>2, <2>1, ServedNow
<1>4. /\ FreeAtTheEnd'
      /\ \A u \in Templates : Linked(u)' = Linked(u)
      /\ \A u \in Templates : \A steps : Died(u, steps)' <=> Died(u, steps)
  BY <1>1, <1>3 DEF Served, FreeAtTheEnd, Linked, Died
<1>5. CASE UpdateTemplate(w, t) \/ DeleteTemplate(w, t)
  <2>1. PICK at \in {"updated", "deleted"} :
           /\ worker' = [worker EXCEPT ![w] = [at |-> at, t |-> t]] /\ UNCHANGED scheduled
           /\ \A u \in Templates \ {t} : version'[u] = version[u]
           /\ at = "updated" => version'[t] > 0
           /\ at = "deleted" => version'[t] = 0
    <3>1. CASE UpdateTemplate(w, t)
      <4>1. version[t] \in Nat /\ version' = [version EXCEPT ![t] = version[t] + 1]
        BY <1>1, <3>1 DEF UpdateTemplate, TablesOK
      <4>2. version'[t] > 0 /\ \A u \in Templates \ {t} : version'[u] = version[u]
        BY <1>1, <4>1 DEF TablesOK
      <4>3. worker' = [worker EXCEPT ![w] = [at |-> "updated", t |-> t]] /\ UNCHANGED scheduled
        BY <3>1 DEF UpdateTemplate
      <4> QED BY <4>2, <4>3
    <3>2. CASE DeleteTemplate(w, t)
      <4>1. version'[t] = 0 /\ \A u \in Templates \ {t} : version'[u] = version[u]
        BY <1>1, <3>2 DEF DeleteTemplate, TablesOK
      <4>2. worker' = [worker EXCEPT ![w] = [at |-> "deleted", t |-> t]] /\ UNCHANGED scheduled
        BY <3>2 DEF DeleteTemplate
      <4> QED BY <4>1, <4>2
    <3> QED BY <1>5, <3>1, <3>2
  <2> DEFINE x == [at |-> at, t |-> t]
  <2>2. x.at = at /\ x.t = t /\ WorkerOK(x) /\ worker' = [worker EXCEPT ![w] = x]
    BY <2>1, OtherPlaces
  <2> HIDE DEF x
  <2>3. /\ OnlyServes(w)' /\ worker'[w] = x
        /\ Served(w)' => OneByOne'
        /\ \A u \in Templates : Announcing(u)' <=> x = [at |-> "updated", t |-> u]
        /\ \A u \in Templates :
              Gone(u)' <=> \/ x = [at |-> "deleted", t |-> u]
                           \/ Linked(u)' = {} /\ x = [at |-> "detached", t |-> u]
                           \/ Linked(u)' = {} /\ option'[u] = NoRun
                              /\ x = [at |-> "forgotten", t |-> u]
                           \/ Linked(u)' = {} /\ u \notin scheduled' /\ option'[u] = NoRun
    BY <1>1, <1>3, <2>2, ServedNext DEF Served
  <2>4. Current(w)' /\ Placed(w)' /\ BatchIsTrue(w)'
    BY <2>1, <2>2, <2>3 DEF Current, Placed, BatchIsTrue
  <2>5. ASSUME NEW u \in Templates, version'[u] = 0
        PROVE  DeletionDied(u)' \/ Gone(u)'
    <3>1. CASE u = t
      <4>1. at = "deleted"
        BY <2>1, <2>5, <3>1
      <4>2. x = [at |-> "deleted", t |-> u]
        BY <3>1, <4>1 DEF x
      <4> QED BY <2>3, <4>2
    <3>2. CASE u # t
      <4>1. DeletionDied(u) \/ Gone(u)
        BY <1>3, <2>1, <2>5, <3>2 DEF Served
      <4> QED BY <1>1, <1>3, <1>4, <2>1, <2>3, <4>1 DEF DeletionDied
    <3> QED BY <3>1, <3>2
  <2>6. ASSUME NEW u \in Templates, Announced(u)'
        PROVE  CursorIsTrue(u)'
    <3>1. u # t
      BY <1>1, <2>1, <2>3, <2>6 DEF Announced, x, TablesOK
    <3>2. version'[u] = version[u] /\ Announced(u)
      BY <1>3, <1>4, <2>1, <2>6, <3>1 DEF Announced
    <3> QED BY <1>1, <1>3, <1>4, <3>2 DEF Served, CursorIsTrue, RowsAt
  <2>7. \A u \in Templates : CursorIsTrue(u)'
    BY <2>6 DEF CursorIsTrue
  <2> QED BY <1>4, <2>3, <2>4, <2>5, <2>7 DEF Served
<1>6. CASE CronFires(w, t)
  <2> DEFINE x == [at |-> "batch", t |-> t, all |-> option, cron |-> TRUE]
  <2>1. /\ WorkerOK(x) /\ worker' = [worker EXCEPT ![w] = x] /\ UNCHANGED version
        /\ scheduled' = scheduled \ {t} /\ t \in scheduled
    BY <1>1, <1>6 DEF CronFires, WorkerOK, TablesOK
  <2>2. x.at = "batch" /\ x.t = t /\ x.all = option
    OBVIOUS
  <2> HIDE DEF x
  <2>3. /\ OnlyServes(w)' /\ worker'[w] = x
        /\ Served(w)' => OneByOne'
        /\ \A u \in Templates : ~Announcing(u)'
        /\ \A u \in Templates :
              Linked(u)' = {} /\ u \notin scheduled' /\ option'[u] = NoRun => Gone(u)'
    <3>1. \A u : x # [at |-> "updated", t |-> u]
      BY <2>2, BatchDiffers DEF Announces
    <3> QED BY <1>1, <1>3, <2>1, <3>1, ServedNext DEF Served
  <2>4. version[t] > 0 \/ DeletionDied(t)
    BY <1>1, <1>3, <2>1 DEF Served, TablesOK
  <2>5. Current(w)' /\ Placed(w)' /\ BatchIsTrue(w)'
    BY <1>1, <1>4, <2>1, <2>2, <2>3, <2>4 DEF Current, Placed, BatchIsTrue, DeletionDied
  <2>6. \A u \in Templates : version'[u] = 0 => DeletionDied(u)' \/ Gone(u)'
    BY <1>1, <1>3, <1>4, <2>1, <2>3 DEF Served, DeletionDied
  <2>7. \A u \in Templates : CursorIsTrue(u)'
    BY <1>1, <1>3, <1>4, <2>1, <2>3 DEF Served, CursorIsTrue, Announced, RowsAt
  <2> QED BY <1>4, <2>3, <2>5, <2>6, <2>7 DEF Served
<1> QED BY <1>5, <1>6

\* The new design is announced: the run starts over.
LEMMA PropagateOneByOne ==
    ASSUME ~Overlap, PropagationTypes, OneByOne, NEW w \in Workers, Propagate(w)
    PROVE  OneByOne'
<1>1. WorkersOK /\ TablesOK /\ UNCHANGED <<version, rows, saving>>
  BY TypesAre DEF Propagate
<1>2. PICK t \in Templates : worker[w] = [at |-> "updated", t |-> t]
  BY <1>1 DEF Propagate, WorkersOK, WorkerOK, Idle
<1> DEFINE total == Cardinality(Linked(t))
           status == IF total = 0 THEN "done" ELSE "queued"
           all == [option EXCEPT ![t] = [status |-> status, last |-> 0]]
           batch == [at |-> "batch", t |-> t, all |-> all, cron |-> FALSE]
           schedules == [at |-> "schedules", t |-> t, cron |-> FALSE]
           x == CASE total = 0 -> Idle [] total \in 1..BatchSize -> batch [] OTHER -> schedules
<1>3. /\ Served(w)
      /\ \A u \in Templates : Announcing(u) <=> u = t
      /\ \A u \in Templates : Gone(u) => Linked(u) = {} /\ u \notin scheduled /\ option[u] = NoRun
  <2>1. \A u : /\ worker[w] = [at |-> "updated", t |-> u] <=> u = t
               /\ worker[w] # [at |-> "deleted", t |-> u]
               /\ worker[w] # [at |-> "detached", t |-> u]
               /\ worker[w] # [at |-> "forgotten", t |-> u]
    <3>1. {"updated", "deleted", "detached", "forgotten"} = Announces
      BY DEF Announces
    <3> QED BY <1>2, <3>1, PlacesDiffer
  <2>2. worker[w] # Idle
    BY <1>2, PlacesDiffer DEF Announces
  <2> QED BY <2>1, <2>2, ServedNow
<1>4. version[t] > 0
  BY <1>2, <1>3 DEF Served, Placed
<1>5. /\ option' = all /\ broken' = {b \in broken : b[1] # t}
      /\ scheduled' = scheduled
      /\ worker' = [worker EXCEPT ![w] = x]
  BY <1>2 DEF Propagate
<1>6. status = "done" => Linked(t) = {}
  <2>1. IsFiniteSet(Linked(t))
    <3>1. IsFiniteSet(Ids)
      BY PropagationAssumption, FS_Interval DEF Ids
    <3>2. Linked(t) \subseteq Ids
      BY DEF Linked
    <3> QED BY <3>1, <3>2, FS_Subset
  <2> QED BY <2>1, FS_EmptySet
<1>7. /\ option' \in ProgressType /\ option'[t] = [status |-> status, last |-> 0]
      /\ \A u \in Templates \ {t} : option'[u] = option[u]
  BY <1>1, <1>2, <1>5 DEF TablesOK, ProgressType
<1>8. WorkerOK(x)
      /\ (x.at \in {"batch", "schedules"} => x.t = t) /\ (x.at = "batch" => x.all = option')
      /\ x.at \in {"batch", "schedules", "idle"} /\ x # [at |-> "updated", t |-> t]
  <2>1. WorkerOK(batch) /\ WorkerOK(schedules)
    BY <1>5, <1>7, OtherPlaces DEF WorkerOK
  <2>2. /\ batch.at = "batch" /\ batch.t = t /\ batch.all = option'
        /\ schedules.at = "schedules" /\ schedules.t = t /\ Idle.at = "idle"
        /\ [at |-> "updated", t |-> t].at = "updated"
    BY <1>5 DEF Idle
  <2>3. x \in {Idle, batch, schedules}
    <3> HIDE DEF batch, schedules, total
    <3>1. CASE total = 0
      BY <3>1 DEF x
    <3>2. CASE total # 0 /\ total \in 1..BatchSize
      BY <3>2 DEF x
    <3>3. CASE ~(total = 0) /\ ~(total \in 1..BatchSize)
      BY <3>3, Zenon DEF x
    <3> QED BY <3>1, <3>2, <3>3
  <2> HIDE DEF batch, schedules, x
  <2> QED BY <2>1, <2>2, <2>3, IdleOK
<1>9. status # "none" /\ (status = "done" => total = 0)
  OBVIOUS
<1> HIDE DEF total, status, all, batch, schedules, x
<1>10. /\ OnlyServes(w)' /\ worker'[w] = x
       /\ Served(w)' => OneByOne'
       /\ \A u \in Templates :
             Linked(u)' = {} /\ u \notin scheduled' /\ option'[u] = NoRun => Gone(u)'
  BY <1>1, <1>3, <1>5, <1>8, ServedNext DEF Served
<1>11. /\ FreeAtTheEnd'
       /\ \A u \in Templates : Linked(u)' = Linked(u)
       /\ \A u \in Templates \ {t} : \A steps : Died(u, steps)' <=> Died(u, steps)
  BY <1>1, <1>3, <1>5 DEF Served, FreeAtTheEnd, Linked, Died
<1>12. Current(w)' /\ Placed(w)' /\ BatchIsTrue(w)'
  BY <1>1, <1>4, <1>8, <1>10 DEF Current, Placed, BatchIsTrue
<1>13. \A u \in Templates : version'[u] = 0 => DeletionDied(u)' \/ Gone(u)'
  <2> SUFFICES ASSUME NEW u \in Templates, version'[u] = 0
               PROVE  DeletionDied(u)' \/ Gone(u)'
    OBVIOUS
  <2>1. u # t /\ (DeletionDied(u) \/ Gone(u))
    BY <1>1, <1>3, <1>4 DEF Served
  <2> QED BY <1>3, <1>5, <1>7, <1>10, <1>11, <2>1 DEF DeletionDied
<1>14. CursorIsTrue(t)'
  <2>1. \A i \in Linked(t)' : ~(i <= 0)
    BY PropagationAssumption DEF Linked, Ids
  <2>2. option'[t].last = 0 /\ option'[t].status = status
    BY <1>7
  <2>3. status \in {"none", "done"} => Linked(t)' = {}
    BY <1>2, <1>6, <1>9, <1>11
  <2> QED BY <2>1, <2>2, <2>3 DEF CursorIsTrue, RowsAt
<1>15. \A u \in Templates \ {t} : CursorIsTrue(u)'
  <2> SUFFICES ASSUME NEW u \in Templates \ {t}, Announced(u)'
               PROVE  CursorIsTrue(u)'
    BY DEF CursorIsTrue
  <2>1. Announced(u)
    BY <1>1, <1>3, <1>11 DEF Announced
  <2> QED BY <1>1, <1>3, <1>7, <1>11, <2>1 DEF Served, CursorIsTrue, RowsAt
<1> QED BY <1>10, <1>11, <1>12, <1>13, <1>14, <1>15 DEF Served

\* A deletion goes on.
LEMMA DeletionOneByOne ==
    ASSUME ~Overlap, PropagationTypes, OneByOne, NEW w \in Workers,
           DetachAll(w) \/ ForgetRun(w) \/ ClearEvent(w)
    PROVE  OneByOne'
<1>1. /\ WorkersOK /\ TablesOK /\ UNCHANGED <<version, saving, broken>>
      /\ rows \in [Ids -> RowType]
  BY TypesAre DEF DetachAll, ForgetRun, ClearEvent, TablesOK
<1>2. PICK t \in Templates : \/ DetachAll(w) /\ worker[w] = [at |-> "deleted", t |-> t]
                             \/ ForgetRun(w) /\ worker[w] = [at |-> "detached", t |-> t]
                             \/ ClearEvent(w) /\ worker[w] = [at |-> "forgotten", t |-> t]
  BY <1>1 DEF DetachAll, ForgetRun, ClearEvent, WorkersOK, WorkerOK, Idle
<1>3. worker[w].t = t /\ worker[w].at \in {"deleted", "detached", "forgotten"}
  BY <1>2
<1>4. worker[w] # Idle /\ \A u : worker[w] # [at |-> "updated", t |-> u]
  <2>1. worker[w] # Idle
    BY <1>2, PlacesDiffer DEF Announces
  <2> QED BY <1>3, <2>1
<1>5. /\ Served(w)
      /\ \A u \in Templates : ~Announcing(u)
      /\ \A u \in Templates :
            Gone(u) <=> \/ worker[w] = [at |-> "deleted", t |-> u]
                        \/ Linked(u) = {} /\ worker[w] = [at |-> "detached", t |-> u]
                        \/ Linked(u) = {} /\ option[u] = NoRun
                           /\ worker[w] = [at |-> "forgotten", t |-> u]
                        \/ Linked(u) = {} /\ u \notin scheduled /\ option[u] = NoRun
  BY <1>4, ServedNow
<1>6. version[t] = 0
  BY <1>3, <1>5 DEF Served, Placed
<1>7. \A u \in Templates \ {t} :
         Gone(u) => Linked(u) = {} /\ u \notin scheduled /\ option[u] = NoRun
  <2> SUFFICES ASSUME NEW u \in Templates \ {t}
               PROVE  /\ worker[w] # [at |-> "deleted", t |-> u]
                      /\ worker[w] # [at |-> "detached", t |-> u]
                      /\ worker[w] # [at |-> "forgotten", t |-> u]
    BY <1>5
  <2> QED BY <1>3
<1>8. \A u \in Templates : \A steps : Died(u, steps)' <=> Died(u, steps)
  BY <1>1 DEF Died
\* Either way the rest of the proof is the same.
<1>9. ASSUME NEW x, WorkerOK(x), worker' = [worker EXCEPT ![w] = x],
             \/ x = [at |-> "detached", t |-> t]
             \/ x = [at |-> "forgotten", t |-> t] /\ (DeletionDied(t) \/ option'[t] = NoRun)
             \/ x = Idle /\ (DeletionDied(t) \/ (t \notin scheduled' /\ option'[t] = NoRun)),
             DeletionDied(t) \/ Linked(t)' = {}, FreeAtTheEnd',
             \A u \in Templates \ {t} :
                /\ option'[u] = option[u] /\ (u \in scheduled' => u \in scheduled)
                /\ Linked(u)' = Linked(u) /\ \A i \in Linked(u) : rows'[i] = rows[i]
      PROVE  OneByOne'
  <2>1. /\ OnlyServes(w)' /\ worker'[w] = x
        /\ Served(w)' => OneByOne'
        /\ \A u \in Templates :
              Gone(u)' <=> \/ x = [at |-> "deleted", t |-> u]
                           \/ Linked(u)' = {} /\ x = [at |-> "detached", t |-> u]
                           \/ Linked(u)' = {} /\ option'[u] = NoRun
                              /\ x = [at |-> "forgotten", t |-> u]
                           \/ Linked(u)' = {} /\ u \notin scheduled' /\ option'[u] = NoRun
    BY <1>1, <1>5, <1>9, ServedNext DEF Served
  <2>2. x.at \in {"idle", "detached", "forgotten"} /\ (x.at # "idle" => x.t = t)
    BY <1>9 DEF Idle
  <2>3. Current(w)' /\ Placed(w)' /\ BatchIsTrue(w)'
    BY <1>1, <1>6, <2>1, <2>2 DEF Current, Placed, BatchIsTrue
  <2>4. \A u \in Templates : version'[u] = 0 => DeletionDied(u)' \/ Gone(u)'
    <3> SUFFICES ASSUME NEW u \in Templates, version'[u] = 0
                 PROVE  DeletionDied(u)' \/ Gone(u)'
      OBVIOUS
    <3>1. CASE u = t
      BY <1>8, <1>9, <2>1, <3>1 DEF DeletionDied
    <3>2. CASE u # t
      <4>1. DeletionDied(u) \/ Gone(u)
        BY <1>1, <1>5 DEF Served
      <4> QED BY <1>7, <1>8, <1>9, <2>1, <3>2, <4>1 DEF DeletionDied
    <3> QED BY <3>1, <3>2
  <2>5. \A u \in Templates : CursorIsTrue(u)'
    <3> SUFFICES ASSUME NEW u \in Templates, Announced(u)'
                 PROVE  CursorIsTrue(u)'
      BY DEF CursorIsTrue
    <3>1. u # t /\ Announced(u)
      BY <1>1, <1>5, <1>6, <1>8 DEF Announced
    <3> QED BY <1>1, <1>5, <1>9, <3>1 DEF Served, CursorIsTrue, RowsAt
  <2> QED BY <1>9, <2>1, <2>3, <2>4, <2>5 DEF Served
<1>10. CASE DetachAll(w)
  <2> DEFINE x == [at |-> "detached", t |-> t]
  <2>1. worker[w] = [at |-> "deleted", t |-> t]
    <3>1. worker[w].at = "deleted"
      BY <1>10 DEF DetachAll
    <3> QED BY <1>2, <3>1
  <2>2. worker' = [worker EXCEPT ![w] = [worker[w] EXCEPT !.at = "detached"]]
    BY <1>10 DEF DetachAll
  <2>3. worker' = [worker EXCEPT ![w] = x]
    <3>1. [worker[w] EXCEPT !.at = "detached"] = x
      BY <2>1
    <3> QED BY <2>2, <3>1
  <2>4. rows' = [i \in Ids |-> IF i \in Linked(t)
                               THEN [rows[i] EXCEPT !.link = "detached"] ELSE rows[i]]
        /\ UNCHANGED <<option, scheduled>>
    BY <1>3, <1>10 DEF DetachAll
  <2>5. \A i \in Ids : /\ i \in Linked(t) => rows'[i].link = "detached" /\ rows[i].link = "linked"
                       /\ i \notin Linked(t) => rows'[i] = rows[i]
    BY <1>1, <2>4 DEF RowType, Linked
  <2>6. Linked(t)' = {}
    BY <2>5 DEF Linked
  <2>7. FreeAtTheEnd'
    BY <1>5, <2>5 DEF Served, FreeAtTheEnd, Linked
  <2>8. \A u \in Templates \ {t} :
           Linked(u)' = Linked(u) /\ \A i \in Linked(u) : rows'[i] = rows[i]
    BY <2>5 DEF Linked
  <2>9. WorkerOK(x)
    BY OtherPlaces
  <2> HIDE DEF x
  <2>10. x = [at |-> "detached", t |-> t]
    BY DEF x
  <2> QED BY <1>9, <2>3, <2>4, <2>6, <2>7, <2>8, <2>9, <2>10
<1>11. CASE ForgetRun(w)
  <2> DEFINE x == [at |-> "forgotten", t |-> t]
  <2>1. worker[w] = [at |-> "detached", t |-> t]
    <3>1. worker[w].at = "detached"
      BY <1>11 DEF ForgetRun
    <3> QED BY <1>2, <3>1
  <2>2. /\ option' = [option EXCEPT ![t] = NoRun] /\ UNCHANGED <<rows, scheduled>>
        /\ worker' = [worker EXCEPT ![w] = [worker[w] EXCEPT !.at = "forgotten"]]
    BY <1>3, <1>11 DEF ForgetRun
  <2>3. worker' = [worker EXCEPT ![w] = x]
    <3>1. [worker[w] EXCEPT !.at = "forgotten"] = x
      BY <2>1
    <3> QED BY <2>2, <3>1
  <2>4. option'[t] = NoRun /\ \A u \in Templates \ {t} : option'[u] = option[u]
    BY <1>1, <2>2 DEF TablesOK, ProgressType
  <2>5. FreeAtTheEnd' /\ \A u \in Templates : Linked(u)' = Linked(u)
    BY <1>5, <2>2 DEF Served, FreeAtTheEnd, Linked
  <2>6. DeletionDied(t) \/ Linked(t) = {}
    <3>1. worker[w] # [at |-> "deleted", t |-> t]
      BY <2>1
    <3> QED BY <1>5, <1>6, <3>1 DEF Served
  <2>7. WorkerOK(x)
    BY OtherPlaces
  <2> HIDE DEF x
  <2>8. x = [at |-> "forgotten", t |-> t]
    BY DEF x
  <2> QED BY <1>9, <2>2, <2>3, <2>4, <2>5, <2>6, <2>7, <2>8
<1>12. CASE ClearEvent(w)
  <2>1. worker[w] = [at |-> "forgotten", t |-> t]
    <3>1. worker[w].at = "forgotten"
      BY <1>12 DEF ClearEvent
    <3> QED BY <1>2, <3>1
  <2>2. /\ scheduled' = scheduled \ {t} /\ UNCHANGED <<rows, option>>
        /\ worker' = [worker EXCEPT ![w] = Idle]
    BY <1>3, <1>12 DEF ClearEvent
  <2>3. FreeAtTheEnd' /\ \A u \in Templates : Linked(u)' = Linked(u)
    BY <1>5, <2>2 DEF Served, FreeAtTheEnd, Linked
  <2>4. DeletionDied(t) \/ (Linked(t) = {} /\ option[t] = NoRun)
    <3>1. worker[w] # [at |-> "deleted", t |-> t] /\ worker[w] # [at |-> "detached", t |-> t]
      BY <2>1
    <3> QED BY <1>5, <1>6, <3>1 DEF Served
  <2> QED BY <1>9, <2>2, <2>3, <2>4, IdleOK
<1> QED BY <1>2, <1>10, <1>11, <1>12

\* A request dies: what it leaves undone is remembered.
LEMMA DeathOneByOne ==
    ASSUME ~Overlap, PropagationTypes, OneByOne, NEW w \in Workers, RequestDies(w)
    PROVE  OneByOne'
<1> DEFINE b == <<worker[w].t, worker[w].at>>
<1>1. /\ WorkersOK /\ TablesOK /\ UNCHANGED <<version, rows, option, scheduled, saving>>
      /\ worker[w] # Idle /\ worker' = [worker EXCEPT ![w] = Idle]
      /\ broken' = broken \cup {b}
  BY TypesAre DEF RequestDies
<1>2. /\ Served(w)
      /\ \A u \in Templates : Announcing(u) <=> worker[w] = [at |-> "updated", t |-> u]
      /\ \A u \in Templates :
            Gone(u) <=> \/ worker[w] = [at |-> "deleted", t |-> u]
                        \/ Linked(u) = {} /\ worker[w] = [at |-> "detached", t |-> u]
                        \/ Linked(u) = {} /\ option[u] = NoRun
                           /\ worker[w] = [at |-> "forgotten", t |-> u]
                        \/ Linked(u) = {} /\ u \notin scheduled /\ option[u] = NoRun
  BY <1>1, ServedNow
<1>3. /\ OnlyServes(w)' /\ worker'[w] = Idle
      /\ Served(w)' => OneByOne'
      /\ \A u \in Templates :
            Linked(u)' = {} /\ u \notin scheduled' /\ option'[u] = NoRun => Gone(u)'
  BY <1>1, <1>2, IdleOK, ServedNext DEF Served
<1>4. Current(w)' /\ Placed(w)' /\ BatchIsTrue(w)'
  BY <1>3 DEF Current, Placed, BatchIsTrue, Idle
<1>5. FreeAtTheEnd' /\ \A u \in Templates : Linked(u)' = Linked(u)
  BY <1>1, <1>2 DEF Served, FreeAtTheEnd, Linked
<1>6. \A u, steps : Died(u, steps) => Died(u, steps)'
  BY <1>1 DEF Died
<1>7. \A u \in Templates : version'[u] = 0 => DeletionDied(u)' \/ Gone(u)'
  <2> SUFFICES ASSUME NEW u \in Templates, version'[u] = 0, ~DeletionDied(u)
               PROVE  DeletionDied(u)' \/ Gone(u)'
    BY <1>6 DEF DeletionDied
  <2>1. Gone(u)
    BY <1>1, <1>2 DEF Served
  <2>2. ASSUME NEW at \in {"deleted", "detached", "forgotten"}, worker[w] = [at |-> at, t |-> u]
        PROVE  DeletionDied(u)'
    <3>1. b = <<u, at>>
      BY <2>2
    <3> QED BY <1>1, <3>1 DEF DeletionDied, Died
  <2> QED BY <1>1, <1>2, <1>3, <1>5, <2>1, <2>2
<1>8. \A u \in Templates : CursorIsTrue(u)'
  <2> SUFFICES ASSUME NEW u \in Templates, Announced(u)'
               PROVE  CursorIsTrue(u)'
    BY DEF CursorIsTrue
  <2>1. worker[w] # [at |-> "updated", t |-> u]
    <3> SUFFICES ASSUME worker[w] = [at |-> "updated", t |-> u] PROVE FALSE
      OBVIOUS
    <3>1. b = <<u, "updated">>
      OBVIOUS
    <3> QED BY <1>1, <3>1 DEF Announced, Died
  <2>2. Announced(u)
    BY <1>1, <1>2, <1>6, <2>1 DEF Announced
  <2> QED BY <1>1, <1>2, <1>5, <2>2 DEF Served, CursorIsTrue, RowsAt
<1> QED BY <1>3, <1>4, <1>5, <1>7, <1>8 DEF Served

\* A batch has read what it needs, or finds no template.
LEMMA BatchOneByOne ==
    ASSUME ~Overlap, PropagationTypes, OneByOne, NEW w \in Workers,
           BatchHasNoTemplate(w) \/ BatchReads(w)
    PROVE  OneByOne'
<1> DEFINE b == worker[w]
           t == b.t
<1>1. /\ WorkersOK /\ TablesOK /\ UNCHANGED <<version, rows, scheduled, saving, broken>>
      /\ b.at = "batch"
  BY TypesAre DEF BatchHasNoTemplate, BatchReads
<1>2. b \in [at : {"batch"}, t : Templates, all : ProgressType, cron : BOOLEAN]
  BY <1>1, AtBatch DEF WorkersOK
<1>3. \A u : /\ b # Idle /\ b # [at |-> "updated", t |-> u] /\ b # [at |-> "deleted", t |-> u]
             /\ b # [at |-> "detached", t |-> u] /\ b # [at |-> "forgotten", t |-> u]
  BY <1>1, BatchDiffers DEF Announces
<1>4. /\ Served(w)
      /\ \A u \in Templates : ~Announcing(u)
      /\ \A u \in Templates :
            Gone(u) <=> Linked(u) = {} /\ u \notin scheduled /\ option[u] = NoRun
  BY <1>3, ServedNow
<1>5. b.all = option /\ (version[t] > 0 \/ DeletionDied(t))
  BY <1>1, <1>4 DEF Served, Current, Placed
<1>6. /\ FreeAtTheEnd'
      /\ \A u \in Templates : Linked(u)' = Linked(u)
      /\ \A u \in Templates : \A steps : Died(u, steps)' <=> Died(u, steps)
  BY <1>1, <1>4 DEF Served, FreeAtTheEnd, Linked, Died
<1>7. CASE BatchHasNoTemplate(w)
  <2>1. version[t] = 0 /\ Finish(w, b.all[t].last) /\ DeletionDied(t)
    BY <1>5, <1>7 DEF BatchHasNoTemplate
  <2>2. worker' = [worker EXCEPT ![w] = Idle] /\ \A u \in Templates \ {t} : option'[u] = option[u]
    <3>1. b.all[t].last \in {0} \cup Ids
      BY <1>2 DEF ProgressType
    <3>2. \A u \in Templates \ {t} : option'[u] = b.all[u]
      BY <1>1, <2>1, <3>1, SavedTypes DEF Finish
    <3>3. worker' = [worker EXCEPT ![w] = Idle]
      BY <2>1 DEF Finish
    <3> QED BY <1>5, <3>2, <3>3
  <2>3. /\ OnlyServes(w)' /\ worker'[w] = Idle
        /\ Served(w)' => OneByOne'
        /\ \A u \in Templates :
              Linked(u)' = {} /\ u \notin scheduled' /\ option'[u] = NoRun => Gone(u)'
    BY <1>1, <1>4, <2>2, IdleOK, ServedNext DEF Served
  <2>4. Current(w)' /\ Placed(w)' /\ BatchIsTrue(w)'
    BY <2>3 DEF Current, Placed, BatchIsTrue, Idle
  <2>5. t \in Templates
    BY <1>2
  <2> HIDE DEF b, t
  <2>6. \A u \in Templates : version'[u] = 0 => DeletionDied(u)' \/ Gone(u)'
    <3> SUFFICES ASSUME NEW u \in Templates, version'[u] = 0
                 PROVE  DeletionDied(u)' \/ Gone(u)'
      OBVIOUS
    <3>1. DeletionDied(u) \/ (u # t /\ Gone(u))
      BY <1>1, <1>4, <2>1 DEF Served
    <3> QED BY <1>1, <1>4, <1>6, <2>2, <2>3, <3>1 DEF DeletionDied
  <2>7. \A u \in Templates : CursorIsTrue(u)'
    <3> SUFFICES ASSUME NEW u \in Templates, Announced(u)'
                 PROVE  CursorIsTrue(u)'
      BY DEF CursorIsTrue
    <3>1. u # t /\ Announced(u)
      BY <1>1, <1>4, <1>6, <2>1 DEF Announced
    <3> QED BY <1>1, <1>4, <1>6, <2>2, <3>1 DEF Served, CursorIsTrue, RowsAt
  <2> QED BY <1>6, <2>3, <2>4, <2>6, <2>7 DEF Served
<1>8. CASE BatchReads(w)
  <2> DEFINE after == {i \in Linked(t) : i > b.all[t].last}
  <2>1. version[t] > 0 /\ UNCHANGED option
    BY <1>8 DEF BatchReads
  <2>2. PICK batch \in SUBSET Linked(t) :
           /\ IsBatch(batch, after)
           /\ worker' = [worker EXCEPT ![w] =
               [at |-> "refresh", t |-> t, all |-> b.all, cron |-> b.cron,
                schema |-> version[t], read |-> [i \in batch |-> rows[i]], todo |-> batch,
                last |-> b.all[t].last]]
    BY <1>8 DEF BatchReads
  <2> DEFINE read == [i \in batch |-> rows[i]]
             x == [at |-> "refresh", t |-> t, all |-> b.all, cron |-> b.cron,
                   schema |-> version[t], read |-> read, todo |-> batch,
                   last |-> b.all[t].last]
  <2>3. PICK u \in Templates, last \in {0} \cup Ids : u = t /\ last = option[t].last
    BY <1>2, <1>5 DEF ProgressType
  <2>4. /\ batch \subseteq Linked(u) /\ version[u] \in Nat \ {0} /\ IsBatch(batch, after)
        /\ after = {i \in Linked(u) : i > last}
    BY <1>1, <1>5, <2>1, <2>2, <2>3 DEF TablesOK
  <2>5. DOMAIN read = batch /\ (\A i \in batch : read[i] = rows[i]) /\ batch \subseteq Ids
        /\ read \in [batch -> RowType]
    BY <1>1 DEF Linked, TablesOK
  <2>6. /\ x.at = "refresh" /\ x.t = u /\ x.all = option /\ x.schema = version[u]
        /\ x.read = read /\ x.todo = batch /\ x.last = last
    BY <1>5, <2>3
  <2>7. WorkerOK(x)
    <3> HIDE DEF read, b
    <3> QED BY <1>2, <1>5, <2>3, <2>4, <2>5 DEF WorkerOK
  <2>8. worker' = [worker EXCEPT ![w] = x]
    BY <2>2
  <2> HIDE DEF x, read
  <2>9. /\ OnlyServes(w)' /\ worker'[w] = x
        /\ Served(w)' => OneByOne'
        /\ \A v \in Templates : ~Announcing(v)'
        /\ \A v \in Templates :
              Linked(v)' = {} /\ v \notin scheduled' /\ option'[v] = NoRun => Gone(v)'
    <3>1. \A v : x # [at |-> "updated", t |-> v]
      BY <2>6, BatchDiffers DEF Announces
    <3> QED BY <1>1, <1>4, <2>7, <2>8, <3>1, ServedNext DEF Served
  <2>10. Current(w)' /\ Placed(w)'
    BY <1>1, <2>1, <2>5, <2>6, <2>9 DEF Current, Placed
  <2>11. \A v \in Templates : Announced(v)' <=> Announced(v)
    BY <1>1, <1>4, <1>6, <2>9 DEF Announced
  <2>12. BatchIsTrue(w)'
    <3>1. \A i \in batch : last < i
      BY <2>3, <2>4 DEF IsBatch
    <3>2. Announced(u)' => RowsAt(u, last)'
      BY <1>1, <1>4, <1>6, <2>3, <2>11 DEF Served, CursorIsTrue, RowsAt
    <3>3. \A i \in Linked(u) \ batch : last < i =>
             /\ \A j \in batch : j < i
             /\ Cardinality(batch) >= BatchSize
      <4> SUFFICES ASSUME NEW i \in Linked(u) \ batch, last < i
                   PROVE  (\A j \in batch : j < i) /\ Cardinality(batch) >= BatchSize
        OBVIOUS
      <4>1. i \in after \ batch
        BY <2>3, <2>4
      <4>2. (\A j \in batch : j < i) /\ Cardinality(batch) = BatchSize
        BY <2>4, <4>1 DEF IsBatch
      <4> QED BY <4>2, PropagationAssumption
    <3>4. Linked(u)' = Linked(u)
      BY <1>6
    <3> QED BY <2>4, <2>5, <2>6, <2>9, <3>1, <3>2, <3>3, <3>4 DEF BatchIsTrue
  <2>13. \A v \in Templates : version'[v] = 0 => DeletionDied(v)' \/ Gone(v)'
    BY <1>1, <1>4, <1>6, <2>1, <2>9 DEF Served, DeletionDied
  <2>14. \A v \in Templates : CursorIsTrue(v)'
    BY <1>1, <1>4, <1>6, <2>1, <2>11 DEF Served, CursorIsTrue, RowsAt
  <2> QED BY <1>6, <2>9, <2>10, <2>12, <2>13, <2>14 DEF Served
<1> QED BY <1>7, <1>8

\* The next row of a batch gets the design: it is still linked, and nothing else of
\* it changes.
LEMMA RefreshOneByOne ==
    ASSUME ~Overlap, PropagationTypes, OneByOne, NEW w \in Workers, RefreshRow(w)
    PROVE  /\ OneByOne'
           /\ \E i \in Ids, design \in Nat :
                 rows[i].link = "linked" /\ rows' = [rows EXCEPT ![i].design = design]
<1> DEFINE b == worker[w]
<1>1. /\ WorkersOK /\ TablesOK /\ UNCHANGED <<version, option, scheduled, saving, broken>>
      /\ b.at = "refresh" /\ rows \in [Ids -> RowType] /\ Ids \subseteq Nat
  BY TypesAre, PropagationAssumption DEF RefreshRow, TablesOK, Ids
<1>2. /\ b \in [at : {"refresh"}, t : Templates, all : ProgressType, cron : BOOLEAN,
                schema : Nat \ {0}, read : [DOMAIN b.read -> RowType],
                todo : SUBSET DOMAIN b.read, last : {0} \cup Ids]
      /\ DOMAIN b.read \subseteq Ids
  BY <1>1, AtRefresh DEF WorkersOK
<1>3. \A u : /\ b # Idle /\ b # [at |-> "updated", t |-> u] /\ b # [at |-> "deleted", t |-> u]
             /\ b # [at |-> "detached", t |-> u] /\ b # [at |-> "forgotten", t |-> u]
  BY <1>1, BatchDiffers DEF Announces
<1>4. /\ Served(w)
      /\ \A u \in Templates : ~Announcing(u)
      /\ \A u \in Templates :
            Gone(u) <=> Linked(u) = {} /\ u \notin scheduled /\ option[u] = NoRun
  BY <1>3, ServedNow
<1>5. PICK t \in Templates : t = b.t
  BY <1>2
<1>6. PICK i \in b.todo :
         /\ \A j \in b.todo : i <= j
         /\ rows' = IF (b.read[i].design = b.schema /\ b.read[i].own = b.read[i].own) \/ ~Stored(i)
                    THEN rows
                    ELSE [rows EXCEPT ![i].design = b.schema, ![i].own = b.read[i].own]
         /\ worker' = [worker EXCEPT ![w].todo = @ \ {i}, ![w].last = i]
  BY DEF RefreshRow, Refreshed
<1>7. /\ b.all = option /\ b.schema = version[t] /\ version[t] > 0
      /\ \A j \in b.todo : b.read[j] = rows[j]
  BY <1>1, <1>2, <1>4, <1>5 DEF Served, Current, TablesOK
<1>8. /\ b.todo \subseteq Linked(t) /\ \A j \in b.todo : b.last < j
      /\ Announced(t) => RowsAt(t, b.last)
      /\ \A j \in Linked(t) \ b.todo : b.last < j =>
            /\ \A k \in b.todo : k < j
            /\ Cardinality(DOMAIN b.read) >= BatchSize
  BY <1>1, <1>4, <1>5 DEF Served, BatchIsTrue
<1>9. i \in Ids /\ i \in Linked(t) /\ TemplateOf[i] = t /\ rows[i].link = "linked"
  BY <1>6, <1>8 DEF Linked
<1>10. rows' = [rows EXCEPT ![i].design = version[t]]
  <2>1. rows[i] \in RowType /\ Stored(i) /\ b.read[i] = rows[i]
    BY <1>1, <1>6, <1>7, <1>9 DEF Stored
  <2>2. rows' = IF rows[i].design = version[t] THEN rows
                ELSE [rows EXCEPT ![i].design = version[t], ![i].own = rows[i].own]
    BY <1>6, <1>7, <2>1
  <2>3. [rows[i] EXCEPT !.own = rows[i].own] = rows[i]
    BY <2>1 DEF RowType
  <2>4. CASE rows[i].design = version[t]
    BY <1>1, <2>1, <2>2, <2>4 DEF RowType
  <2>5. CASE rows[i].design # version[t]
    BY <1>1, <2>1, <2>2, <2>5 DEF RowType
  <2> QED BY <2>4, <2>5
<1>11. /\ rows'[i] = [rows[i] EXCEPT !.design = version[t]]
       /\ \A j \in Ids \ {i} : rows'[j] = rows[j]
       /\ \A j \in Ids : rows'[j].link = rows[j].link /\ rows'[j].own = rows[j].own
       /\ rows'[i].design = version[t]
  BY <1>1, <1>9, <1>10 DEF RowType
<1>12. /\ FreeAtTheEnd'
       /\ \A u \in Templates : Linked(u)' = Linked(u)
       /\ \A u \in Templates : \A steps : Died(u, steps)' <=> Died(u, steps)
  BY <1>1, <1>4, <1>11 DEF Served, FreeAtTheEnd, Linked, Died
<1> DEFINE todo == b.todo \ {i}
           x == [b EXCEPT !.todo = todo, !.last = i]
<1>13. /\ worker' = [worker EXCEPT ![w] = x]
       /\ x.at = "refresh" /\ x.t = t /\ x.all = option /\ x.schema = version[t]
       /\ x.read = b.read /\ x.todo = todo /\ x.last = i
  BY <1>2, <1>5, <1>6, <1>7
<1>14. WorkerOK(x)
  <2> HIDE DEF b
  <2>1. x \in [at : {"refresh"}, t : Templates, all : ProgressType, cron : BOOLEAN,
               schema : Nat \ {0}, read : [DOMAIN b.read -> RowType],
               todo : SUBSET DOMAIN b.read, last : {0} \cup Ids]
    BY <1>2, <1>9
  <2> HIDE DEF x
  <2> QED BY <1>2, <1>13, <2>1 DEF WorkerOK
<1> HIDE DEF x
<1>15. /\ OnlyServes(w)' /\ worker'[w] = x
       /\ Served(w)' => OneByOne'
       /\ \A u \in Templates : ~Announcing(u)'
       /\ \A u \in Templates :
             Linked(u)' = {} /\ u \notin scheduled' /\ option'[u] = NoRun => Gone(u)'
  <2>1. \A v : x # [at |-> "updated", t |-> v]
    BY <1>13, BatchDiffers DEF Announces
  <2> QED BY <1>1, <1>4, <1>13, <1>14, <2>1, ServedNext DEF Served
<1>16. Current(w)' /\ Placed(w)'
  <2>1. \A j \in todo : rows'[j] = rows[j] /\ b.read[j] = rows[j]
    BY <1>2, <1>7, <1>11
  <2> HIDE DEF todo, b
  <2> QED BY <1>1, <1>13, <1>15, <2>1 DEF Current, Placed
<1>17. \A u \in Templates : Announced(u)' <=> Announced(u)
  BY <1>1, <1>4, <1>12, <1>15 DEF Announced
<1>18. BatchIsTrue(w)'
  <2>1. todo \subseteq Linked(t)' /\ \A j \in todo : i < j
    BY <1>1, <1>2, <1>6, <1>8, <1>12
  <2>2. ASSUME Announced(t)', NEW j \in Linked(t)', j <= i
        PROVE  rows'[j].design = version'[t]
    <3>1. j \in Ids /\ j \in Linked(t) /\ j \in Nat /\ i \in Nat /\ b.last \in Nat
      <4>1. j \in Linked(t)
        BY <1>12, <2>2
      <4>2. j \in Ids
        BY <4>1 DEF Linked
      <4>3. b.last \in Nat
        <5>1. b.last \in {0} \cup Ids
          BY <1>2
        <5>2. \A v \in {0} \cup Ids : v \in Nat
          BY <1>1
        <5> HIDE DEF b
        <5> QED BY <5>1, <5>2
      <4> QED BY <1>1, <1>9, <4>1, <4>2, <4>3
    <3>2. CASE j = i
      BY <1>1, <1>11, <3>2
    <3>3. CASE j # i /\ j <= b.last
      BY <1>1, <1>8, <1>11, <1>17, <2>2, <3>1, <3>3 DEF RowsAt
    <3>4. CASE j # i /\ b.last < j
      <4>1. j \notin b.todo
        BY <1>1, <1>2, <1>6, <2>2, <3>1, <3>4
      <4>2. i < j
        BY <1>6, <1>8, <3>1, <3>4, <4>1
      <4> QED BY <2>2, <3>1, <4>2
    <3> QED BY <3>1, <3>2, <3>3, <3>4
  <2>3. ASSUME NEW j \in Linked(t)' \ todo, i < j
        PROVE  (\A k \in todo : k < j) /\ Cardinality(DOMAIN b.read) >= BatchSize
    <3>1. j \in Linked(t) \ b.todo /\ j \in Nat /\ i \in Nat /\ b.last < i /\ b.last \in Nat
      BY <1>1, <1>2, <1>6, <1>8, <1>9, <1>12, <2>3 DEF Linked
    <3>2. b.last < j
      BY <2>3, <3>1
    <3> QED BY <1>8, <3>1, <3>2
  <2>4. Announced(t)' => RowsAt(t, i)'
    BY <2>2 DEF RowsAt
  <2> HIDE DEF todo, b
  <2> QED BY <1>13, <1>15, <2>1, <2>3, <2>4 DEF BatchIsTrue
<1>19. \A u \in Templates : version'[u] = 0 => DeletionDied(u)' \/ Gone(u)'
  BY <1>1, <1>4, <1>12, <1>15 DEF Served, DeletionDied
<1>20. \A u \in Templates : CursorIsTrue(u)'
  <2> SUFFICES ASSUME NEW u \in Templates, Announced(u)'
               PROVE  CursorIsTrue(u)'
    BY DEF CursorIsTrue
  <2>1. \A j \in Linked(u) : rows[j].design = version[u] => rows'[j].design = version'[u]
    BY <1>1, <1>9, <1>11 DEF Linked
  <2> QED BY <1>1, <1>4, <1>12, <1>17, <2>1 DEF Served, CursorIsTrue, RowsAt
<1>21. OneByOne'
  BY <1>12, <1>15, <1>16, <1>18, <1>19, <1>20 DEF Served
<1>22. version[t] \in Nat
  BY <1>1 DEF TablesOK
<1> QED BY <1>9, <1>10, <1>21, <1>22

\* A batch ends.
LEMMA EndOneByOne ==
    ASSUME ~Overlap, PropagationTypes, OneByOne, NEW w \in Workers, EndBatch(w)
    PROVE  OneByOne'
<1> DEFINE b == worker[w]
<1>1. /\ WorkersOK /\ TablesOK /\ UNCHANGED <<version, rows, saving, broken>>
      /\ b.at = "refresh" /\ b.todo = {}
  BY TypesAre DEF EndBatch
<1>2. /\ b.t \in Templates /\ b.last \in {0} \cup Ids /\ DOMAIN b.read \subseteq Ids
      /\ b.cron \in BOOLEAN
  BY <1>1, AtRefresh DEF WorkersOK
<1>3. \A u : /\ b # Idle /\ b # [at |-> "updated", t |-> u] /\ b # [at |-> "deleted", t |-> u]
             /\ b # [at |-> "detached", t |-> u] /\ b # [at |-> "forgotten", t |-> u]
  BY <1>1, BatchDiffers DEF Announces
<1>4. /\ Served(w)
      /\ \A u \in Templates : ~Announcing(u)
      /\ \A u \in Templates :
            Gone(u) <=> Linked(u) = {} /\ u \notin scheduled /\ option[u] = NoRun
  BY <1>3, ServedNow
<1>5. PICK t \in Templates : t = b.t
  BY <1>2
<1>6. b.all = option /\ version[t] > 0
  <2>1. b.schema \in Nat \ {0} /\ b.all = option /\ b.schema = version[t]
    BY <1>1, <1>4, <1>5, AtRefresh DEF Served, Current, WorkersOK
  <2> QED BY <2>1
<1>7. /\ Announced(t) => RowsAt(t, b.last)
      /\ \A j \in Linked(t) : b.last < j => Cardinality(DOMAIN b.read) >= BatchSize
  BY <1>1, <1>4, <1>5 DEF Served, BatchIsTrue
<1>8. PICK status \in {"done", "running"} :
         /\ SavesProgress(w, status, b.last) /\ UNCHANGED scheduled
         /\ status = "done" => Cardinality(DOMAIN b.read) < BatchSize
  BY DEF EndBatch, Finish
<1>9. /\ option'[t] = [status |-> status, last |-> b.last]
      /\ \A u \in Templates \ {t} : option'[u] = option[u]
  <2>1. /\ option'[b.t] = [status |-> status, last |-> b.last]
        /\ \A u \in Templates \ {b.t} : option'[u] = b.all[u]
    BY <1>1, <1>2, <1>8, SavedTypes
  <2> QED BY <1>5, <1>6, <2>1
<1>16. PICK x : /\ worker' = [worker EXCEPT ![w] = x] /\ WorkerOK(x)
                /\ \A u : x # [at |-> "updated", t |-> u]
                /\ x.at \in {"idle", "schedules"} /\ (x.at = "schedules" => x.t = t)
  <2> DEFINE y == [at |-> "schedules", t |-> b.t, cron |-> b.cron]
  <2>1. worker' = [worker EXCEPT ![w] = Idle] \/ worker' = [worker EXCEPT ![w] = y]
    BY DEF EndBatch, Finish
  <2>2. WorkerOK(y) /\ y.at = "schedules" /\ y.t = t
    BY <1>2, <1>5, OtherPlaces
  <2>3. Idle.at = "idle" /\ \A u : [at |-> "updated", t |-> u].at = "updated"
    BY DEF Idle
  <2> HIDE DEF y
  <2> QED BY <2>1, <2>2, <2>3, IdleOK
<1>10. status = "done" => \A j \in Linked(t) : j <= b.last
  <2>1. IsFiniteSet(DOMAIN b.read)
    <3>1. IsFiniteSet(Ids)
      BY PropagationAssumption, FS_Interval DEF Ids
    <3> QED BY <1>2, <3>1, FS_Subset
  <2>2. Cardinality(DOMAIN b.read) \in Nat
    BY <2>1, FS_CardinalityType
  <2>3. status = "done" => ~(Cardinality(DOMAIN b.read) >= BatchSize)
    BY <1>8, <2>2, PropagationAssumption
  <2>4. b.last \in Nat /\ Linked(t) \subseteq Nat
    BY <1>2, PropagationAssumption DEF Linked, Ids
  <2> QED BY <1>7, <2>3, <2>4
<1>11. /\ OnlyServes(w)' /\ worker'[w] = x
       /\ Served(w)' => OneByOne'
       /\ \A u \in Templates :
             Linked(u)' = {} /\ u \notin scheduled' /\ option'[u] = NoRun => Gone(u)'
  BY <1>1, <1>4, <1>16, ServedNext DEF Served
<1>12. /\ FreeAtTheEnd'
       /\ \A u \in Templates : Linked(u)' = Linked(u)
       /\ \A u \in Templates : \A steps : Died(u, steps)' <=> Died(u, steps)
  BY <1>1, <1>4 DEF Served, FreeAtTheEnd, Linked, Died
<1>13. Current(w)' /\ Placed(w)' /\ BatchIsTrue(w)'
  BY <1>1, <1>6, <1>11, <1>16 DEF Current, Placed, BatchIsTrue
<1>14. \A u \in Templates : version'[u] = 0 => DeletionDied(u)' \/ Gone(u)'
  <2> SUFFICES ASSUME NEW u \in Templates, version'[u] = 0
               PROVE  DeletionDied(u)' \/ Gone(u)'
    OBVIOUS
  <2>1. u # t /\ (DeletionDied(u) \/ Gone(u))
    BY <1>1, <1>4, <1>6 DEF Served
  <2> QED BY <1>4, <1>8, <1>9, <1>11, <1>12, <2>1 DEF DeletionDied
<1>15. \A u \in Templates : CursorIsTrue(u)'
  <2> SUFFICES ASSUME NEW u \in Templates, Announced(u)'
               PROVE  CursorIsTrue(u)'
    BY DEF CursorIsTrue
  <2>1. Announced(u)
    BY <1>1, <1>4, <1>12 DEF Announced
  <2>2. CASE u # t
    BY <1>1, <1>4, <1>9, <1>12, <2>1, <2>2 DEF Served, CursorIsTrue, RowsAt
  <2>3. CASE u = t
    <3>1. option'[u].last = b.last /\ option'[u].status = status
      BY <1>9, <2>3
    <3>2. \A j \in Linked(u)' : j <= b.last => rows'[j].design = version'[u]
      BY <1>1, <1>7, <1>12, <2>1, <2>3 DEF RowsAt
    <3>3. status \in {"none", "done"} => \A j \in Linked(u)' : j <= b.last
      BY <1>8, <1>10, <1>12, <2>3
    <3> HIDE DEF b
    <3> QED BY <3>1, <3>2, <3>3 DEF CursorIsTrue, RowsAt
  <2> QED BY <2>2, <2>3
<1> QED BY <1>11, <1>12, <1>13, <1>14, <1>15 DEF Served

\* The next batch is scheduled: its template is there.
LEMMA ScheduleOneByOne ==
    ASSUME ~Overlap, PropagationTypes, OneByOne, NEW w \in Workers, ScheduleNext(w)
    PROVE  OneByOne'
<1>1. /\ WorkersOK /\ TablesOK /\ UNCHANGED <<version, rows, option, saving, broken>>
      /\ worker[w].at = "schedules" /\ worker' = [worker EXCEPT ![w] = Idle]
      /\ scheduled' = scheduled \cup {worker[w].t}
  BY TypesAre DEF ScheduleNext
<1>2. worker[w] # Idle /\ \A u : \A a \in Announces : worker[w] # [at |-> a, t |-> u]
  BY <1>1, BatchDiffers
<1>3. /\ Served(w)
      /\ \A u \in Templates : ~Announcing(u)
      /\ \A u \in Templates :
            Gone(u) <=> Linked(u) = {} /\ u \notin scheduled /\ option[u] = NoRun
  BY <1>2, ServedNow DEF Announces
<1>4. version[worker[w].t] > 0
  BY <1>1, <1>3 DEF Served, Placed
<1>5. /\ OnlyServes(w)' /\ worker'[w] = Idle
      /\ Served(w)' => OneByOne'
      /\ \A u \in Templates :
            Linked(u)' = {} /\ u \notin scheduled' /\ option'[u] = NoRun => Gone(u)'
  BY <1>1, <1>3, IdleOK, ServedNext DEF Served
<1>6. Current(w)' /\ Placed(w)' /\ BatchIsTrue(w)'
  BY <1>5 DEF Current, Placed, BatchIsTrue, Idle
<1>7. /\ FreeAtTheEnd'
      /\ \A u \in Templates : Linked(u)' = Linked(u)
      /\ \A u \in Templates : \A steps : Died(u, steps)' <=> Died(u, steps)
  BY <1>1, <1>3 DEF Served, FreeAtTheEnd, Linked, Died
<1>8. \A u \in Templates : version'[u] = 0 => DeletionDied(u)' \/ Gone(u)'
  BY <1>1, <1>3, <1>4, <1>5, <1>7 DEF Served, DeletionDied
<1>9. \A u \in Templates : CursorIsTrue(u)'
  <2> SUFFICES ASSUME NEW u \in Templates, Announced(u)'
               PROVE  CursorIsTrue(u)'
    BY DEF CursorIsTrue
  <2>1. Announced(u)
    BY <1>1, <1>3, <1>7 DEF Announced
  <2> QED BY <1>1, <1>3, <1>7, <2>1 DEF Served, CursorIsTrue, RowsAt
<1> QED BY <1>5, <1>6, <1>7, <1>8, <1>9 DEF Served

\* A step on the signatures while no process works on a template: rows with a design
\* that is not their template's have it from one no newer than they are.
LEMMA SignaturesSuffice ==
    ASSUME OneByOne, UNCHANGED <<version, option, scheduled, worker, broken>>,
           \A w \in Workers : worker[w] = Idle,
           OneAtATime', ReadIsCurrent', FreeAtTheEnd',
           \A u \in Templates : Linked(u) = {} => Linked(u)' = {},
           \A i \in Ids : i \in Nat, \A u \in Templates : option[u].last \in Nat,
           \A u \in Templates : version[u] > 0 => \A j \in Linked(u)' :
              \/ rows'[j].design = version[u]
              \/ \E k \in Linked(u) : k <= j /\ rows'[j].design = rows[k].design
    PROVE  OneByOne'
<1>1. /\ \A u \in Templates : ~Announcing(u) /\ ~Announcing(u)'
      /\ \A u \in Templates :
            Gone(u) => Linked(u) = {} /\ u \notin scheduled /\ option[u] = NoRun
  BY DEF Announcing, Gone, Idle
<1>2. \A u \in Templates : \A steps : Died(u, steps)' <=> Died(u, steps)
  BY DEF Died
<1>3. \A w \in Workers : Placed(w)' /\ BatchIsTrue(w)'
  BY DEF Placed, BatchIsTrue, Idle
<1>4. \A u \in Templates : version'[u] = 0 => DeletionDied(u)' \/ Gone(u)'
  <2> SUFFICES ASSUME NEW u \in Templates, version[u] = 0
               PROVE  DeletionDied(u)' \/ Gone(u)'
    OBVIOUS
  <2>1. DeletionDied(u) \/ Gone(u)
    BY DEF OneByOne, DeletionEnds
  <2>2. CASE DeletionDied(u)
    BY <1>2, <2>2 DEF DeletionDied
  <2>3. CASE Gone(u)
    BY <1>1, <2>3 DEF Gone
  <2> QED BY <2>1, <2>2, <2>3
<1>5. \A u \in Templates : CursorIsTrue(u)'
  <2> SUFFICES ASSUME NEW u \in Templates, Announced(u)', NEW j \in Linked(u)',
                      j <= option[u].last \/ option[u].status \in {"none", "done"}
               PROVE  rows'[j].design = version[u]
    BY DEF CursorIsTrue, RowsAt
  <2>1. Announced(u) /\ version[u] > 0
    BY <1>1, <1>2 DEF Announced
  <2>2. /\ \A k \in Linked(u) : k <= option[u].last => rows[k].design = version[u]
        /\ option[u].status \in {"none", "done"} =>
              \A k \in Linked(u) : rows[k].design = version[u]
    BY <2>1 DEF OneByOne, RunIsTrue, CursorIsTrue, RowsAt
  <2>3. CASE rows'[j].design = version[u]
    BY <2>3
  <2>4. ASSUME NEW k \in Linked(u), k <= j, rows'[j].design = rows[k].design
        PROVE  rows'[j].design = version[u]
    <3>1. CASE option[u].status \in {"none", "done"}
      BY <2>2, <2>4, <3>1
    <3>2. CASE j <= option[u].last
      <4>1. k \in Nat /\ j \in Nat
        BY DEF Linked
      <4>2. PICK last \in Nat : last = option[u].last
        OBVIOUS
      <4> QED BY <2>2, <2>4, <3>2, <4>1, <4>2
    <3> QED BY <3>1, <3>2
  <2> QED BY <2>1, <2>3, <2>4
<1> QED BY <1>3, <1>4, <1>5 DEF OneByOne, DeletionEnds, RunIsTrue

\* Saves, and what is done to a signature.
LEMMA SignatureOneByOne ==
    ASSUME ~Overlap, PropagationTypes, OneByOne, NEW i \in Ids,
           SaveReads(i) \/ SaveWrites(i) \/ Detach(i) \/ Duplicate(i) \/ DeleteSignature(i)
    PROVE  OneByOne'
<1>1. /\ TablesOK /\ SavesOK /\ rows \in [Ids -> RowType]
      /\ UNCHANGED <<version, option, scheduled, worker, broken>>
  BY TypesAre DEF TablesOK, SaveReads, SaveWrites, Detach, Duplicate, DeleteSignature
<1>2. (\A j \in Ids : j \in Nat) /\ \A u \in Templates : option[u].last \in Nat
  <2>1. \A j \in Ids : j \in Nat
    BY PropagationAssumption DEF Ids
  <2>2. \A u \in Templates : option[u].last \in {0} \cup Ids
    BY <1>1 DEF TablesOK, ProgressType
  <2> QED BY <2>1, <2>2
<1>3. FreeAtTheEnd /\ ReadIsCurrent
  BY DEF OneByOne
<1>4. /\ \A w \in Workers : worker[w] = Idle
      /\ \A j \in Ids \ {i} : saving[j] = NoSave
      /\ ~SaveWrites(i) => saving[i] = NoSave
  <2>1. CASE Alone
    BY <2>1 DEF Alone, SaveWrites
  <2>2. CASE SaveWrites(i)
    <3>1. saving[i] # NoSave
      BY <2>2 DEF SaveWrites, NoSave
    <3> QED BY <2>2, <3>1 DEF OneByOne, OneAtATime, Busy
  <2> QED BY <2>1, <2>2 DEF SaveReads, Detach, Duplicate, DeleteSignature
<1>5. ASSUME \A j \in Ids \ {i} : saving'[j] = NoSave PROVE OneAtATime'
  BY <1>1, <1>4, <1>5 DEF OneAtATime, Busy
<1>6. ASSUME \A j \in Ids \ {i} : saving'[j] = NoSave,
             saving'[i] # NoSave => /\ saving'[i].link = rows'[i].link
                                    /\ saving'[i].schema = version[TemplateOf[i]]
      PROVE  ReadIsCurrent'
  BY <1>1, <1>4, <1>6 DEF ReadIsCurrent, Current, Idle
<1>7. CASE SaveReads(i)
  <2>1. /\ UNCHANGED rows /\ \A j \in Ids \ {i} : saving'[j] = NoSave
        /\ saving'[i].link = rows'[i].link /\ saving'[i].schema = version[TemplateOf[i]]
    BY <1>1, <1>4, <1>7 DEF SaveReads, SavesOK
  <2>2. FreeAtTheEnd' /\ \A u \in Templates : Linked(u)' = Linked(u)
    BY <1>3, <2>1 DEF FreeAtTheEnd, Linked
  <2>3. \A u \in Templates : \A j \in Linked(u) : j <= j /\ rows'[j].design = rows[j].design
    BY <1>2, <2>1 DEF Linked
  <2> QED BY <1>1, <1>2, <1>4, <1>5, <1>6, <2>1, <2>2, <2>3, SignaturesSuffice
\* The other steps leave no save behind.
<1>8. ASSUME \A j \in Ids : saving'[j] = NoSave, FreeAtTheEnd',
             \A u \in Templates : Linked(u) = {} => Linked(u)' = {},
             \A u \in Templates : version[u] > 0 => \A j \in Linked(u)' :
                \/ rows'[j].design = version[u]
                \/ \E k \in Linked(u) : k <= j /\ rows'[j].design = rows[k].design
      PROVE  OneByOne'
  BY <1>1, <1>2, <1>4, <1>5, <1>6, <1>8, SignaturesSuffice
<1>9. CASE SaveWrites(i)
  <2>1. \A j \in Ids : saving'[j] = NoSave
    BY <1>1, <1>4, <1>9 DEF SaveWrites, SavesOK
  <2>2. saving[i].link = rows[i].link /\ saving[i].schema = version[TemplateOf[i]]
    BY <1>3, <1>9 DEF ReadIsCurrent, SaveWrites, NoSave
  <2>3. /\ \A j \in Ids \ {i} : rows'[j] = rows[j]
        /\ rows'[i].link = rows[i].link
        /\ rows[i].link = "free" => rows'[i].own = rows[i].own
        /\ rows[i].link = "linked" => rows'[i].design = version[TemplateOf[i]]
    <3>1. CASE ~Stored(i)
      BY <1>9, <3>1 DEF SaveWrites, Stored
    <3>2. CASE Stored(i)
      <4>1. rows' = [rows EXCEPT ![i].own = @ + 1,
                ![i].design = IF saving[i].link = "linked" THEN saving[i].schema ELSE 0]
        BY <1>9, <3>2 DEF SaveWrites
      <4>2. rows'[i] = [rows[i] EXCEPT !.own = @ + 1,
                !.design = IF saving[i].link = "linked" THEN saving[i].schema ELSE 0]
        BY <1>1, <4>1
      <4>3. /\ rows'[i].link = rows[i].link
            /\ rows'[i].design = IF saving[i].link = "linked" THEN saving[i].schema ELSE 0
        BY <1>1, <4>2 DEF RowType
      <4>4. \A j \in Ids \ {i} : rows'[j] = rows[j]
        BY <1>1, <4>1
      <4> QED BY <2>2, <3>2, <4>3, <4>4 DEF Stored
    <3> QED BY <3>1, <3>2
  <2>4. FreeAtTheEnd'
    BY <1>3, <2>3 DEF FreeAtTheEnd
  <2>5. \A u \in Templates : Linked(u)' = Linked(u)
    BY <2>3 DEF Linked
  <2>6. \A u \in Templates : \A j \in Linked(u)' :
           \/ rows'[j].design = version[u]
           \/ j \in Linked(u) /\ j <= j /\ rows'[j].design = rows[j].design
    BY <1>2, <2>3, <2>5 DEF Linked
  <2> QED BY <1>8, <2>1, <2>4, <2>5, <2>6
<1>10. CASE Detach(i) \/ DeleteSignature(i)
  <2>1. /\ rows[i].link \in {"linked", "detached"} /\ UNCHANGED saving
        /\ \E link \in {"detached", "deleted"} : rows' = [rows EXCEPT ![i].link = link]
    BY <1>10 DEF Detach, DeleteSignature, Stored
  <2>2. \A j \in Ids \ {i} : rows'[j] = rows[j]
    BY <1>1, <2>1
  <2>3. rows'[i].link \in {"detached", "deleted"}
    BY <1>1, <2>1 DEF RowType
  <2>4. FreeAtTheEnd'
    BY <1>3, <2>1, <2>2, <2>3 DEF FreeAtTheEnd
  <2>5. \A u \in Templates : \A j \in Linked(u)' :
           j \in Linked(u) /\ j <= j /\ rows'[j].design = rows[j].design
    BY <1>2, <2>2, <2>3 DEF Linked
  <2>6. \A j \in Ids : saving'[j] = NoSave
    BY <1>4, <1>10, <2>1 DEF Detach, DeleteSignature, SaveWrites, Alone
  <2>7. \A u \in Templates : Linked(u) = {} => Linked(u)' = {}
    BY <2>5
  <2> QED BY <1>8, <2>4, <2>5, <2>6, <2>7
<1>11. CASE Duplicate(i)
  <2>1. PICK n \in Ids : /\ rows[n].link = "free" /\ \A j \in 1..(n - 1) : rows[j].link # "free"
                         /\ TemplateOf[n] = TemplateOf[i]
                         /\ rows' = [rows EXCEPT ![n] = rows[i]]
    BY <1>11 DEF Duplicate
  <2>2. Stored(i) /\ UNCHANGED saving /\ i \in Nat /\ n \in Nat
    BY <1>2, <1>11 DEF Duplicate
  <2>3. rows'[n] = rows[i] /\ \A j \in Ids \ {n} : rows'[j] = rows[j]
    BY <1>1, <2>1
  <2>4. i < n
    <3>1. n # i /\ ~(n < i)
      BY <1>3, <2>1, <2>2 DEF FreeAtTheEnd, Stored
    <3> QED BY <2>2, <3>1
  <2>5. FreeAtTheEnd'
    <3>1. \A j \in Ids : j < n => j \in 1 .. (n - 1)
      BY <1>2, <2>2, PropagationAssumption DEF Ids
    <3>2. \A j \in Ids : rows'[j].link = "free" =>
             j # n /\ rows[j] = rows'[j] /\ ~(j < n)
      BY <2>1, <2>2, <2>3, <3>1 DEF Stored
    <3> QED BY <1>3, <2>3, <3>2 DEF FreeAtTheEnd
  <2>6. \A u \in Templates : \A j \in Linked(u)' :
           \/ j \in Linked(u) /\ j <= j /\ rows'[j].design = rows[j].design
           \/ i \in Linked(u) /\ i <= j /\ rows'[j].design = rows[i].design
    BY <1>2, <2>1, <2>2, <2>3, <2>4 DEF Linked
  <2>7. \A j \in Ids : saving'[j] = NoSave
    BY <1>4, <1>11, <2>2 DEF Duplicate, Alone
  <2>8. \A u \in Templates : Linked(u) = {} => Linked(u)' = {}
    BY <2>6
  <2> QED BY <1>8, <2>5, <2>6, <2>7, <2>8
<1> QED BY <1>7, <1>9, <1>10, <1>11

LEMMA OneByOneNext == ~Overlap /\ PropagationTypes /\ OneByOne /\ [Next]_vars => OneByOne'
<1> SUFFICES ASSUME ~Overlap, PropagationTypes, OneByOne, [Next]_vars PROVE OneByOne'
  OBVIOUS
<1>1. CASE UNCHANGED vars
  <2> USE DEF OneByOne
  <2>1. OneAtATime' /\ ReadIsCurrent' /\ FreeAtTheEnd'
    BY <1>1 DEF vars, OneAtATime, Busy, ReadIsCurrent, Current, FreeAtTheEnd
  <2>2. DeletionEnds'
    BY <1>1 DEF vars, DeletionEnds, DeletionDied, Died, Gone, Placed, Linked
  <2>3. RunIsTrue'
    BY <1>1 DEF vars, RunIsTrue, CursorIsTrue, BatchIsTrue, RowsAt, Announced, Announcing,
                Died, Linked
  <2> QED BY <2>1, <2>2, <2>3
<1>2. ASSUME NEW w \in Workers, Serves(w) \/ RequestDies(w) PROVE OneByOne'
  BY <1>2, PropagateOneByOne, BatchOneByOne, RefreshOneByOne, EndOneByOne, ScheduleOneByOne,
     DeletionOneByOne, DeathOneByOne DEF Serves
<1> QED BY <1>1, <1>2, TemplateOneByOne, SignatureOneByOne DEF Next

LEMMA OneByOneHolds ==
    ASSUME ~Overlap
    PROVE  Spec => []OneByOne
<1>1. PropagationTypes /\ OneByOne /\ [Next]_vars => OneByOne'
  BY OneByOneNext
<1> QED BY <1>1, InitOneByOne, PropagationTypesHold, PTL DEF Spec

\* While requests come one after the other the progress of a run says what is so, however
\* updates, batches, saves, copies, deletions and deaths of requests follow each other: up
\* to its cursor, and everywhere when no run is under way, the linked signatures have the
\* template's current design.
THEOREM ProgressTrue ==
    ASSUME ~Overlap
    PROVE  Spec => []ProgressIsTrue
<1>1. OneByOne => ProgressIsTrue
  BY DEF OneByOne, RunIsTrue, CursorIsTrue, RowsAt, Announced, ProgressIsTrue
<1> QED BY <1>1, OneByOneHolds, PTL

\* A deletion that did not die leaves no event, no progress and no link of its template.
THEOREM NothingLeft ==
    ASSUME ~Overlap
    PROVE  Spec => []NothingLeftBehind
<1>1. OneByOne => NothingLeftBehind
  <2>1. \A t \in Templates :
           Gone(t) => Working(t) \/ (Linked(t) = {} /\ t \notin scheduled /\ option[t] = NoRun)
    <3> SUFFICES ASSUME NEW t \in Templates, NEW w \in Workers,
                        NEW at \in {"deleted", "detached", "forgotten"},
                        worker[w] = [at |-> at, t |-> t]
                 PROVE  worker[w] # Idle /\ worker[w].t = t
      BY DEF Gone, Working
    <3>1. worker[w].at = at /\ worker[w].t = t /\ Idle.at = "idle"
      BY DEF Idle
    <3> QED BY <3>1
  <2> QED BY <2>1 DEF OneByOne, DeletionEnds, DeletionDied, NothingLeftBehind
<1> QED BY <1>1, OneByOneHolds, PTL

\* Nor does anything put back what is the employee's: the refresh of a row leaves the
\* texts and variables as they are, and a detached row its design.
THEOREM OwnWork ==
    ASSUME ~Overlap
    PROVE  Spec => OwnWorkStays
<1> DEFINE Kept == \A i \in Ids :
              /\ rows'[i].own >= rows[i].own
              /\ rows[i].link = "detached" /\ rows'[i].design # rows[i].design
                    => rows'[i].own > rows[i].own
<1>1. ASSUME PropagationTypes, OneByOne, [Next]_vars PROVE Kept
  <2>1. rows \in [Ids -> RowType]
    BY <1>1, TypesAre DEF TablesOK
  <2>2. \A i \in Ids : rows[i].own \in Nat /\ rows[i].own >= rows[i].own
    BY <2>1 DEF RowType
  <2>3. CASE UNCHANGED rows
    BY <2>2, <2>3
  <2>4. ASSUME NEW w \in Workers, RefreshRow(w) PROVE Kept
    <3>1. PICK i \in Ids, design \in Nat :
             rows[i].link = "linked" /\ rows' = [rows EXCEPT ![i].design = design]
      BY <1>1, <2>4, RefreshOneByOne
    <3>2. \A j \in Ids : rows'[j].own = rows[j].own
      BY <2>1, <3>1 DEF RowType
    <3>3. \A j \in Ids \ {i} : rows'[j] = rows[j]
      BY <2>1, <3>1
    <3> QED BY <2>2, <3>1, <3>2, <3>3
  <2>5. ASSUME NEW w \in Workers, DetachAll(w) PROVE Kept
    <3>1. \A j \in Ids : rows'[j] \in {rows[j], [rows[j] EXCEPT !.link = "detached"]}
      BY <2>5 DEF DetachAll
    <3>2. \A j \in Ids : rows'[j].own = rows[j].own /\ rows'[j].design = rows[j].design
      BY <2>1, <3>1 DEF RowType
    <3> QED BY <2>2, <3>2
  <2>6. ASSUME NEW i \in Ids, SaveWrites(i) PROVE Kept
    <3>1. \/ UNCHANGED rows
          \/ \E d : rows' = [rows EXCEPT ![i].own = @ + 1, ![i].design = d]
      BY <2>6 DEF SaveWrites
    <3>2. ASSUME NEW d, rows' = [rows EXCEPT ![i].own = @ + 1, ![i].design = d] PROVE Kept
      <4>1. rows'[i].own = rows[i].own + 1 /\ \A j \in Ids \ {i} : rows'[j] = rows[j]
        BY <2>1, <3>2 DEF RowType
      <4> QED BY <2>2, <4>1
    <3> QED BY <2>3, <3>1, <3>2
  <2>7. ASSUME NEW i \in Ids, Detach(i) \/ DeleteSignature(i) PROVE Kept
    <3>1. \E link \in {"detached", "deleted"} : rows' = [rows EXCEPT ![i].link = link]
      BY <2>7 DEF Detach, DeleteSignature
    <3>2. \A j \in Ids : rows'[j].own = rows[j].own /\ rows'[j].design = rows[j].design
      BY <2>1, <3>1 DEF RowType
    <3> QED BY <2>2, <3>2
  <2>8. ASSUME NEW i \in Ids, Duplicate(i) PROVE Kept
    <3>1. PICK n \in Ids : rows[n].link = "free" /\ rows' = [rows EXCEPT ![n] = rows[i]]
      BY <2>8 DEF Duplicate
    <3>2. rows[n].own = 0 /\ rows'[n].own >= 0 /\ \A j \in Ids \ {n} : rows'[j] = rows[j]
      <4>1. rows[n].own = 0
        BY <1>1, <3>1 DEF OneByOne, FreeAtTheEnd
      <4>2. rows'[n] = rows[i] /\ \A j \in Ids \ {n} : rows'[j] = rows[j]
        BY <2>1, <3>1
      <4> QED BY <2>2, <4>1, <4>2
    <3> QED BY <2>2, <3>1, <3>2
  <2> HIDE DEF Kept
  <2>9. CASE UNCHANGED vars
    BY <2>3, <2>9 DEF vars
  <2>10. ASSUME NEW w \in Workers, Serves(w) \/ RequestDies(w) PROVE Kept
    BY <2>3, <2>4, <2>5, <2>10 DEF Serves, RequestDies, Propagate, ScheduleNext,
       BatchHasNoTemplate, BatchReads, EndBatch, ForgetRun, ClearEvent
  <2>11. ASSUME NEW w \in Workers, NEW t \in Templates,
                UpdateTemplate(w, t) \/ DeleteTemplate(w, t) \/ CronFires(w, t)
         PROVE  Kept
    BY <2>3, <2>11 DEF UpdateTemplate, DeleteTemplate, CronFires
  <2>12. ASSUME NEW i \in Ids, SaveReads(i) PROVE Kept
    BY <2>3, <2>12 DEF SaveReads
  <2> QED BY <1>1, <2>6, <2>7, <2>8, <2>9, <2>10, <2>11, <2>12 DEF Next
<1>2. PropagationTypes /\ OneByOne /\ [Next]_vars => [Kept]_vars
  BY <1>1
<1> HIDE DEF Kept
<1>3. Spec => [][Kept]_vars
  BY <1>2, PropagationTypesHold, OneByOneHolds, PTL DEF Spec
<1> QED BY <1>3 DEF OwnWorkStays, Kept
=============================================================================
