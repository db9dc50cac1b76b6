------------------------------ MODULE Directory ------------------------------
(***************************************************************************)
(* The directory of the company (Directory/Groups, ProfileFields and       *)
(* ProfileImporter): groups with their footers, who belongs to them, what  *)
(* is in the profiles, and the listener that marks the compiled HTML of    *)
(* whoever is concerned (StaleHtmlMarker).  Requests write row by row and  *)
(* run the hooks afterwards: two may be at work at once, and die between   *)
(* any two of their writes.  CompiledHtml has one user, whose inputs are a *)
(* number there; here they are what the directory says.                    *)
(***************************************************************************)
EXTENDS Naturals, FiniteSets, FiniteSetsExt

CONSTANTS
    Staff,          \* the users of the site
    Groups,         \* the groups there are or may be, numbered by their names
    FirstGroups,    \* those there are at the beginning
    CampaignGroups, \* the groups a running campaign is for
    Footers,        \* the footers a group may have instead of the site's
    Profiles,       \* what a profile may hold
    Clerks,         \* PHP processes
    MaxTasks,       \* bound on the requests
    MaxImported,    \* bound on the rows of a chunk
    MaxTaskDeaths,  \* bound on the requests that die
    RacedDeletion   \* a signature is recompiled while its group is being deleted

ASSUME DirectoryAssumption ==
    /\ Groups \subseteq Nat \ {0} /\ FirstGroups \subseteq Groups /\ CampaignGroups \subseteq Groups
    /\ IsFiniteSet(Groups) /\ IsFiniteSet(Staff) /\ Staff \subseteq Nat \ {0} /\ Staff # {}
    /\ Footers \subseteq Nat \ {0, 1} /\ Profiles \subseteq Nat /\ Profiles # {}
    /\ {MaxTasks, MaxImported, MaxTaskDeaths} \subseteq Nat
    /\ RacedDeletion \in BOOLEAN

VARIABLES
    groupFooter, \* 0 where there is no group, NoOverride where it has the site's footer
    belongs,     \* the memberships, pairs of a user and a group
    profileOf,   \* META_KEY of each user
    compiledOf,  \* what the HTML of each user was compiled from
    freshOf,     \* whether it counts as fresh: compiled_at is set
    task,        \* what each process is doing
    tasks,       \* how many requests there were, and deaths
    untold       \* whose change was stored by a request that died before its hooks

directoryVars == <<groupFooter, belongs, profileOf, compiledOf, freshOf, task, tasks, untold>>
directoryTables == <<groupFooter, belongs, profileOf>>
directoryHtml == <<compiledOf, freshOf, untold>>

NoOverride == 1
Exists(g) == g \in Groups /\ groupFooter[g] # 0
MembersOf(g) == {u \in Staff : <<u, g>> \in belongs}
GroupsOf(u) == {g \in Groups : <<u, g>> \in belongs}

\* effective_compliance_footer(): of the first group that has one of its own
FooterOf(u) ==
    LET own == {g \in GroupsOf(u) : groupFooter[g] > NoOverride}
    IN  IF own = {} THEN 0 ELSE groupFooter[Min(own)]

\* RenderInputs::for_user()
InputsOf(u) == [profile |-> profileOf[u], footer |-> FooterOf(u),
                banner |-> GroupsOf(u) \cap CampaignGroups # {}]

\* A process: the user and the group of the import's row or the group edited, the
\* users it still adds and removes, whom it will announce, the rows left of a chunk
\* and the group ids it remembers.
NoTask == [at |-> "idle", user |-> 0, group |-> 0, add |-> {}, remove |-> {}, tell |-> {},
           left |-> 0, ids |-> [g \in Groups |-> "unknown"]]

DirectoryInit ==
    /\ groupFooter = [g \in Groups |-> IF g \in FirstGroups THEN NoOverride ELSE 0]
    /\ belongs \in {{}, {Min(Staff)} \X FirstGroups}
    /\ profileOf = [u \in Staff |-> Min(Profiles)]
    /\ compiledOf = [u \in Staff |-> InputsOf(u)]
    /\ freshOf = [u \in Staff |-> TRUE]
    /\ task = [c \in Clerks |-> NoTask]
    /\ tasks = 0
    /\ untold = {}

-----------------------------------------------------------------------------
(* Requests. *)

Requested(c) ==
    /\ task[c].at = "idle"
    /\ tasks < MaxTasks /\ tasks' = tasks + 1

\* mark_html_outdated(): clears compiled_at.
Marks(users) ==
    /\ freshOf' = [u \in Staff |-> freshOf[u] /\ u \notin users]
    /\ untold' = untold \ users
    /\ UNCHANGED compiledOf

\* set_members(): what changes is worked out first.
SetsMembers(c, g, wanted) ==
    /\ Requested(c)
    /\ Exists(g) /\ wanted # MembersOf(g)
    /\ task' = [task EXCEPT ![c] = [NoTask EXCEPT
            !.at = "writes", !.group = g,
            !.add = wanted \ MembersOf(g), !.remove = MembersOf(g) \ wanted,
            !.tell = (wanted \cup MembersOf(g)) \ (wanted \cap MembersOf(g))]]
    /\ UNCHANGED <<directoryTables, directoryHtml>>

\* ... and written user by user, the new ones first.  A group that was deleted
\* meanwhile takes nobody.
WritesMember(c) ==
    /\ task[c].at = "writes"
    /\ IF task[c].add # {}
       THEN LET u == Min(task[c].add)
            IN  /\ belongs' = belongs \cup (IF Exists(task[c].group) THEN {<<u, task[c].group>>} ELSE {})
                /\ task' = [task EXCEPT ![c].add = @ \ {u}]
       ELSE LET u == Min(task[c].remove)
            IN  /\ task[c].remove # {}
                /\ belongs' = belongs \ {<<u, task[c].group>>}
                /\ task' = [task EXCEPT ![c].remove = @ \ {u}]
    /\ UNCHANGED <<groupFooter, profileOf, directoryHtml, tasks>>

MembersWritten(c) ==
    /\ task[c].at = "writes" /\ task[c].add = {} /\ task[c].remove = {}
    /\ task' = [task EXCEPT ![c].at = "tells"]
    /\ UNCHANGED <<directoryTables, directoryHtml, tasks>>

\* set_user_groups(), from the user's profile screen
SetsGroups(c, u, wanted) ==
    /\ Requested(c)
    /\ \A g \in wanted : Exists(g)
    /\ wanted # GroupsOf(u)
    /\ belongs' = {m \in belongs : m[1] # u} \cup ({u} \X wanted)
    /\ task' = [task EXCEPT ![c] = [NoTask EXCEPT !.at = "tells", !.tell = {u}]]
    /\ UNCHANGED <<groupFooter, profileOf, directoryHtml>>

\* Groups::update(): who belongs to it is asked when the hook runs.
UpdatesGroup(c, g, footer) ==
    /\ Requested(c)
    /\ Exists(g) /\ groupFooter[g] # footer
    /\ groupFooter' = [groupFooter EXCEPT ![g] = footer]
    /\ task' = [task EXCEPT ![c] = [NoTask EXCEPT !.at = "updated", !.group = g]]
    /\ UNCHANGED <<belongs, profileOf, directoryHtml>>

\* ProfileFields::save()
SavesProfile(c, u, profile) ==
    /\ Requested(c)
    /\ profileOf[u] # profile
    /\ profileOf' = [profileOf EXCEPT ![u] = profile]
    /\ task' = [task EXCEPT ![c] = [NoTask EXCEPT !.at = "tells", !.tell = {u}]]
    /\ UNCHANGED <<groupFooter, belongs, directoryHtml>>

\* Faulty: marks nobody before the group is gone.
DeletesGroupFirst(c, g) ==
    /\ Requested(c)
    /\ Exists(g)
    /\ task' = [task EXCEPT ![c] = [NoTask EXCEPT !.at = "deletes", !.group = g]]
    /\ UNCHANGED <<directoryTables, directoryHtml>>

\* Groups::delete(): pre_delete_term marks, while the group still has its members ...
DeletesGroup(c, g) ==
    /\ Requested(c)
    /\ Exists(g)
    /\ Marks(MembersOf(g))
    /\ task' = [task EXCEPT ![c] = [NoTask EXCEPT !.at = "deletes", !.group = g]]
    /\ UNCHANGED directoryTables

\* The id that a process has for g is the id of nothing, whatever becomes of the name;
\* an import has it with its ids.
Loses(t, g) ==
    IF t.group = g /\ t.at = "deletes" THEN NoTask
    ELSE IF t.group = g /\ t.at \in {"writes", "tells", "updated"} THEN [t EXCEPT !.group = 0]
    ELSE [t EXCEPT !.ids[g] = IF @ = "found" THEN "none" ELSE @]

\* ... and the group goes with its members.
DropsGroup(c) ==
    /\ task[c].at = "deletes"
    /\ LET g == task[c].group
       IN  /\ groupFooter' = [groupFooter EXCEPT ![g] = 0]
           /\ belongs' = {m \in belongs : m[2] # g}
           /\ task' = [d \in Clerks |-> Loses(task[d], g)]
    /\ UNCHANGED <<profileOf, directoryHtml, tasks>>

-----------------------------------------------------------------------------
(* A chunk of an import, with create_groups: row by row. *)

StartsChunk(c, rows) ==
    /\ Requested(c)
    /\ task' = [task EXCEPT ![c] = [NoTask EXCEPT !.at = "row", !.left = rows]]
    /\ UNCHANGED <<directoryTables, directoryHtml>>

ImportsProfile(c, u, g, profile) ==
    /\ task[c].at = "row" /\ task[c].left > 0
    /\ profileOf' = [profileOf EXCEPT ![u] = profile]
    /\ task' = [task EXCEPT ![c].left = @ - 1, ![c].user = u, ![c].group = g,
                    ![c].at = IF profileOf[u] = profile THEN "group" ELSE "saved",
                    ![c].tell = IF profileOf[u] = profile THEN {} ELSE {u}]
    /\ UNCHANGED <<groupFooter, belongs, directoryHtml, tasks>>

\* resolve_group(): the ids of the chunk, then the table
FindsGroup(c) ==
    /\ task[c].at = "group"
    /\ LET g == task[c].group
           id == IF task[c].ids[g] # "unknown" THEN task[c].ids[g]
                 ELSE IF Exists(g) THEN "found" ELSE "unknown"
       IN  task' = [task EXCEPT ![c].ids[g] = id,
               ![c].at = IF id = "none" \/ <<task[c].user, g>> \in belongs THEN "row"
                         ELSE IF id = "found" THEN "joins" ELSE "creates"]
    /\ UNCHANGED <<directoryTables, directoryHtml, tasks>>

\* wp_insert_term() refuses a name that another process has created by now, and the
\* row goes without its group.
CreatesGroup(c) ==
    /\ task[c].at = "creates"
    /\ LET g == task[c].group
       IN  /\ groupFooter' = [groupFooter EXCEPT ![g] = IF Exists(g) THEN @ ELSE NoOverride]
           /\ task' = [task EXCEPT ![c].ids[g] = IF Exists(g) THEN "none" ELSE "found",
                                   ![c].at = IF Exists(g) THEN "row" ELSE "joins"]
    /\ UNCHANGED <<belongs, profileOf, directoryHtml, tasks>>

\* add_member()
Joins(c) ==
    /\ task[c].at = "joins"
    /\ LET new == task[c].ids[task[c].group] = "found" /\ task[c].user \notin MembersOf(task[c].group)
       IN  /\ belongs' = belongs \cup (IF new THEN {<<task[c].user, task[c].group>>} ELSE {})
           /\ task' = [task EXCEPT ![c].at = IF new THEN "joined" ELSE "row",
                                   ![c].tell = IF new THEN {task[c].user} ELSE {}]
    /\ UNCHANGED <<groupFooter, profileOf, directoryHtml, tasks>>

ChunkEnds(c) ==
    /\ task[c].at = "row" /\ task[c].left = 0
    /\ task' = [task EXCEPT ![c] = NoTask]
    /\ UNCHANGED <<directoryTables, directoryHtml, tasks>>

-----------------------------------------------------------------------------
(* The hooks. *)

\* Faulty: of the users of set_members(), those that are in the group now.
ConcernedNow(t) ==
    CASE t.at = "tells" /\ t.group # 0 -> t.tell \cap MembersOf(t.group)
      [] t.at = "updated" -> MembersOf(t.group)
      [] OTHER -> t.tell

\* Whom the listener will mark: on_members_changed(), on_profile_updated(),
\* on_group_saved().
Concerned(t) == IF t.at = "updated" THEN MembersOf(t.group) ELSE t.tell

Tells(c) ==
    /\ task[c].at \in {"tells", "updated", "saved", "joined"}
    /\ Marks(Concerned(task[c]))
    /\ task' = [task EXCEPT ![c] =
          CASE @.at = "saved" -> [@ EXCEPT !.at = "group", !.tell = {}]
            [] @.at = "joined" -> [@ EXCEPT !.at = "row", !.tell = {}]
            [] OTHER -> NoTask]
    /\ UNCHANGED <<directoryTables, tasks>>

TaskDies(c) ==
    /\ task[c].at # "idle"
    /\ tasks < MaxTasks + MaxTaskDeaths /\ tasks' = tasks + 1
    /\ task' = [task EXCEPT ![c] = NoTask]
    /\ untold' = untold \cup Concerned(task[c])
    /\ UNCHANGED <<directoryTables, compiledOf, freshOf>>

\* HTML of the present inputs is stored, by the editor of the user or the recompilation
\* (CompiledHtml has the steps of both).
Recompiled(u) ==
    /\ ~freshOf[u]
    /\ RacedDeletion \/ \A c \in Clerks : task[c].at = "deletes" => u \notin MembersOf(task[c].group)
    /\ compiledOf' = [compiledOf EXCEPT ![u] = InputsOf(u)]
    /\ freshOf' = [freshOf EXCEPT ![u] = TRUE]
    /\ untold' = untold \ {u}
    /\ UNCHANGED <<directoryTables, task, tasks>>

DirectoryNext ==
    \/ \E u \in Staff : Recompiled(u)
    \/ \E c \in Clerks :
          \/ \E g \in Groups :
                \/ \E wanted \in SUBSET Staff : SetsMembers(c, g, wanted)
                \/ \E footer \in Footers \cup {NoOverride} : UpdatesGroup(c, g, footer)
                \/ DeletesGroup(c, g)
          \/ \E u \in Staff, wanted \in SUBSET Groups : SetsGroups(c, u, wanted)
          \/ \E u \in Staff, profile \in Profiles : SavesProfile(c, u, profile)
          \/ \E rows \in 1..MaxImported : StartsChunk(c, rows)
          \/ \E u \in Staff, g \in Groups, profile \in Profiles : ImportsProfile(c, u, g, profile)
          \/ WritesMember(c) \/ MembersWritten(c) \/ DropsGroup(c)
          \/ FindsGroup(c) \/ CreatesGroup(c) \/ Joins(c) \/ ChunkEnds(c)
          \/ Tells(c) \/ TaskDies(c)

DirectorySpec == DirectoryInit /\ [][DirectoryNext]_directoryVars

-----------------------------------------------------------------------------
RenderInputs == [profile : Profiles, footer : {0} \cup Footers, banner : BOOLEAN]
Works == [at : {"idle", "writes", "tells", "updated", "deletes", "row", "saved", "group",
                "creates", "joins", "joined"},
          user : {0} \cup Staff, group : {0} \cup Groups, add : SUBSET Staff,
          remove : SUBSET Staff, tell : SUBSET Staff, left : 0..MaxImported,
          ids : [Groups -> {"unknown", "found", "none"}]]

DirectoryTypeOK ==
    /\ groupFooter \in [Groups -> {0, NoOverride} \cup Footers]
    /\ belongs \subseteq Staff \X Groups
    /\ profileOf \in [Staff -> Profiles]
    /\ compiledOf \in [Staff -> RenderInputs]
    /\ freshOf \in [Staff -> BOOLEAN]
    /\ task \in [Clerks -> Works]
    /\ tasks \in 0..(MaxTasks + MaxTaskDeaths) /\ untold \subseteq Staff
    /\ \A m \in belongs : Exists(m[2])

\* HTML that counts as fresh is what the editor of its owner would compile, however the
\* writes of two requests to one group or one user interleave: or else the hooks of a
\* request at work will mark it, or would have if the request had not died.
ChangesReachHtml ==
    \A u \in Staff :
        freshOf[u] /\ compiledOf[u] # InputsOf(u) =>
            u \in untold \/ \E c \in Clerks : u \in Concerned(task[c])
=============================================================================
