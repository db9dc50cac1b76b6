-------------------------------- MODULE Plugin --------------------------------
(***************************************************************************)
(* The parts of the plugin that share no state with one another: the       *)
(* invitation queue, the daily Gmail pass, the uploads, the rate limiter,  *)
(* template assignment, the link rules, the document tree, the columns of  *)
(* a container, the nonce of a tab, the hosted files of the editor, the     *)
(* upgrade of the database, the Outlook add-in, the data of one user and    *)
(* the directory of groups and profiles.                                   *)
(* What they do together is their product, which says nothing that each    *)
(* of them does not say alone; so a behaviour here is a behaviour of one   *)
(* of them.  The parts that do interact are composed where they are:       *)
(* SaveEngine, TemplatePropagation and GmailPush.                          *)
(***************************************************************************)
EXTENDS InvitationQueue, GmailSync, Uploads, RateLimit, TemplateAssignment,
        DocumentTree, RestNonce, AssetSync, LinkRules, ColumnLayout, Upgrade,
        OutlookLaunch, UserData, Directory

VARIABLE part \* which of them the behaviour is of

vars == <<part, invitationVars, syncVars, uploadVars, limitVars, assignVars, treeVars,
          nonceVars, assetVars, linkVars, columnList, upgradeVars, outlookVars, userDataVars,
          directoryVars>>

Init ==
    /\ part \in {"invitations", "sync", "uploads", "limit", "assignment", "tree", "nonce",
                 "files", "links", "columns", "upgrade", "outlook", "userdata",
                 "directory"}
    /\ InvitationInit /\ GmailSyncInit /\ UploadsInit /\ RateLimitInit
    /\ TemplateAssignmentInit /\ DocumentTreeInit /\ RestNonceInit /\ AssetSyncInit
    /\ LinkRulesInit /\ UpgradeInit /\ OutlookInit /\ UserDataInit
    /\ DirectoryInit
    \* Where a part begins matters to that part only.
    /\ part = "limit" \/ ~extCache
    /\ part = "assignment" \/ members = Users
    /\ part = "files" \/ \A b \in FileBlocks : content[b] = Min(Contents)
    /\ \/ part = "links"
       \/ template.mode = "free" /\ \A b \in TextBlocks : template.text[b] = Min(CompanyWords)
    /\ part = "upgrade" \/ version = release
    /\ part = "userdata" \/ (signatureRows = {} /\ assetRows = {})
    /\ part = "directory" \/ belongs = {}
    /\ IF part = "columns" THEN ColumnLayoutInit ELSE columnList = OneColumn

Invitations ==
    /\ part = "invitations" /\ InvitationNext
    /\ UNCHANGED <<part, syncVars, uploadVars, limitVars, assignVars, treeVars, nonceVars,
                   assetVars, linkVars, columnList, upgradeVars, outlookVars, userDataVars,
                   directoryVars>>

Sync ==
    /\ part = "sync" /\ GmailSyncNext
    /\ UNCHANGED <<part, invitationVars, uploadVars, limitVars, assignVars, treeVars, nonceVars,
                   assetVars, linkVars, columnList, upgradeVars, outlookVars, userDataVars,
                   directoryVars>>

Files ==
    /\ part = "uploads" /\ UploadsNext
    /\ UNCHANGED <<part, invitationVars, syncVars, limitVars, assignVars, treeVars, nonceVars,
                   assetVars, linkVars, columnList, upgradeVars, outlookVars, userDataVars,
                   directoryVars>>

Limits ==
    /\ part = "limit" /\ RateLimitNext
    /\ UNCHANGED <<part, invitationVars, syncVars, uploadVars, assignVars, treeVars, nonceVars,
                   assetVars, linkVars, columnList, upgradeVars, outlookVars, userDataVars,
                   directoryVars>>

Assignment ==
    /\ part = "assignment" /\ TemplateAssignmentNext
    /\ UNCHANGED <<part, invitationVars, syncVars, uploadVars, limitVars, treeVars, nonceVars,
                   assetVars, linkVars, columnList, upgradeVars, outlookVars, userDataVars,
                   directoryVars>>

Tree ==
    /\ part = "tree" /\ DocumentTreeNext
    /\ UNCHANGED <<part, invitationVars, syncVars, uploadVars, limitVars, assignVars, nonceVars,
                   assetVars, linkVars, columnList, upgradeVars, outlookVars, userDataVars,
                   directoryVars>>

Nonce ==
    /\ part = "nonce" /\ RestNonceNext
    /\ UNCHANGED <<part, invitationVars, syncVars, uploadVars, limitVars, assignVars, treeVars,
                   assetVars, linkVars, columnList, upgradeVars, outlookVars, userDataVars,
                   directoryVars>>

HostedFiles ==
    /\ part = "files" /\ AssetSyncNext
    /\ UNCHANGED <<part, invitationVars, syncVars, uploadVars, limitVars, assignVars, treeVars,
                   nonceVars, linkVars, columnList, upgradeVars, outlookVars, userDataVars,
                   directoryVars>>

Links ==
    /\ part = "links" /\ LinkRulesNext
    /\ UNCHANGED <<part, invitationVars, syncVars, uploadVars, limitVars, assignVars, treeVars,
                   nonceVars, assetVars, columnList, upgradeVars, outlookVars, userDataVars,
                   directoryVars>>

Columns ==
    /\ part = "columns" /\ ColumnLayoutNext
    /\ UNCHANGED <<part, invitationVars, syncVars, uploadVars, limitVars, assignVars, treeVars,
                   nonceVars, assetVars, linkVars, upgradeVars, outlookVars, userDataVars,
                   directoryVars>>

Upgrades ==
    /\ part = "upgrade" /\ UpgradeNext
    /\ UNCHANGED <<part, invitationVars, syncVars, uploadVars, limitVars, assignVars, treeVars,
                   nonceVars, assetVars, linkVars, columnList, outlookVars, userDataVars,
                   directoryVars>>

Outlook ==
    /\ part = "outlook" /\ OutlookNext
    /\ UNCHANGED <<part, invitationVars, syncVars, uploadVars, limitVars, assignVars, treeVars,
                   nonceVars, assetVars, linkVars, columnList, upgradeVars, userDataVars,
                   directoryVars>>

PersonalData ==
    /\ part = "userdata" /\ UserDataNext
    /\ UNCHANGED <<part, invitationVars, syncVars, uploadVars, limitVars, assignVars, treeVars,
                   nonceVars, assetVars, linkVars, columnList, upgradeVars, outlookVars,
                   directoryVars>>

CompanyDirectory ==
    /\ part = "directory" /\ DirectoryNext
    /\ UNCHANGED <<part, invitationVars, syncVars, uploadVars, limitVars, assignVars, treeVars,
                   nonceVars, assetVars, linkVars, columnList, upgradeVars, outlookVars,
                   userDataVars>>

Next ==
    \/ Invitations \/ Sync \/ Files \/ Limits \/ Assignment \/ Tree \/ Nonce \/ HostedFiles
    \/ Links \/ Columns \/ Upgrades \/ Outlook \/ PersonalData \/ CompanyDirectory

Spec == Init /\ [][Next]_vars

\* wp-cron runs what is due, processes go on unless they die, somebody looks at the
\* progress of the invitations, the daily hook comes every day, and timers of Outlook fire.
Fairness ==
    /\ WF_invitationVars(part = "invitations" /\ \E r \in Runners : Fires(r))
    /\ \A r \in Runners : WF_invitationVars(part = "invitations" /\ RunBatch(r))
    /\ WF_invitationVars(part = "invitations" /\ Poll)
    /\ WF_invitationVars(part = "invitations" /\ LockAges)
    /\ WF_syncVars(part = "sync" /\ (Resumes \/ \E w \in Workers : Starts(w)))
    /\ WF_syncVars(part = "sync" /\ \E w \in Workers : BatchFires(w))
    /\ \A w \in Workers : WF_syncVars(part = "sync" /\
          (BatchEnds(w) \/ \E attempted \in BOOLEAN : PushesNext(w, attempted)))
    /\ WF_upgradeVars(part = "upgrade" /\ \E u \in Upgraders : Notices(u))
    /\ \A u \in Upgraders : WF_upgradeVars(part = "upgrade" /\ GoesOn(u))
    /\ WF_upgradeVars(part = "upgrade" /\ UpgradeLockAges)
    /\ WF_upgradeVars(part = "upgrade" /\ BackoffEnds)
    /\ \A e \in LaunchEvents : WF_outlookVars(part = "outlook" /\ SafetyFires(e))
    /\ WF_userDataVars(part = "userdata" /\ (PurgeReads \/ PurgesBatch))

FairSpec == Spec /\ Fairness

\* Each part keeps its types, and the bounds they state.
PluginTypeOK ==
    /\ InvitationTypeOK /\ GmailSyncTypeOK /\ UploadsTypeOK /\ RateLimitTypeOK
    /\ TemplateAssignmentTypeOK /\ DocumentTreeTypeOK /\ RestNonceTypeOK /\ AssetSyncTypeOK
    /\ LinkRulesTypeOK /\ ColumnLayoutTypeOK /\ UpgradeTypeOK
    /\ OutlookTypeOK /\ UserDataTypeOK /\ DirectoryTypeOK

\* What has begun ends, whatever dies, throws or is switched off meanwhile, and the
\* plugin rests again: an invitation job, because whoever looks at its progress puts
\* the chain together (ensure_scheduled()); an upgrade, because the next request
\* retries it and a lock left behind is taken over; the daily pass, once it is
\* switched off, although a batch at work stores its state over the stop; an event of
\* Outlook, because of its safety timer; the deletion of a user, although a row stays.
Resting == InvitationsOver /\ UpgradeDone /\ EventsCompleted /\ PurgeOver /\
            (dailyEvent \/ SyncRests)
WorkEnds == []<>Resting
=============================================================================
