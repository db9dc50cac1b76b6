----------------------------- MODULE PluginProofs -----------------------------
(***************************************************************************)
(* What holds of each part alone holds of the plugin: a behaviour of the   *)
(* plugin is, seen through the variables of any one part, a behaviour of   *)
(* that part.                                                              *)
(***************************************************************************)
EXTENDS Plugin, ServerProofs, StoreProofs, BrowserProofs, TLAPS

\* Each part begins as it does alone.
LEMMA PartsBegin ==
    Init =>
       /\ InvitationInit /\ GmailSyncInit /\ UploadsInit /\ RateLimitInit
       /\ TemplateAssignmentInit /\ DocumentTreeInit /\ RestNonceInit /\ AssetSyncInit
       /\ LinkRulesInit /\ UpgradeInit /\ OutlookInit /\ UserDataInit /\ DirectoryInit
BY DEF Init

\* Only the columns of a container may stand still as one column, where the behaviour is
\* of another part.
LEMMA ColumnsBegin == Init => ColumnsInv(columnList)
BY ColumnsInitially, OneColumnInv DEF Init

\* Each part moves by its own steps only.
LEMMA PartsMoveAlone ==
    [Next]_vars =>
       /\ [InvitationNext]_invitationVars /\ [GmailSyncNext]_syncVars
       /\ [UploadsNext]_uploadVars /\ [RateLimitNext]_limitVars
       /\ [TemplateAssignmentNext]_assignVars /\ [DocumentTreeNext]_treeVars
       /\ [RestNonceNext]_nonceVars /\ [AssetSyncNext]_assetVars
       /\ [LinkRulesNext]_linkVars /\ [ColumnLayoutNext]_columnList
       /\ [UpgradeNext]_upgradeVars /\ [OutlookNext]_outlookVars
       /\ [UserDataNext]_userDataVars /\ [DirectoryNext]_directoryVars
<1> SUFFICES ASSUME [Next]_vars
             PROVE  /\ [InvitationNext]_invitationVars /\ [GmailSyncNext]_syncVars
                    /\ [UploadsNext]_uploadVars /\ [RateLimitNext]_limitVars
                    /\ [TemplateAssignmentNext]_assignVars /\ [DocumentTreeNext]_treeVars
                    /\ [RestNonceNext]_nonceVars /\ [AssetSyncNext]_assetVars
                    /\ [LinkRulesNext]_linkVars /\ [ColumnLayoutNext]_columnList
                    /\ [UpgradeNext]_upgradeVars /\ [OutlookNext]_outlookVars
                    /\ [UserDataNext]_userDataVars /\ [DirectoryNext]_directoryVars
  OBVIOUS
<1> QED BY DEF Next, vars, Invitations, Sync, Files, Limits, Assignment, Tree, Nonce,
               HostedFiles, Links, Columns, Upgrades, Outlook, PersonalData, CompanyDirectory

\* So every part behaves as it does alone.
LEMMA PartsBehave ==
    Spec =>
       /\ InvitationSpec /\ GmailSyncSpec /\ UploadsSpec /\ RateLimitSpec
       /\ TemplateAssignmentSpec /\ DocumentTreeSpec /\ RestNonceSpec /\ AssetSyncSpec
       /\ LinkRulesSpec /\ UpgradeSpec /\ OutlookSpec /\ UserDataSpec /\ DirectorySpec
BY PartsBegin, PartsMoveAlone, PTL
DEF Spec, InvitationSpec, GmailSyncSpec, UploadsSpec, RateLimitSpec, TemplateAssignmentSpec,
    DocumentTreeSpec, RestNonceSpec, AssetSyncSpec, LinkRulesSpec, UpgradeSpec, OutlookSpec,
    UserDataSpec, DirectorySpec

LEMMA ColumnsBehave == Spec => []ColumnsInv(columnList) /\ [][ColumnLayoutNext]_columnList
<1>1. ColumnsInv(columnList) /\ [ColumnLayoutNext]_columnList => ColumnsInv(columnList)'
  BY ColumnsStep
<1> QED BY <1>1, ColumnsBegin, PartsMoveAlone, PTL DEF Spec

-----------------------------------------------------------------------------
\* The types and the bounds of every part.
THEOREM PluginTypesHold == Spec => []PluginTypeOK
<1>1. InvitationSpec => []InvitationTypeOK
  <2>1. QueueInv => InvitationTypeOK
    BY DEF QueueInv
  <2> QED BY <2>1, QueueInvariant, PTL
<1>2. UploadsSpec => []UploadsTypeOK
  <2>1. UploadsInv => UploadsTypeOK
    BY DEF UploadsInv, KeysInv
  <2> QED BY <2>1, UploadsInvariant, PTL
<1>3. RateLimitSpec => []RateLimitTypeOK
  <2>1. LimitInv => RateLimitTypeOK
    BY DEF LimitInv, CountsAreKept
  <2> QED BY <2>1, LimitInvariant, PTL
<1>4. TemplateAssignmentSpec => []TemplateAssignmentTypeOK
  <2>1. AssignInv => TemplateAssignmentTypeOK
    BY DEF AssignInv
  <2> QED BY <2>1, AssignInvariant, PTL
<1>5. RestNonceSpec => []RestNonceTypeOK
  <2>1. NonceInv => RestNonceTypeOK
    BY DEF NonceInv
  <2> QED BY <2>1, NonceInvariant, PTL
<1>6. AssetSyncSpec => []AssetSyncTypeOK
  <2>1. FilesInv => AssetSyncTypeOK
    BY DEF FilesInv
  <2> QED BY <2>1, FilesInvariant, PTL
<1>7. Spec => []ColumnLayoutTypeOK
  <2>1. ColumnsInv(columnList) => ColumnLayoutTypeOK
    BY ColumnsInvTypes
  <2> QED BY <2>1, ColumnsBehave, PTL
<1>8. UpgradeSpec => []UpgradeTypeOK
  <2>1. UpgradeInv => UpgradeTypeOK
    BY DEF UpgradeInv
  <2> QED BY <2>1, UpgradeInvariant, PTL
<1>9. OutlookSpec => []OutlookTypeOK
  <2>1. CopiesInv => OutlookTypeOK
    BY DEF CopiesInv
  <2> QED BY <2>1, CopiesInvariant, PTL
<1>10. UserDataSpec => []UserDataTypeOK
  <2>1. DataInv => UserDataTypeOK
    BY DEF DataInv
  <2> QED BY <2>1, DataInvariant, PTL
<1>11. PluginTypeOK <=>
          /\ InvitationTypeOK /\ GmailSyncTypeOK /\ UploadsTypeOK /\ RateLimitTypeOK
          /\ TemplateAssignmentTypeOK /\ DocumentTreeTypeOK /\ RestNonceTypeOK
          /\ AssetSyncTypeOK /\ LinkRulesTypeOK /\ ColumnLayoutTypeOK /\ UpgradeTypeOK
          /\ OutlookTypeOK /\ UserDataTypeOK /\ DirectoryTypeOK
  BY DEF PluginTypeOK
<1> QED BY <1>1, <1>2, <1>3, <1>4, <1>5, <1>6, <1>7, <1>8, <1>9, <1>10, <1>11, SyncTypesHold,
           TreeTypesHold, LinkTypesHold, DirectoryTypesHold, PartsBehave, PTL

\* What each part promises alone it promises in the plugin: nobody is mailed twice, every
\* upload is accounted for, everything of a user is handled, a window lets through its
\* limit once for each count, an assignment comes to its members once, no call is refused
\* needlessly, no file is forgotten,
\* locked blocks and the reading order stay, upgrades lose nothing and the signature of a
\* mail is a recent one.
THEOREM PartsKeepPromises ==
    Spec => /\ [](EachMailedOnce /\ AssetsAccountedFor /\ AllOfTheUser /\ LimitHolds
                  /\ MembersAssigned /\ NoNeedlessRefusal /\ NoFileForgotten)
            /\ LockedStay /\ ReadingOrderKept /\ UpgradesAreSafe /\ SignatureIsRecent
<1>1. Spec => ReadingOrderKept
  <2>1. ColumnsInv(columnList) /\ [ColumnLayoutNext]_columnList
          => [Len(columnList') # Len(columnList)
                => ReadingOrder(columnList') = ReadingOrder(columnList)]_columnList
    BY ColumnsStep DEF ReadKept
  <2> QED BY <2>1, ColumnsBehave, PTL DEF ReadingOrderKept
<1> QED BY <1>1, PartsBehave, MailedOnce, AssetsAreAccountedFor, AllIsHandled, LimitIsKept,
           EveryMemberAssigned, RetriesAreTaken, NoFileLost, LockedBlocksStay, UpgradeIsSafe,
           InsertsRecent, PTL

\* Where no tab saves texts of an older template, the overrides of a linked signature are
\* what its employee typed, whatever else the plugin does.
THEOREM PartsKeepOverrides == ASSUME ~StaleTexts PROVE Spec => []OverridesAreOwn
BY OverridesStayOwn, PartsBehave, PTL

\* Where no signature is recompiled inside the deletion of a group of its owner, every
\* change of the directory reaches the HTML it is about, whatever else the plugin does.
THEOREM PartsReachHtml == ASSUME ~RacedDeletion PROVE Spec => []ChangesReachHtml
BY ChangesReach, PartsBehave, PTL
=============================================================================
