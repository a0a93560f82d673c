----------------------------- MODULE ServerTabs -----------------------------
(***************************************************************************)
(* The tabs of a server's page (components/*Manager.tsx), as tables for    *)
(* PanelPages.  The flags and handlers have the names of the source; what  *)
(* disables a control is in its offer, from the component's JSX.           *)
(***************************************************************************)
EXTENDS PanelApi

BackupManagerOffers ==
    [handleCreate   |-> FormIn({"creating"}),
     handleRestore  |-> Row({"busyId"}),
     handleDelete   |-> Row({"busyId"}),
     handleDownload |-> Row({"busyId"})]

\* A restore changes the server's files, which another tab shows.
BackupManager ==
    [loads    |-> [refresh |-> Load("listServerBackups", "barred")],
     flags    |-> [creating |-> "page", busyId |-> "one"],
     handlers |->
        [handleCreate   |-> Asks("creating", "createServerBackup", {"refresh"}),
         handleRestore  |-> Asks("busyId", "restoreServerBackup", {}),
         handleDelete   |-> Asks("busyId", "deleteServerBackup", {"refresh"}),
         handleDownload |-> Asks("none", "downloadServerBackup", {})],
     offers   |-> BackupManagerOffers]

ScheduleManagerOffers ==
    [handleCreate |-> Form({"submitting"}),
     handleToggle |-> Row({}),
     handleDelete |-> Row({})]

ScheduleManagerSilentToggle ==
    [loads    |-> [refresh |-> Load("listSchedules", "keeps")],
     flags    |-> [submitting |-> "page"],
     handlers |->
        [handleCreate |-> Asks("submitting", "createSchedule", {"refresh"}),
         handleToggle |-> Asks("none", "toggleSchedule", {}),
         handleDelete |-> Asks("none", "deleteSchedule", {"refresh"})],
     offers   |-> ScheduleManagerOffers]

ScheduleManager ==
    [loads    |-> [refresh |-> Load("listSchedules", "keeps")],
     flags    |-> [submitting |-> "page"],
     handlers |->
        [handleCreate |-> Asks("submitting", "createSchedule", {"refresh"}),
         handleToggle |-> Asks("none", "toggleSchedule", {"refresh"}),
         handleDelete |-> Asks("none", "deleteSchedule", {"refresh"})],
     offers   |-> ScheduleManagerOffers]

PortManagerOffers ==
    [handleCreate |-> FormIn({"submitting"}),
     handleDelete |-> Row({"deletingId"})]

\* The list comes with the answer to createServerAllocation.
PortManager ==
    [loads    |-> [refresh |-> Load("listServerAllocations", "barred")],
     flags    |-> [submitting |-> "page", deletingId |-> "one"],
     handlers |->
        [handleCreate |-> [Asks("submitting", "createServerAllocation", {})
                              EXCEPT !.takes = {"refresh"}],
         handleDelete |-> Asks("deletingId", "deleteServerAllocation", {"refresh"})],
     offers   |-> PortManagerOffers]

DatabaseManagerOffers ==
    [handleCreate |-> Offer("page", {"submitting"}, {"refresh", "hosts"}),
     handleDelete |-> Row({})]

DatabaseManager ==
    [loads    |-> [refresh |-> Load("listServerDatabases", "barred"),
                   hosts   |-> Load("listDatabaseHosts", "emptied")],
     flags    |-> [submitting |-> "page"],
     handlers |->
        [handleCreate |-> Asks("submitting", "createServerDatabase", {"refresh"}),
         handleDelete |-> Asks("none", "deleteServerDatabase", {"refresh"})],
     offers   |-> DatabaseManagerOffers]

DomainManagerOffers ==
    [handleCreate |-> Offer("page", {"submitting"}, {"refresh", "allocations"}),
     handleDelete |-> Row({})]

DomainManager ==
    [loads    |-> [refresh     |-> Load("listServerDomains", "barred"),
                   allocations |-> Load("listServerAllocations", "emptied")],
     flags    |-> [submitting |-> "page"],
     handlers |->
        [handleCreate |-> Asks("submitting", "createServerDomain", {"refresh"}),
         handleDelete |-> Asks("none", "deleteServerDomain", {"refresh"})],
     offers   |-> DomainManagerOffers]

SubuserManagerOffers ==
    [handleAdd              |-> FormIn({"submitting"}),
     handleTogglePermission |-> Row({}),
     handleRemove           |-> Row({})]

SubuserManager ==
    [loads    |-> [refresh |-> Load("listSubusers", "barred")],
     flags    |-> [submitting |-> "page"],
     handlers |->
        [handleAdd              |-> Asks("submitting", "addSubuser", {"refresh"}),
         handleTogglePermission |-> Asks("none", "updateSubuser", {"refresh"}),
         handleRemove           |-> Asks("none", "removeSubuser", {"refresh"})],
     offers   |-> SubuserManagerOffers]

\* The list and the editor take turns; both are offered here.
FileManagerOffers ==
    [openEntry          |-> Row({}),
     handleSave         |-> Form({"saving"}),
     handleDelete       |-> Row({}),
     submitRename       |-> Row({}),
     handleDownload     |-> Row({}),
     handleUploadChange |-> Form({"uploading"}),
     submitNewFolder    |-> Form({})]

FileManager ==
    [loads    |-> [refresh |-> Load("listFiles", "keeps")],
     flags    |-> [saving |-> "page", uploading |-> "page"],
     handlers |->
        [openEntry          |-> Asks("none", "readFile", {}),
         handleSave         |-> Asks("saving", "writeFile", {"refresh"}),
         handleDelete       |-> Asks("none", "deleteFile", {"refresh"}),
         submitRename       |-> Asks("none", "renameFile", {"refresh"}),
         handleDownload     |-> Asks("none", "downloadFile", {}),
         handleUploadChange |-> Asks("uploading", "uploadFile", {"refresh"}),
         submitNewFolder    |-> Asks("none", "createDirectory", {"refresh"})],
     offers   |-> FileManagerOffers]

-----------------------------------------------------------------------------
(* pages/ServerView.tsx: the page itself *)

PowerGridOffers == [handlePower |-> FormIn({"pendingAction"})]

\* Any error, of the server's record or of an action, takes the place of the page.
PowerGrid ==
    [loads    |-> [refresh |-> Load("getServer", "barred for good")],
     flags    |-> [pendingAction |-> "page"],
     handlers |-> [handlePower |-> Bars(Asks("pendingAction", "power", {}))],
     offers   |-> PowerGridOffers]

EditInfoOffers == [handleSaveInfo |-> FormIn({"savingInfo"})]

DangerOffers ==
    [handleSuspendToggle |-> FormIn({"suspending"}),
     handleDelete        |-> FormIn({"deleting"})]

ServerView ==
    [loads    |-> [refresh |-> Load("getServer", "barred for good"),
                   eggs    |-> Load("listEggs", "keeps")],
     flags    |-> [suspending |-> "page", deleting |-> "page", savingInfo |-> "page"],
     handlers |->
        [handleSuspendToggle |-> Bars(Asks("suspending", "suspendServer", {"refresh"})),
         handleDelete        |-> Bars(Leaves("deleting", "deleteServer")),
         handleSaveInfo      |-> Asks("savingInfo", "updateServer", {"refresh"})],
     offers   |-> Both(EditInfoOffers, DangerOffers)]

ProxyKeysOffers ==
    [addProxyKey    |-> FormIn({"keyBusy"}),
     deleteProxyKey |-> Row({"keyBusy"})]

\* keys.json is written as a whole; the proxy reads it when it restarts.
ProxyKeys ==
    [loads    |-> [refresh |-> Load("readFile", "emptied")],
     flags    |-> [keyBusy |-> "page"],
     handlers |->
        [addProxyKey    |-> Does("keyBusy", <<"writeFile", "power">>, {"refresh"}),
         deleteProxyKey |-> Does("keyBusy", <<"writeFile", "power">>, {"refresh"})],
     offers   |-> ProxyKeysOffers]
=============================================================================
