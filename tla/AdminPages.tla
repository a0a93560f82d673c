----------------------------- MODULE AdminPages -----------------------------
(***************************************************************************)
(* The dashboard and the pages of administrators, as tables for PanelPages *)
(* (components/ServerList, CreateServerForm, NodeStatsTile; pages/Nodes,   *)
(* Users, Plugins).                                                        *)
(***************************************************************************)
EXTENDS PanelApi

\* components/ServerCard.tsx
ServerCardOffers == [handlePower |-> Row({"pendingActions"})]

BulkOffers ==
    [bulkPower     |-> FormIn({"bulkBusy"}),
     bulkBackup    |-> FormIn({"bulkBusy"}),
     bulkSuspend   |-> Offer("page", {"bulkBusy"}, {"refresh", "me"}),
     bulkUnsuspend |-> Offer("page", {"bulkBusy"}, {"refresh", "me"})]

\* One action for each of two selected servers: the list is not fetched anew.
RunBulk(call) == Settles(Does("bulkBusy", <<call, call>>, {}))

\* A row's socket tells whether its container runs.  A failed power action takes the
\* place of the list, a bulk action tells how many of its calls failed.  Only an
\* administrator is offered the suspensions.
ServerList ==
    [loads    |-> [refresh |-> Load("listServers", "barred for good"),
                   me      |-> Load("me", "keeps")],
     flags    |-> [pendingActions |-> "map", bulkBusy |-> "page"],
     handlers |->
        [handlePower   |-> Bars(Asks("pendingActions", "power", {})),
         bulkPower     |-> RunBulk("power"),
         bulkBackup    |-> RunBulk("createServerBackup"),
         bulkSuspend   |-> RunBulk("suspendServer"),
         bulkUnsuspend |-> RunBulk("unsuspendServer")],
     offers   |-> Both(ServerCardOffers, BulkOffers)]

CreateServerFormOffers ==
    [handleSubmit         |-> Offer("page", {"submitting"}, {"nodes", "eggs"}),
     handleSubmitWithPort |-> Offer("page", {"submitting"}, {"nodes", "eggs"})]

\* handleSubmit, without and with a port of its own.  onCreated mounts the list of
\* servers anew, the free ports stay as they were.
CreateServerForm ==
    [loads    |-> [nodes       |-> Load("listNodes", "keeps"),
                   eggs        |-> Load("listEggs", "keeps"),
                   allocations |-> Load("listAllocations", "emptied"),
                   onCreated   |-> Load("listServers", "barred for good")],
     flags    |-> [submitting |-> "page"],
     handlers |->
        [handleSubmit         |-> Asks("submitting", "createServer", {"onCreated"}),
         handleSubmitWithPort |-> Does("submitting", <<"createServer", "createServerAllocation">>,
                                       {"onCreated"})],
     offers   |-> CreateServerFormOffers]

AddNodeOffers == [handleCreate |-> Form({"submitting"})]

NodeOffers ==
    [handleSaveNode        |-> Row({"savingNodeId"}),
     handleRegenerateToken |-> Row({"regeneratingNodeId"}),
     handleDeleteNode      |-> Row({"deletingNodeId"}),
     handleCheckStatus     |-> Row({})]

Nodes ==
    [loads    |-> [refresh |-> Load("listNodes", "keeps")],
     flags    |-> [submitting |-> "page", savingNodeId |-> "one",
                   regeneratingNodeId |-> "one", deletingNodeId |-> "one"],
     handlers |->
        [handleCreate          |-> Asks("submitting", "createNode", {"refresh"}),
         handleSaveNode        |-> Asks("savingNodeId", "updateNode", {"refresh"}),
         handleRegenerateToken |-> Asks("regeneratingNodeId", "regenerateNodeToken", {}),
         handleDeleteNode      |-> Asks("deletingNodeId", "deleteNode", {"refresh"}),
         handleCheckStatus     |-> Asks("none", "checkNodeStatus", {})],
     offers   |-> Both(AddNodeOffers, NodeOffers)]

AllocationsOffers ==
    [handleCreateAllocation |-> Form({"allocSubmitting"}),
     handleDeleteAllocation |-> Row({})]

\* The ports of the node that is selected; to select another opens the part anew.
Allocations ==
    [loads    |-> [refresh |-> Load("listAllocations", "emptied")],
     flags    |-> [allocSubmitting |-> "page"],
     handlers |->
        [handleCreateAllocation |-> Asks("allocSubmitting", "createAllocation", {"refresh"}),
         handleDeleteAllocation |-> Asks("none", "deleteAllocation", {"refresh"})],
     offers   |-> AllocationsOffers]

DatabaseHostsOffers ==
    [handleCreateDbHost |-> Form({"dbHostSubmitting"}),
     handleDeleteDbHost |-> Row({})]

DatabaseHosts ==
    [loads    |-> [refresh |-> Load("listDatabaseHosts", "keeps")],
     flags    |-> [dbHostSubmitting |-> "page"],
     handlers |->
        [handleCreateDbHost |-> Asks("dbHostSubmitting", "createDatabaseHost", {"refresh"}),
         handleDeleteDbHost |-> Asks("none", "deleteDatabaseHost", {"refresh"})],
     offers   |-> DatabaseHostsOffers]

\* A tile polls its node; "offline" is assumed when no answer comes.
NodeStatsTile ==
    [loads    |-> [poll |-> Timed(Load("checkNodeStatus", "assumes"))],
     flags    |-> <<>>, handlers |-> <<>>, offers |-> <<>>]

\* One id tells whose row is saved; the switches wait until nobody's is.
UsersOffers ==
    [handleCreate        |-> Form({"creating"}),
     handleToggleAdmin   |-> [Row({"saving"}) EXCEPT !.unlessAny = {"saving"}],
     handleToggleActive  |-> [Row({"saving"}) EXCEPT !.unlessAny = {"saving"}],
     handleSaveLimit     |-> Row({"saving"}),
     handleResetPassword |-> Row({"resetSubmitting"})]

Users ==
    [loads    |-> [refresh |-> Load("listUsers", "barred")],
     flags    |-> [creating |-> "page", saving |-> "one", resetSubmitting |-> "page"],
     handlers |->
        [handleCreate        |-> Asks("creating", "createUser", {"refresh"}),
         handleToggleAdmin   |-> Asks("saving", "updateUser", {"refresh"}),
         handleToggleActive  |-> Asks("saving", "updateUser", {"refresh"}),
         handleSaveLimit     |-> Asks("saving", "updateUser", {"refresh"}),
         handleResetPassword |-> Asks("resetSubmitting", "resetUserPassword", {})],
     offers   |-> UsersOffers]

PluginsOffers ==
    [handleInstall       |-> Row({"installingEggId"}),
     handleToggleFeature |-> Row({"togglingEggId"}),
     handleUninstall     |-> Row({"uninstallingUuid"})]

\* The three lists are one Promise.all.
Plugins ==
    [loads    |-> [refresh |-> [Load("listEggs", "keeps")
                                   EXCEPT !.calls = {"listEggs", "listNodes", "listServers"}]],
     flags    |-> [installingEggId |-> "one", togglingEggId |-> "one",
                   uninstallingUuid |-> "one"],
     handlers |->
        [handleInstall       |-> Asks("installingEggId", "createServer", {"refresh"}),
         handleToggleFeature |-> Asks("togglingEggId", "setEggEnabled", {"refresh"}),
         handleUninstall     |-> Asks("uninstallingUuid", "deleteServer", {"refresh"})],
     offers   |-> PluginsOffers]
=============================================================================
