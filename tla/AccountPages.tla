---------------------------- MODULE AccountPages ----------------------------
(***************************************************************************)
(* What a user sees of the account, as tables for PanelPages: the login    *)
(* form, the 2FA gate, the sections of pages/Account, Settings, Activity.  *)
(***************************************************************************)
EXTENDS PanelApi

\* The submit buttons of Login.tsx and TwoFactorGate.tsx.
LoginOffers == [handleSubmit |-> Form({"submitting"})]

Login ==
    [loads    |-> NoLoads,
     flags    |-> [submitting |-> "page"],
     handlers |-> [handleSubmit |-> Asks("submitting", "login", {})],
     offers   |-> LoginOffers]

TwoFactorGateOffers ==
    [handleStartSetup |-> Form({}),
     handleVerify     |-> Form({"busy"})]

TwoFactorGate ==
    [loads    |-> NoLoads,
     flags    |-> [busy |-> "page"],
     handlers |-> [handleStartSetup |-> Asks("none", "setup2FA", {}),
                   handleVerify     |-> Asks("busy", "verify2FA", {})],
     offers   |-> TwoFactorGateOffers]

ApiKeysOffers ==
    [handleCreate |-> Form({"submitting"}),
     handleDelete |-> Row({})]

ApiKeys ==
    [loads    |-> [refresh |-> Load("listApiKeys", "keeps")],
     flags    |-> [submitting |-> "page"],
     handlers |->
        [handleCreate |-> Asks("submitting", "createApiKey", {"refresh"}),
         handleDelete |-> Asks("none", "deleteApiKey", {"refresh"})],
     offers   |-> ApiKeysOffers]

SSHKeysOffers ==
    [handleCreateSSHKey    |-> Form({"sshSubmitting"}),
     handleGenerateKeyPair |-> Form({"generatingKey"}),
     handleDeleteSSHKey    |-> Row({})]

\* The private key is handed out after the public one has been stored.
SSHKeys ==
    [loads    |-> [refresh |-> Load("listSSHKeys", "keeps")],
     flags    |-> [sshSubmitting |-> "page", generatingKey |-> "page"],
     handlers |->
        [handleCreateSSHKey    |-> Asks("sshSubmitting", "createSSHKey", {"refresh"}),
         handleGenerateKeyPair |-> Asks("generatingKey", "createSSHKey", {"refresh"}),
         handleDeleteSSHKey    |-> Asks("none", "deleteSSHKey", {"refresh"})],
     offers   |-> SSHKeysOffers]

PasswordOffers == [handleChangePassword |-> Form({"changingPassword"})]

Password ==
    [loads    |-> NoLoads,
     flags    |-> [changingPassword |-> "page"],
     handlers |-> [handleChangePassword |-> Asks("changingPassword", "changePassword", {})],
     offers   |-> PasswordOffers]

TwoFactorOffersTwoFlags ==
    [handleStartSetup |-> FormIn({}),
     handleVerify     |-> Form({"twofaBusy"}),
     handleDisable    |-> FormIn({})]

TwoFactorOffers ==
    [handleStartSetup |-> FormIn({}),
     handleVerify     |-> Form({"twofaBusy"}),
     handleDisable    |-> FormIn({"twofaBusy"})]

TwoFactor ==
    [loads    |-> [refresh |-> Load("get2FAStatus", "keeps")],
     flags    |-> [twofaBusy |-> "page"],
     handlers |->
        [handleStartSetup |-> Asks("none", "setup2FA", {}),
         handleVerify     |-> Asks("twofaBusy", "verify2FA", {"refresh"}),
         handleDisable    |-> Asks("twofaBusy", "disable2FA", {"refresh"})],
     offers   |-> TwoFactorOffers]

SettingsOffers == [handleCheck |-> Form({"checking"})]

Settings ==
    [loads    |-> [version |-> Load("getVersion", "keeps")],
     flags    |-> [checking |-> "page"],
     handlers |-> [handleCheck |-> Asks("checking", "checkUpdate", {})],
     offers   |-> SettingsOffers]

ActivityOffers == [loadMore |-> FormIn({"loadingMore"})]

\* Any refusal counts as "forbidden".
Activity ==
    [loads    |-> [refresh |-> Load("listActivity", "barred for good")],
     flags    |-> [loadingMore |-> "page"],
     handlers |-> [loadMore |-> Bars(Asks("loadingMore", "listActivity", {}))],
     offers   |-> ActivityOffers]
=============================================================================
