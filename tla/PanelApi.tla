------------------------------ MODULE PanelApi ------------------------------
(***************************************************************************)
(* The calls of the web panel's api object (api/client.ts) and the shape   *)
(* of a table that describes a part of a page.  What an answer holds is    *)
(* left out: a call shows one resource, or changes some of them.           *)
(***************************************************************************)
Reads(r) == [shows |-> r, changes |-> {}]
Writes(rs) == [shows |-> "nothing", changes |-> rs]

\* That a server is suspended is part of its row.  Whether its container runs is not:
\* the panel shows it from a socket.
ServerCalls ==
    [listServers     |-> Reads("servers"), getServer |-> Reads("server"),
     createServer    |-> Writes({"servers", "allocations"}),
     updateServer    |-> Writes({"servers", "server"}),
     power           |-> Writes({}),
     deleteServer    |-> Writes({"servers", "allocations"}),
     suspendServer   |-> Writes({"servers", "server"}),
     unsuspendServer |-> Writes({"servers", "server"})]

AdminCalls ==
    [listNodes           |-> Reads("nodes"), createNode |-> Writes({"nodes"}),
     updateNode          |-> Writes({"nodes"}), deleteNode |-> Writes({"nodes"}),
     regenerateNodeToken |-> Writes({}), checkNodeStatus |-> Reads("nodeStatus"),
     listUsers           |-> Reads("users"), createUser |-> Writes({"users"}),
     updateUser          |-> Writes({"users"}), resetUserPassword |-> Writes({}),
     listDatabaseHosts   |-> Reads("hosts"), createDatabaseHost |-> Writes({"hosts"}),
     deleteDatabaseHost  |-> Writes({"hosts"})]

\* What belongs to one server.
ServerPartCalls ==
    [listServerDatabases    |-> Reads("databases"),
     createServerDatabase   |-> Writes({"databases"}),
     deleteServerDatabase   |-> Writes({"databases"}),
     listServerAllocations  |-> Reads("ports"),
     createServerAllocation |-> Writes({"ports", "allocations"}),
     deleteServerAllocation |-> Writes({"ports", "allocations"}),
     listServerDomains      |-> Reads("domains"),
     createServerDomain     |-> Writes({"domains"}),
     deleteServerDomain     |-> Writes({"domains"}),
     listServerBackups      |-> Reads("backups"),
     createServerBackup     |-> Writes({"backups"}),
     restoreServerBackup    |-> Writes({"files"}),
     deleteServerBackup     |-> Writes({"backups"}),
     downloadServerBackup   |-> Reads("archive")]

CatalogueCalls ==
    [getVersion       |-> Reads("version"), checkUpdate |-> Reads("update"),
     listActivity     |-> Reads("activity"),
     listEggs         |-> Reads("eggs"), setEggEnabled |-> Writes({"eggs"}),
     listAllocations  |-> Reads("allocations"),
     createAllocation |-> Writes({"allocations"}),
     deleteAllocation |-> Writes({"allocations"})]

\* A setup stores a secret; the status changes when its code is verified.
AccountCalls ==
    [login          |-> Writes({}), me |-> Reads("me"),
     listApiKeys    |-> Reads("api keys"), createApiKey |-> Writes({"api keys"}),
     deleteApiKey   |-> Writes({"api keys"}),
     listSSHKeys    |-> Reads("ssh keys"), createSSHKey |-> Writes({"ssh keys"}),
     deleteSSHKey   |-> Writes({"ssh keys"}),
     changePassword |-> Writes({}),
     get2FAStatus   |-> Reads("twofa"), setup2FA |-> Writes({}),
     verify2FA      |-> Writes({"twofa"}), disable2FA |-> Writes({"twofa"})]

\* The connections come into being when the other service redirects the browser back.
StreamerCalls ==
    [getTwitchStatus           |-> Reads("twitch"),
     startTwitchConnect        |-> Writes({}), startTwitchExtended |-> Writes({}),
     enableTwitchSubscriptions |-> Writes({"twitch"}),
     getTwitchStreamKey        |-> Reads("stream key"),
     sendTwitchTestAlert       |-> Writes({}),
     disconnectTwitch          |-> Writes({"twitch"}),
     getStripeStatus           |-> Reads("stripe"), startStripeConnect |-> Writes({}),
     disconnectStripe          |-> Writes({"stripe"}),
     getSpotifyStatus          |-> Reads("spotify"), startSpotifyConnect |-> Writes({}),
     disconnectSpotify         |-> Writes({"spotify"}),
     getStreamerAnalytics      |-> Reads("analytics"),
     listStreamSessions        |-> Reads("sessions"), getStreamSession |-> Reads("session"),
     getTwitchBotStatus        |-> Reads("bot"), startTwitchBotConnect |-> Writes({}),
     disconnectTwitchBot       |-> Writes({"bot"}),
     listBotCommands           |-> Reads("commands"),
     saveBotCommand            |-> Writes({"commands"}),
     deleteBotCommand          |-> Writes({"commands"}),
     getSongRequestsStatus     |-> Reads("song requests"),
     enableSongRequests        |-> Writes({"song requests"}),
     disableSongRequests       |-> Writes({"song requests"}),
     getSongRequestQueue       |-> Reads("queue"),
     advanceSongRequest        |-> Writes({"queue"}),
     getOverlayLayout          |-> Reads("layout"),
     saveOverlayWidgets        |-> Writes({"layout"})]

FileCalls ==
    [listFiles       |-> Reads("files"), readFile |-> Reads("file"),
     writeFile       |-> Writes({"files", "file"}), deleteFile |-> Writes({"files"}),
     createDirectory |-> Writes({"files"}), renameFile |-> Writes({"files"}),
     downloadFile    |-> Reads("file"), uploadFile |-> Writes({"files"})]

SharingCalls ==
    [listSchedules  |-> Reads("schedules"), createSchedule |-> Writes({"schedules"}),
     toggleSchedule |-> Writes({"schedules"}), deleteSchedule |-> Writes({"schedules"}),
     listSubusers   |-> Reads("subusers"), addSubuser |-> Writes({"subusers"}),
     updateSubuser  |-> Writes({"subusers"}), removeSubuser |-> Writes({"subusers"})]

\* The record with the fields of both.
Both(a, b) == [x \in DOMAIN a \cup DOMAIN b |-> IF x \in DOMAIN a THEN a[x] ELSE b[x]]

Api == Both(ServerCalls, Both(AdminCalls, Both(ServerPartCalls, Both(CatalogueCalls,
       Both(AccountCalls, Both(StreamerCalls, Both(FileCalls, SharingCalls)))))))

-----------------------------------------------------------------------------
(* The table of a part of a page.
     loads:    what it fetches when it opens, and anew: the calls, and what a refusal
               does -- the part is "barred" until an answer comes, or "barred for good";
               it "keeps" what it shows, "assumes" something, or is "emptied".  Some
               are fetched anew by a timer.
     flags:    the states that tell it is busy.  A flag is raised for the "page", for
               "one" row, or for each row of a "map".
     handlers: the flag (or "none") a handler raises; the calls it awaits one after the
               other; and, when they have succeeded, what it fetches anew, what it takes
               from the answer, and where it makes the change itself.  It lowers the
               flag "always", or only when it "failed": then it leaves the page.  A
               failure is told, and the part may be barred for it.  A handler settles
               when it waits for every call, whether the others fail or not; its calls
               are then sent beside each other, and come to the server one by one.
     offers:   when the control of a handler can be used: the flags that disable it for
               their row, those that disable it for any row, and the loads it needs.  (A
               list that hides while it is fetched counts as shown.) *)

Load(call, refused) == [calls |-> {call}, refused |-> refused, timed |-> FALSE]

Timed(load) == [load EXCEPT !.timed = TRUE]

NoLoads == [l \in {} |-> Load("me", "keeps")]

Does(flag, calls, anew) ==
    [flag |-> flag, calls |-> calls, anew |-> anew, takes |-> {}, amends |-> {},
     lowers |-> "always", bars |-> FALSE, settles |-> FALSE]

Asks(flag, call, anew) == Does(flag, <<call>>, anew)

\* The page is left by window.location or onBack.
Leaves(flag, call) == [Asks(flag, call, {}) EXCEPT !.lowers = "failed"]

\* The message replaces the page.
Bars(does) == [does EXCEPT !.bars = TRUE]

\* Promise.allSettled
Settles(does) == [does EXCEPT !.settles = TRUE]

Offer(on, unless, needs) ==
    [on |-> on, unless |-> unless, unlessAny |-> {}, needs |-> needs]

Form(unless) == Offer("page", unless, {})
FormIn(unless) == Offer("page", unless, {"refresh"})
Row(unless) == Offer("row", unless, {"refresh"})
=============================================================================
