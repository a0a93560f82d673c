--------------------------- MODULE StreamerPages ----------------------------
(***************************************************************************)
(* The pages of the streaming plugin, as tables for PanelPages: the tiles  *)
(* of pages/Streamers, pages/Analytics and the overlay editor.  A tile     *)
(* connects by leaving for the other service, which sends the browser back.*)
(***************************************************************************)
EXTENDS PanelApi

\* The servers of the streaming eggs.
Streamers ==
    [loads    |-> [servers |-> [Load("listServers", "keeps")
                                   EXCEPT !.calls = {"listServers", "listEggs"}]],
     flags    |-> <<>>, handlers |-> <<>>, offers |-> <<>>]

TwitchTileOffers ==
    [connect                 |-> FormIn({"busy"}),
     upgradeForSubscriptions |-> FormIn({"busy"}),
     enableWidget            |-> FormIn({"busy"}),
     sendTestAlert           |-> FormIn({"busy"}),
     disconnect              |-> FormIn({"busy"})]

TwitchTile ==
    [loads    |-> [refresh |-> Load("getTwitchStatus", "assumes")],
     flags    |-> [busy |-> "page"],
     handlers |->
        [connect                 |-> Leaves("busy", "startTwitchConnect"),
         upgradeForSubscriptions |-> Leaves("busy", "startTwitchExtended"),
         enableWidget            |-> Asks("busy", "enableTwitchSubscriptions", {"refresh"}),
         sendTestAlert           |-> Asks("busy", "sendTwitchTestAlert", {}),
         disconnect              |-> Asks("busy", "disconnectTwitch", {"refresh"})],
     offers   |-> TwitchTileOffers]

StripeTileOffers ==
    [connect       |-> FormIn({"busy"}),
     sendTestAlert |-> FormIn({"busy"}),
     disconnect    |-> FormIn({"busy"})]

StripeTile ==
    [loads    |-> [refresh |-> Load("getStripeStatus", "assumes")],
     flags    |-> [busy |-> "page"],
     handlers |->
        [connect       |-> Leaves("busy", "startStripeConnect"),
         sendTestAlert |-> Asks("busy", "sendTwitchTestAlert", {}),
         disconnect    |-> Asks("busy", "disconnectStripe", {"refresh"})],
     offers   |-> StripeTileOffers]

SpotifyTileOffers ==
    [connect    |-> FormIn({"busy"}),
     disconnect |-> FormIn({"busy"})]

SpotifyTile ==
    [loads    |-> [refresh |-> Load("getSpotifyStatus", "assumes")],
     flags    |-> [busy |-> "page"],
     handlers |->
        [connect    |-> Leaves("busy", "startSpotifyConnect"),
         disconnect |-> Asks("busy", "disconnectSpotify", {"refresh"})],
     offers   |-> SpotifyTileOffers]

SongRequestTileOffers ==
    [enable                |-> FormIn({"busy"}),
     disable               |-> FormIn({"busy"}),
     upgradeForRedemptions |-> FormIn({"busy"})]

SongRequestTile ==
    [loads    |-> [refresh |-> Load("getSongRequestsStatus", "assumes")],
     flags    |-> [busy |-> "page"],
     handlers |->
        [enable                |-> [Asks("busy", "enableSongRequests", {})
                                       EXCEPT !.takes = {"refresh"}],
         disable               |-> Asks("busy", "disableSongRequests", {"refresh"}),
         upgradeForRedemptions |-> Leaves("busy", "startTwitchExtended")],
     offers   |-> SongRequestTileOffers]

SongQueueOffers == [skip |-> Offer("row", {}, {"queue"})]

\* The same tile's queue, which is fetched every ten seconds while requests are enabled;
\* to enable them opens it.
SongQueue ==
    [loads    |-> [queue |-> Timed(Load("getSongRequestQueue", "keeps"))],
     flags    |-> <<>>,
     handlers |-> [skip |-> [Asks("none", "advanceSongRequest", {}) EXCEPT !.amends = {"queue"}]],
     offers   |-> SongQueueOffers]

TwitchBotTileOffers ==
    [connect       |-> FormIn({"busy"}),
     disconnect    |-> FormIn({"busy"}),
     addCommand    |-> FormIn({"busy"}),
     removeCommand |-> Offer("row", {"busy"}, {"commands"})]

TwitchBotTile ==
    [loads    |-> [refresh  |-> Load("getTwitchBotStatus", "assumes"),
                   commands |-> Load("listBotCommands", "keeps")],
     flags    |-> [busy |-> "page"],
     handlers |->
        [connect       |-> Leaves("busy", "startTwitchBotConnect"),
         disconnect    |-> Asks("busy", "disconnectTwitchBot", {"refresh"}),
         addCommand    |-> [Asks("busy", "saveBotCommand", {}) EXCEPT !.amends = {"commands"}],
         removeCommand |-> [Asks("busy", "deleteBotCommand", {}) EXCEPT !.amends = {"commands"}]],
     offers   |-> TwitchBotTileOffers]

\* A layout that could not be loaded is shown as an empty one, which can be saved.
OverlayOffers == [save |-> Form({"saving"})]

Overlay ==
    [loads    |-> [layout |-> Load("getOverlayLayout", "keeps")],
     flags    |-> [saving |-> "page"],
     handlers |-> [save |-> [Asks("saving", "saveOverlayWidgets", {}) EXCEPT !.amends = {"layout"}]],
     offers   |-> OverlayOffers]

AnalyticsOffers == [toggleSession |-> Offer("row", {}, {"sessions"})]

Analytics ==
    [loads    |-> [refresh  |-> Timed(Load("getStreamerAnalytics", "keeps")),
                   sessions |-> Load("listStreamSessions", "keeps")],
     flags    |-> <<>>,
     handlers |-> [toggleSession |-> Asks("none", "getStreamSession", {})],
     offers   |-> AnalyticsOffers]
=============================================================================
