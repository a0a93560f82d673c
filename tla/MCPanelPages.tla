---------------------------- MODULE MCPanelPages ----------------------------
(* Every part of the panel, for TLC and for the proofs about its tables. *)
EXTENDS PanelPages, ServerTabs, AdminPages, AccountPages, StreamerPages, FiniteSets

MCUnits ==
    [BackupManager    |-> BackupManager,    ScheduleManager |-> ScheduleManager,
     PortManager      |-> PortManager,      DatabaseManager |-> DatabaseManager,
     DomainManager    |-> DomainManager,    SubuserManager  |-> SubuserManager,
     FileManager      |-> FileManager,      PowerGrid       |-> PowerGrid,
     ServerView       |-> ServerView,       ProxyKeys       |-> ProxyKeys,
     ServerList       |-> ServerList,       CreateServerForm |-> CreateServerForm,
     Nodes            |-> Nodes,            Allocations     |-> Allocations,
     DatabaseHosts    |-> DatabaseHosts,    NodeStatsTile   |-> NodeStatsTile,
     Users            |-> Users,            Plugins         |-> Plugins,
     Login            |-> Login,            TwoFactorGate   |-> TwoFactorGate,
     ApiKeys          |-> ApiKeys,          SSHKeys         |-> SSHKeys,
     Password         |-> Password,         TwoFactor       |-> TwoFactor,
     Settings         |-> Settings,         Activity        |-> Activity,
     Streamers        |-> Streamers,        TwitchTile      |-> TwitchTile,
     StripeTile       |-> StripeTile,       SpotifyTile     |-> SpotifyTile,
     SongRequestTile  |-> SongRequestTile,  SongQueue       |-> SongQueue,
     TwitchBotTile    |-> TwitchBotTile,    Overlay         |-> Overlay,
     Analytics        |-> Analytics]

\* A new server may take a port that the form goes on offering.  The bulk suspension of the
\* dashboard leaves the rows as they were fetched: a row's socket tells whether its
\* container runs, never that the server is suspended.
MCForgotten == {<<"CreateServerForm", "allocations">>, <<"ServerList", "refresh">>}

\* How often each value occurs: no action asks in which order answers were asked for, or
\* which slot a handler has.
Counted(f) ==
    [v \in {f[k] : k \in DOMAIN f} |-> Cardinality({k \in DOMAIN f : f[k] = v})]

\* The row of a handler matters for flags that name rows, and that a change was overtaken
\* for what is taken from the answer.
Seen(run) ==
    IF run = Idle THEN run
    ELSE LET does == Handler(run) IN
         [run EXCEPT
            !.row = IF does.flag = "none" \/ Table.flags[does.flag] = "page" THEN Idle.row ELSE @,
            !.phase = IF @ = "overtaken" /\ does.takes = {} THEN "ok" ELSE @]

\* What a later step or a property can tell apart.
Visible ==
    <<unit, barred, shown, [l \in Loads(unit) |-> Counted(reads[l])], busy,
      Counted([s \in Slots |-> Seen(runs[s])])>>
=============================================================================
