----------------------------- MODULE PanelPages -----------------------------
(***************************************************************************)
(* A part of a page of the web panel: what it has fetched, the flags that  *)
(* disable its controls, and the handlers under way.  Which part it is, is *)
(* a table (ServerTabs, AdminPages, ...): handlers run beside each other   *)
(* and beside the answers to what was fetched earlier, which may come in   *)
(* any order or not at all.                                                *)
(***************************************************************************)
EXTENDS PanelApi, Naturals, Sequences

CONSTANTS Units,       \* name of a part |-> its table
          Rows,        \* entries of its list
          Slots,       \* handlers under way at a time (bound)
          MaxReads,    \* answers a load waits for (bound)
          Forgotten    \* <<part, load>>: changed by the part, and not fetched anew

VARIABLES unit,      \* the part that is open
          barred,    \* the loads whose refusal hides everything, "error" for good
          shown,     \* shown[l]: what the part shows of load l
          reads,     \* reads[l]: the requests of load l, in the order they were sent
          busy,      \* busy[f]: the rows flag f is raised for
          runs       \* the handlers under way

pageVars == <<unit, barred, shown, reads, busy, runs>>

Table == Units[unit]
Loads(u) == DOMAIN Units[u].loads
Flags(u) == DOMAIN Units[u].flags
Handlers(u) == DOMAIN Units[u].handlers

\* "behind": a change this part has made is missing; "lost": because a request failed,
\* or because an older answer came after a newer one.
View == {"none", "fresh", "behind", "lost"}

\* "asked": the server has not looked yet.
Answer == {"asked", "fresh", "behind", "lost"}

\* "overtaken": another change was made after the one that is answered.
Phase == {"idle", "sent", "ok", "overtaken", "failed"}

Idle == [does |-> "none", row |-> CHOOSE r \in Rows : TRUE, step |-> 1, phase |-> "idle"]

Handler(run) == Table.handlers[run.does]

Kinds == {"page", "one", "map"}

\* The tables are tables: what they name exists.
ASSUME PagesAssumption ==
    /\ MaxReads \in Nat /\ Rows # {}
    /\ \A u \in DOMAIN Units :
          /\ \A l \in Loads(u) : Units[u].loads[l].calls \subseteq DOMAIN Api
          /\ "error" \notin Loads(u)
          /\ "none" \notin Flags(u)
          /\ \A f \in Flags(u) : Units[u].flags[f] \in Kinds
          /\ Handlers(u) = DOMAIN Units[u].offers
          /\ \A h \in Handlers(u) :
                LET does == Units[u].handlers[h]  offer == Units[u].offers[h] IN
                /\ h # "none" /\ does.flag \in Flags(u) \cup {"none"}
                /\ does.calls \in Seq(DOMAIN Api) /\ Len(does.calls) > 0
                /\ does.anew \cup does.takes \cup does.amends \subseteq Loads(u)
                /\ does.lowers \in {"always", "failed"} /\ does.settles \in BOOLEAN
                /\ offer.unless \cup offer.unlessAny \subseteq Flags(u)
                /\ offer.needs \subseteq Loads(u)

-----------------------------------------------------------------------------
(* What is fetched *)

Shows(l) == {Api[c].shows : c \in Table.loads[l].calls}

Without(s, k) == [i \in 1 .. Len(s) - 1 |-> IF i < k THEN s[i] ELSE s[i + 1]]

\* refresh() and its like: the caller does not wait for the answer.
Fetched(ls) == [l \in Loads(unit) |-> IF l \in ls THEN Append(reads[l], "asked") ELSE reads[l]]

Room(ls) == \A l \in ls : Len(reads[l]) < MaxReads

\* The server looks.
ReadServed(l, k) ==
    /\ reads[l][k] = "asked"
    /\ reads' = [reads EXCEPT ![l][k] = "fresh"]
    /\ UNCHANGED <<unit, barred, shown, busy, runs>>

\* What is shown when an answer replaces it.
Replaced(old, answer) ==
    IF answer = "behind" /\ old \in {"fresh", "lost"} THEN "lost" ELSE answer

\* .then(setX)
ReadAnswered(l, k) ==
    /\ reads[l][k] # "asked"
    /\ reads' = [reads EXCEPT ![l] = Without(@, k)]
    /\ shown' = [shown EXCEPT ![l] = Replaced(@, reads[l][k])]
    /\ barred' = barred \ {l}
    /\ UNCHANGED <<unit, busy, runs>>

Missed(view) == IF view = "behind" THEN "lost" ELSE view

MissedAll(views) == [k \in DOMAIN views |-> Missed(views[k])]

\* .catch(...)
ReadRefused(l, k) ==
    LET refused == Table.loads[l].refused IN
    /\ reads' = [reads EXCEPT ![l] = MissedAll(Without(@, k))]
    /\ shown' = [shown EXCEPT ![l] = CASE refused \in {"keeps", "barred for good"} -> Missed(@)
                                       [] refused = "assumes" -> "lost"
                                       [] OTHER -> "none"]
    /\ barred' = barred \cup (CASE refused = "barred" -> {l}
                                [] refused = "barred for good" -> {"error"}
                                [] OTHER -> {})
    /\ UNCHANGED <<unit, busy, runs>>

\* setInterval(refresh, ...)
Tick(l) ==
    /\ Table.loads[l].timed /\ Room({l})
    /\ reads' = Fetched({l})
    /\ UNCHANGED <<unit, barred, shown, busy, runs>>

-----------------------------------------------------------------------------
(* Handlers *)

Offered(h, row) ==
    LET offer == Table.offers[h] IN
    /\ barred = {}
    /\ \A f \in offer.unless : row \notin busy[f]
    /\ \A f \in offer.unlessAny : busy[f] = {}
    /\ \A l \in offer.needs : shown[l] # "none"

\* setBusy(true), setBusyId(id), setBusy((b) => ({...b, [id]: true}))
Raised(f, row) ==
    IF f = "none" THEN busy
    ELSE [busy EXCEPT ![f] = CASE Table.flags[f] = "page" -> Rows
                               [] Table.flags[f] = "one"  -> {row}
                               [] Table.flags[f] = "map"  -> @ \cup {row}]

\* finally { setBusy(false) }: an id is cleared whichever row it names by then.
Lowered(f, row) ==
    IF f = "none" THEN busy
    ELSE [busy EXCEPT ![f] = IF Table.flags[f] = "map" THEN @ \ {row} ELSE {}]

Press(s, h, row) ==
    /\ runs[s] = Idle /\ \A r \in Slots : r < s => runs[r] # Idle
    /\ Table.offers[h].on = "page" => row = Idle.row
    /\ Offered(h, row)
    /\ busy' = Raised(Table.handlers[h].flag, row)
    /\ runs' = [runs EXCEPT ![s] = [does |-> h, row |-> row, step |-> 1, phase |-> "sent"]]
    /\ UNCHANGED <<unit, barred, shown, reads>>

Changes(run) == Api[Handler(run).calls[run.step]].changes

\* Of the answers on their way, those that were read before a change are behind.
Aged(views) == [k \in DOMAIN views |-> IF views[k] = "asked" THEN "asked" ELSE "behind"]

\* The change is made.
Changed(s, phase) ==
    LET new == Changes(runs[s])
        Hits(l) == Shows(l) \cap new # {} IN
    /\ shown' = [l \in Loads(unit) |->
                    IF Hits(l) /\ shown[l] # "none" THEN "behind" ELSE shown[l]]
    /\ reads' = [l \in Loads(unit) |-> IF Hits(l) THEN Aged(reads[l]) ELSE reads[l]]
    /\ runs' = [r \in Slots |->
                   IF r = s THEN [runs[s] EXCEPT !.phase = phase]
                   ELSE IF runs[r].phase = "ok" /\ new # {}
                        THEN [runs[r] EXCEPT !.phase = "overtaken"] ELSE runs[r]]

\* The call succeeds, fails although the change was made, or fails.
Serve(s) ==
    /\ runs[s].phase = "sent"
    /\ \/ \E phase \in {"ok", "failed"} : Changed(s, phase)
       \/ /\ runs' = [runs EXCEPT ![s].phase = "failed"]
          /\ UNCHANGED <<shown, reads>>
    /\ UNCHANGED <<unit, barred, busy>>

\* The handler goes on: the call has succeeded, or its failure is left to be counted.
Returned(s) ==
    \/ runs[s].phase \in {"ok", "overtaken"}
    \/ runs[s].phase = "failed" /\ Handler(runs[s]).settles

ContinuePast(s) ==
    /\ Returned(s)
    /\ runs[s].step <= Len(Handler(runs[s]).calls)
    /\ runs' = [runs EXCEPT ![s].step = @ + 1, ![s].phase = "sent"]
    /\ UNCHANGED <<unit, barred, shown, reads, busy>>

\* await returns, and another call follows; or of calls sent together the next is served.
Continue(s) ==
    /\ Returned(s)
    /\ runs[s].step < Len(Handler(runs[s]).calls)
    /\ runs' = [runs EXCEPT ![s].step = @ + 1, ![s].phase = "sent"]
    /\ UNCHANGED <<unit, barred, shown, reads, busy>>

Taken(s) ==
    LET does == Handler(runs[s]) IN
    [l \in Loads(unit) |->
        CASE l \in does.amends -> "fresh"
          [] l \in does.takes  -> IF runs[s].phase = "ok" THEN "fresh" ELSE "lost"
          [] OTHER -> shown[l]]

Last(s) == Returned(s) /\ runs[s].step = Len(Handler(runs[s]).calls)

\* The last call has returned.
Finish(s) ==
    LET does == Handler(runs[s]) IN
    /\ Last(s) /\ does.lowers = "always"
    /\ Room(does.anew)
    /\ shown' = Taken(s)
    /\ reads' = Fetched(does.anew)
    /\ busy' = Lowered(does.flag, runs[s].row)
    /\ runs' = [runs EXCEPT ![s] = Idle]
    /\ UNCHANGED <<unit, barred>>

FailWithoutFinally(s) ==
    /\ runs[s].phase = "failed" /\ ~Handler(runs[s]).settles
    /\ shown' = [l \in Loads(unit) |-> Missed(shown[l])]
    /\ reads' = [l \in Loads(unit) |-> MissedAll(reads[l])]
    /\ runs' = [runs EXCEPT ![s] = Idle]
    /\ UNCHANGED <<unit, barred, busy>>

\* catch: the message is shown, what has been changed is not fetched.
Fail(s) ==
    LET does == Handler(runs[s])
        Hits(l) == \E k \in 1 .. runs[s].step : Shows(l) \cap Api[does.calls[k]].changes # {} IN
    /\ runs[s].phase = "failed" /\ ~does.settles
    /\ shown' = [l \in Loads(unit) |-> IF Hits(l) THEN Missed(shown[l]) ELSE shown[l]]
    /\ reads' = [l \in Loads(unit) |-> IF Hits(l) THEN MissedAll(reads[l]) ELSE reads[l]]
    /\ barred' = IF does.bars THEN barred \cup {"error"} ELSE barred
    /\ busy' = Lowered(does.flag, runs[s].row)
    /\ runs' = [runs EXCEPT ![s] = Idle]
    /\ UNCHANGED unit

-----------------------------------------------------------------------------
(* The part opens; it is left, by the user or by a handler, and opened again.  What
   was under way no longer concerns it. *)

Opened ==
    /\ barred' = {}
    /\ shown' = [l \in Loads(unit) |-> "none"]
    /\ reads' = [l \in Loads(unit) |-> <<"asked">>]
    /\ busy' = [f \in Flags(unit) |-> {}]
    /\ runs' = [s \in Slots |-> Idle]
    /\ UNCHANGED unit

Leave(s) == Last(s) /\ Handler(runs[s]).lowers = "failed" /\ Opened

Remount == Opened

PagesInit ==
    /\ unit \in DOMAIN Units
    /\ barred = {}
    /\ shown = [l \in Loads(unit) |-> "none"]
    /\ reads = [l \in Loads(unit) |-> <<"asked">>]
    /\ busy = [f \in Flags(unit) |-> {}]
    /\ runs = [s \in Slots |-> Idle]

PagesNext ==
    \/ \E l \in Loads(unit) : \E k \in DOMAIN reads[l] :
          ReadServed(l, k) \/ ReadAnswered(l, k) \/ ReadRefused(l, k)
    \/ \E l \in Loads(unit) : Tick(l)
    \/ \E s \in Slots : \/ \E h \in Handlers(unit), row \in Rows : Press(s, h, row)
                        \/ Serve(s) \/ Continue(s) \/ Finish(s) \/ Fail(s) \/ Leave(s)
    \/ Remount

PagesSpec == PagesInit /\ [][PagesNext]_pageVars

-----------------------------------------------------------------------------
(* Properties *)

Names == {"none"} \cup UNION {Handlers(u) : u \in DOMAIN Units}

Run == [does : Names, row : Rows, step : Nat, phase : Phase]

\* Every variable fits the table of the part that is open, and a handler under way
\* has a call left to wait for.
PagesTypeOK ==
    /\ unit \in DOMAIN Units
    /\ barred \subseteq Loads(unit) \cup {"error"}
    /\ shown \in [Loads(unit) -> View]
    /\ reads \in [Loads(unit) -> Seq(Answer)]
    /\ busy \in [Flags(unit) -> SUBSET Rows]
    /\ runs \in [Slots -> Run]
    /\ \A s \in Slots : runs[s].phase # "idle" =>
          runs[s].does \in Handlers(unit) /\ runs[s].step \in DOMAIN Handler(runs[s]).calls

AtRest == (\A s \in Slots : runs[s] = Idle) /\ \A l \in Loads(unit) : reads[l] = <<>>

\* When nothing is under way any more, the page shows every change it has made, in
\* whatever order the changes were made and the answers came: one that is missing was
\* lost to a request that failed or to an older answer that came last.
ShowsWhatItDid ==
    AtRest => \A l \in Loads(unit) : <<unit, l>> \in Forgotten \/ shown[l] # "behind"

\* A control is disabled only while a handler runs that will enable it again: no order
\* of presses, failures and answers leaves a page that cannot be used.
ButtonsComeBack ==
    \A f \in Flags(unit) : \A row \in busy[f] :
       \E s \in Slots : /\ runs[s] # Idle
                        /\ Handler(runs[s]).flag = f
                        /\ Table.flags[f] = "page" \/ runs[s].row = row

\* Of the handlers that share a flag for the page one at a time is under way, of a flag
\* per row one for each row: a form is not submitted twice, two power actions do not
\* overlap, even while an answer is late.  (A flag that names one row does not achieve
\* this: it forgets the first row when a second is named.)
OneAtATime ==
    \A s, r \in Slots :
       LET f == Handler(runs[s]).flag IN
       s # r /\ runs[s] # Idle /\ runs[r] # Idle /\ f # "none" /\ Handler(runs[r]).flag = f
          => /\ Table.flags[f] # "page"
             /\ Table.flags[f] = "map" => runs[s].row # runs[r].row
=============================================================================
