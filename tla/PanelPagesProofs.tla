-------------------------- MODULE PanelPagesProofs --------------------------
(***************************************************************************)
(* The parts of the panel, for any tables, rows and number of handlers     *)
(* under way: the tables enter the proofs only through PagesAssumption and *)
(* the two hypotheses Guarded and Reloads.  The last section proves both   *)
(* of the panel's own 35 tables, one lemma for each.                       *)
(***************************************************************************)
EXTENDS MCPanelPages, TLAPS, SequenceTheorems

-----------------------------------------------------------------------------
(* Sequences of answers *)

LEMMA WithoutValue ==
    ASSUME NEW s \in Seq(Answer), NEW k \in DOMAIN s
    PROVE  /\ Without(s, k) \in Seq(Answer)
           /\ \A i \in DOMAIN s \ {k} :
                 \E j \in DOMAIN Without(s, k) : Without(s, k)[j] = s[i]
           /\ \A j \in DOMAIN Without(s, k) : \E i \in DOMAIN s : Without(s, k)[j] = s[i]
<1> DEFINE w == Without(s, k)
<1>1. Len(s) \in Nat /\ DOMAIN s = 1 .. Len(s) /\ \A i \in DOMAIN s : s[i] \in Answer
  OBVIOUS
<1>2. Len(s) - 1 \in Nat /\ DOMAIN w = 1 .. Len(s) - 1
  BY <1>1 DEF Without
<1>3. \A j \in DOMAIN w : w[j] = IF j < k THEN s[j] ELSE s[j + 1]
  BY <1>2 DEF Without
<1>4. \A j \in DOMAIN w : \E i \in DOMAIN s : w[j] = s[i]
  BY <1>1, <1>2, <1>3
<1>5. w \in Seq(Answer)
  <2>1. w \in [1 .. Len(s) - 1 -> Answer]
    BY <1>1, <1>2, <1>3 DEF Without
  <2> QED BY <1>2, <2>1, SeqDef
<1>6. \A i \in DOMAIN s \ {k} : \E j \in DOMAIN w : w[j] = s[i]
  <2> SUFFICES ASSUME NEW i \in DOMAIN s \ {k} PROVE \E j \in DOMAIN w : w[j] = s[i]
    OBVIOUS
  <2>1. CASE i < k
    <3>1. i \in DOMAIN w /\ w[i] = s[i]
      BY <1>1, <1>2, <1>3, <2>1
    <3> QED BY <3>1
  <2>2. CASE i > k
    <3>1. i - 1 \in DOMAIN w /\ w[i - 1] = s[i]
      BY <1>1, <1>2, <1>3, <2>2
    <3> QED BY <3>1
  <2> QED BY <1>1, <2>1, <2>2
<1> QED BY <1>4, <1>5, <1>6

\* What is missing after a failure is lost: nothing is behind any more.
LEMMA MissedValue ==
    /\ \A v \in View : Missed(v) \in View /\ Missed(v) # "behind"
    /\ \A v \in View : Missed(v) = "none" => v = "none"
    /\ \A s \in Seq(Answer) :
          /\ MissedAll(s) \in Seq(Answer)
          /\ \A k \in DOMAIN MissedAll(s) : MissedAll(s)[k] # "behind"
<1>1. \A v \in View : Missed(v) \in View /\ Missed(v) # "behind" /\ (Missed(v) = "none" => v = "none")
  BY DEF Missed, View
<1>2. ASSUME NEW s \in Seq(Answer)
      PROVE  /\ MissedAll(s) \in Seq(Answer)
             /\ \A k \in DOMAIN MissedAll(s) : MissedAll(s)[k] # "behind"
  <2>1. Len(s) \in Nat /\ DOMAIN s = 1 .. Len(s) /\ \A i \in DOMAIN s : s[i] \in Answer
    OBVIOUS
  <2>2. MissedAll(s) \in [1 .. Len(s) -> Answer]
    BY <2>1 DEF MissedAll, Missed, Answer
  <2>3. MissedAll(s) \in Seq(Answer)
    BY <2>1, <2>2, SeqDef
  <2> QED BY <2>1, <2>3 DEF MissedAll, Missed
<1> QED BY <1>1, <1>2

\* A change leaves the answers that are to come and makes the others old.
LEMMA AgedValue == ASSUME NEW s \in Seq(Answer) PROVE Aged(s) \in Seq(Answer)
<1>1. Len(s) \in Nat /\ DOMAIN s = 1 .. Len(s)
  OBVIOUS
<1>2. Aged(s) \in [1 .. Len(s) -> Answer]
  BY <1>1 DEF Aged, Answer
<1> QED BY <1>1, <1>2, SeqDef

\* A request is added, and has not been looked at.
LEMMA AskedValue ==
    ASSUME NEW s \in Seq(Answer)
    PROVE  /\ Append(s, "asked") \in Seq(Answer) /\ <<"asked">> \in Seq(Answer)
           /\ \E k \in DOMAIN Append(s, "asked") : Append(s, "asked")[k] = "asked"
<1>1. "asked" \in Answer
  BY DEF Answer
<1>2. Len(s) \in Nat /\ Append(s, "asked") \in Seq(Answer) /\ <<"asked">> \in Seq(Answer)
  BY <1>1
<1>3. Len(s) + 1 \in DOMAIN Append(s, "asked") /\ Append(s, "asked")[Len(s) + 1] = "asked"
  BY <1>1, <1>2
<1> QED BY <1>2, <1>3

-----------------------------------------------------------------------------
(* Types *)

\* What a handler under way names exists.
LEMMA HandlerValue ==
    ASSUME NEW u \in DOMAIN Units, NEW h \in Handlers(u)
    PROVE  /\ h # "none"
           /\ Units[u].handlers[h].flag \in Flags(u) \cup {"none"}
           /\ Len(Units[u].handlers[h].calls) \in Nat \ {0}
           /\ DOMAIN Units[u].handlers[h].calls = 1 .. Len(Units[u].handlers[h].calls)
           /\ Units[u].handlers[h].lowers \in {"always", "failed"}
<1> DEFINE calls == Units[u].handlers[h].calls
<1>1. calls \in Seq(DOMAIN Api) /\ Len(calls) > 0
  BY PagesAssumption
<1>2. Len(calls) \in Nat \ {0} /\ DOMAIN calls = 1 .. Len(calls)
  BY <1>1
<1> QED BY <1>2, PagesAssumption

LEMMA IdleValue ==
    Idle \in Run /\ Idle.phase = "idle" /\ Idle.does = "none" /\ Idle.row \in Rows
<1>1. (CHOOSE r \in Rows : TRUE) \in Rows
  <2>1. Rows # {}
    BY PagesAssumption
  <2> QED BY <2>1
<1>2. Idle = [does |-> "none", row |-> Idle.row, step |-> 1, phase |-> "idle"] /\ Idle.row \in Rows
  BY <1>1 DEF Idle
<1>3. "idle" \in Phase
  BY DEF Phase
<1>4. "none" \in Names
  BY DEF Names
<1> QED BY <1>2, <1>3, <1>4 DEF Run

\* A slot that is not under way is idle in all its parts.
IdleIsIdle == \A s \in Slots : runs[s].phase = "idle" => runs[s] = Idle

TypeInv == PagesTypeOK /\ IdleIsIdle

\* A handler that starts or goes on.
LEMMA RunValue ==
    ASSUME NEW u \in DOMAIN Units, NEW h \in Handlers(u), NEW row \in Rows,
           NEW step \in Nat, NEW phase \in Phase
    PROVE  [does |-> h, row |-> row, step |-> step, phase |-> phase] \in Run
<1>1. h \in Names
  BY DEF Names
<1> QED BY <1>1 DEF Run

LEMMA InitTypes == ASSUME PagesInit PROVE TypeInv
<1>1. <<"asked">> \in Seq(Answer)
  BY AskedValue DEF Answer
<1> QED BY <1>1, IdleValue DEF PagesInit, TypeInv, PagesTypeOK, IdleIsIdle, View

LEMMA OpenedTypes == ASSUME TypeInv, Opened PROVE TypeInv'
<1>1. <<"asked">> \in Seq(Answer)
  BY AskedValue DEF Answer
<1> QED BY <1>1, IdleValue DEF Opened, TypeInv, PagesTypeOK, IdleIsIdle, View

\* What a read changes: nothing of the handlers.
LEMMA ReadTypes ==
    ASSUME TypeInv, NEW l \in Loads(unit), NEW k \in DOMAIN reads[l],
           ReadServed(l, k) \/ ReadAnswered(l, k) \/ ReadRefused(l, k)
    PROVE  TypeInv'
<1> USE DEF TypeInv
<1>1. reads[l] \in Seq(Answer) /\ reads[l][k] \in Answer /\ Without(reads[l], k) \in Seq(Answer)
  <2>1. reads[l] \in Seq(Answer)
    BY DEF PagesTypeOK
  <2> QED BY <2>1, WithoutValue
<1>2. reads' \in [Loads(unit) -> Seq(Answer)]
  <2>1. CASE ReadServed(l, k)
    <3>1. [reads[l] EXCEPT ![k] = "fresh"] \in Seq(Answer)
      BY <1>1 DEF Answer
    <3> QED BY <2>1, <3>1 DEF ReadServed, PagesTypeOK
  <2>2. CASE ReadAnswered(l, k)
    BY <1>1, <2>2 DEF ReadAnswered, PagesTypeOK
  <2>3. CASE ReadRefused(l, k)
    BY <1>1, <2>3, MissedValue DEF ReadRefused, PagesTypeOK
  <2> QED BY <2>1, <2>2, <2>3
<1>3. shown' \in [Loads(unit) -> View]
  <2>1. CASE ReadServed(l, k)
    BY <2>1 DEF ReadServed, PagesTypeOK
  <2>2. CASE ReadAnswered(l, k)
    <3>1. Replaced(shown[l], reads[l][k]) \in View
      BY <1>1, <2>2 DEF ReadAnswered, Replaced, Answer, View
    <3> QED BY <2>2, <3>1 DEF ReadAnswered, PagesTypeOK
  <2>3. CASE ReadRefused(l, k)
    <3>1. Missed(shown[l]) \in View /\ "lost" \in View /\ "none" \in View
      BY MissedValue DEF PagesTypeOK, View
    <3> QED BY <2>3, <3>1 DEF ReadRefused, PagesTypeOK
  <2> QED BY <2>1, <2>2, <2>3
<1>4. barred' \subseteq Loads(unit) \cup {"error"}
  BY DEF ReadServed, ReadAnswered, ReadRefused, PagesTypeOK
<1>5. UNCHANGED <<unit, busy, runs>>
  BY DEF ReadServed, ReadAnswered, ReadRefused
<1> QED BY <1>2, <1>3, <1>4, <1>5 DEF PagesTypeOK, IdleIsIdle, Handler, Table

LEMMA FetchedTypes ==
    ASSUME TypeInv, NEW ls PROVE Fetched(ls) \in [Loads(unit) -> Seq(Answer)]
<1>1. \A l \in Loads(unit) : reads[l] \in Seq(Answer) /\ Append(reads[l], "asked") \in Seq(Answer)
  BY AskedValue DEF TypeInv, PagesTypeOK
<1> QED BY <1>1 DEF Fetched

LEMMA TickTypes == ASSUME TypeInv, NEW l \in Loads(unit), Tick(l) PROVE TypeInv'
BY FetchedTypes DEF Tick, TypeInv, PagesTypeOK, IdleIsIdle, Handler, Table

LEMMA RaisedTypes ==
    ASSUME TypeInv, NEW f \in Flags(unit) \cup {"none"}, NEW row \in Rows
    PROVE  /\ Raised(f, row) \in [Flags(unit) -> SUBSET Rows]
           /\ Lowered(f, row) \in [Flags(unit) -> SUBSET Rows]
<1>1. busy \in [Flags(unit) -> SUBSET Rows]
  BY DEF TypeInv, PagesTypeOK
<1>2. CASE f = "none"
  BY <1>1, <1>2 DEF Raised, Lowered
<1>3. CASE f # "none"
  <2>1. f \in Flags(unit) /\ busy[f] \subseteq Rows /\ Table.flags[f] \in Kinds
    BY <1>1, <1>3, PagesAssumption DEF TypeInv, PagesTypeOK, Table
  <2>2. Raised(f, row) \in [Flags(unit) -> SUBSET Rows]
    BY <1>1, <1>3, <2>1 DEF Raised, Kinds
  <2>3. Lowered(f, row) \in [Flags(unit) -> SUBSET Rows]
    BY <1>1, <1>3, <2>1 DEF Lowered
  <2> QED BY <2>2, <2>3
<1> QED BY <1>2, <1>3

\* A run that is under way names a handler of the part, and a call of it.
LEMMA UnderWayValue ==
    ASSUME TypeInv, NEW s \in Slots, runs[s].phase # "idle"
    PROVE  /\ runs[s] \in Run /\ runs[s] # Idle
           /\ runs[s].does \in Handlers(unit) /\ runs[s].row \in Rows
           /\ Handler(runs[s]).flag \in Flags(unit) \cup {"none"}
           /\ Handler(runs[s]).lowers \in {"always", "failed"}
           /\ Len(Handler(runs[s]).calls) \in Nat
           /\ DOMAIN Handler(runs[s]).calls = 1 .. Len(Handler(runs[s]).calls)
           /\ runs[s].step \in 1 .. Len(Handler(runs[s]).calls)
<1>1. unit \in DOMAIN Units /\ runs[s] \in Run /\ runs[s].does \in Handlers(unit)
  BY DEF TypeInv, PagesTypeOK
<1>2. runs[s].row \in Rows
  BY <1>1 DEF Run
<1>3. runs[s] # Idle
  BY IdleValue
<1> QED BY <1>1, <1>2, <1>3, HandlerValue DEF Handler, Table, TypeInv, PagesTypeOK

LEMMA PressTypes ==
    ASSUME TypeInv, NEW s \in Slots, NEW h \in Handlers(unit), NEW row \in Rows,
           Press(s, h, row)
    PROVE  TypeInv'
<1> DEFINE run == [does |-> h, row |-> row, step |-> 1, phase |-> "sent"]
<1>1. unit \in DOMAIN Units /\ runs \in [Slots -> Run]
  BY DEF TypeInv, PagesTypeOK
<1>2. /\ Table.handlers[h].flag \in Flags(unit) \cup {"none"}
      /\ 1 \in DOMAIN Table.handlers[h].calls
  BY <1>1, HandlerValue DEF Table
<1>3. run \in Run
  BY <1>1, RunValue DEF Phase
<1>4. runs' = [runs EXCEPT ![s] = run]
  BY DEF Press
<1>5. runs' \in [Slots -> Run]
  BY <1>1, <1>3, <1>4
<1>6. busy' \in [Flags(unit) -> SUBSET Rows]
  BY <1>2, RaisedTypes DEF Press
<1>7. \A r \in Slots :
         /\ runs'[r].phase # "idle" =>
              runs'[r].does \in Handlers(unit) /\ runs'[r].step \in DOMAIN Handler(runs'[r]).calls
         /\ runs'[r].phase = "idle" => runs'[r] = Idle
  <2> TAKE r \in Slots
  <2>1. CASE r = s
    <3>1. runs'[r] = run
      BY <1>1, <1>4, <2>1
    <3> QED BY <1>2, <3>1 DEF Handler
  <2>2. CASE r # s
    <3>1. runs'[r] = runs[r]
      BY <1>1, <1>4, <2>2
    <3> QED BY <3>1 DEF TypeInv, PagesTypeOK, IdleIsIdle
  <2> QED BY <2>1, <2>2
<1>8. UNCHANGED <<unit, barred, shown, reads>>
  BY DEF Press
<1> QED BY <1>5, <1>6, <1>7, <1>8 DEF TypeInv, PagesTypeOK, IdleIsIdle, Handler, Table

\* Runs of which only the phase or the step has changed are still runs.
LEMMA SteppedTypes ==
    ASSUME TypeInv, UNCHANGED unit, runs' \in [Slots -> Run],
           \A r \in Slots :
              \/ runs'[r] = runs[r] \/ runs'[r] = Idle
              \/ /\ runs[r].phase # "idle" /\ runs'[r].phase # "idle"
                 /\ runs'[r].does = runs[r].does
                 /\ runs'[r].step \in 1 .. Len(Handler(runs[r]).calls)
    PROVE  \A r \in Slots :
              /\ runs'[r].phase # "idle" =>
                   /\ runs'[r].does \in Handlers(unit)
                   /\ runs'[r].step \in DOMAIN Handler(runs'[r]).calls
              /\ runs'[r].phase = "idle" => runs'[r] = Idle
<1> TAKE r \in Slots
<1>1. CASE runs'[r] = runs[r]
  BY <1>1 DEF TypeInv, PagesTypeOK, IdleIsIdle
<1>2. CASE runs'[r] = Idle
  BY <1>2, IdleValue
<1>3. CASE /\ runs[r].phase # "idle" /\ runs'[r].phase # "idle"
           /\ runs'[r].does = runs[r].does
           /\ runs'[r].step \in 1 .. Len(Handler(runs[r]).calls)
  <2>1. Handler(runs'[r]) = Handler(runs[r])
    BY <1>3 DEF Handler
  <2> QED BY <1>3, <2>1, UnderWayValue
<1> QED BY <1>1, <1>2, <1>3

\* A change makes what is shown and what is under way old, and overtakes handlers.
LEMMA ChangedTypes ==
    ASSUME TypeInv, NEW s \in Slots, runs[s].phase = "sent",
           NEW phase \in {"ok", "failed"}, Changed(s, phase)
    PROVE  /\ shown' \in [Loads(unit) -> View]
           /\ reads' \in [Loads(unit) -> Seq(Answer)]
           /\ runs' \in [Slots -> Run]
           /\ \A r \in Slots : /\ runs'[r].does = runs[r].does /\ runs'[r].row = runs[r].row
                               /\ runs'[r].step = runs[r].step
                               /\ runs'[r].phase =
                                    IF r = s THEN phase
                                    ELSE IF runs[r].phase = "ok" /\ Changes(runs[s]) # {}
                                         THEN "overtaken" ELSE runs[r].phase
<1>1. shown' \in [Loads(unit) -> View]
  BY DEF Changed, TypeInv, PagesTypeOK, View
<1>2. reads' \in [Loads(unit) -> Seq(Answer)]
  <2>1. \A l \in Loads(unit) : reads[l] \in Seq(Answer) /\ Aged(reads[l]) \in Seq(Answer)
    BY AgedValue DEF TypeInv, PagesTypeOK
  <2> QED BY <2>1 DEF Changed
<1>3. ASSUME NEW r \in Slots
      PROVE  /\ runs'[r] \in Run
             /\ runs'[r].does = runs[r].does /\ runs'[r].row = runs[r].row
             /\ runs'[r].step = runs[r].step
             /\ runs'[r].phase = IF r = s THEN phase
                                 ELSE IF runs[r].phase = "ok" /\ Changes(runs[s]) # {}
                                      THEN "overtaken" ELSE runs[r].phase
  <2>1. runs[r] \in Run
    BY DEF TypeInv, PagesTypeOK
  <2>2. runs'[r] = IF r = s THEN [runs[s] EXCEPT !.phase = phase]
                   ELSE IF runs[r].phase = "ok" /\ Changes(runs[s]) # {}
                        THEN [runs[r] EXCEPT !.phase = "overtaken"] ELSE runs[r]
    BY DEF Changed
  <2> HIDE DEF Changed
  <2> QED BY <2>1, <2>2 DEF Run, Phase
<1>4. runs' \in [Slots -> Run]
  BY <1>3 DEF Changed
<1> QED BY <1>1, <1>2, <1>3, <1>4

\* What is left to show when the part stays the same.
LEMMA TypesFromParts ==
    ASSUME TypeInv, UNCHANGED unit,
           barred' \subseteq Loads(unit) \cup {"error"},
           shown' \in [Loads(unit) -> View],
           reads' \in [Loads(unit) -> Seq(Answer)],
           busy' \in [Flags(unit) -> SUBSET Rows],
           runs' \in [Slots -> Run],
           \A r \in Slots :
              \/ runs'[r] = runs[r] \/ runs'[r] = Idle
              \/ /\ runs[r].phase # "idle" /\ runs'[r].phase # "idle"
                 /\ runs'[r].does = runs[r].does
                 /\ runs'[r].step \in 1 .. Len(Handler(runs[r]).calls)
    PROVE  TypeInv'
<1>1. \A r \in Slots :
         /\ runs'[r].phase # "idle" =>
              /\ runs'[r].does \in Handlers(unit)
              /\ runs'[r].step \in DOMAIN Handler(runs'[r]).calls
         /\ runs'[r].phase = "idle" => runs'[r] = Idle
  BY SteppedTypes
<1> QED BY <1>1 DEF TypeInv, PagesTypeOK, IdleIsIdle, Handler, Table

LEMMA ServeTypes == ASSUME TypeInv, NEW s \in Slots, Serve(s) PROVE TypeInv'
<1>1. UNCHANGED <<unit, barred, busy>> /\ runs[s].phase = "sent"
  BY DEF Serve
<1>2. CASE \E phase \in {"ok", "failed"} : Changed(s, phase)
  <2> PICK phase \in {"ok", "failed"} : Changed(s, phase)
    BY <1>2
  <2>1. /\ shown' \in [Loads(unit) -> View]
        /\ reads' \in [Loads(unit) -> Seq(Answer)]
        /\ runs' \in [Slots -> Run]
        /\ \A r \in Slots : /\ runs'[r].does = runs[r].does /\ runs'[r].row = runs[r].row
                            /\ runs'[r].step = runs[r].step
                            /\ runs'[r].phase =
                                 IF r = s THEN phase
                                 ELSE IF runs[r].phase = "ok" /\ Changes(runs[s]) # {}
                                      THEN "overtaken" ELSE runs[r].phase
    BY <1>1, ChangedTypes
  <2>2. ASSUME NEW r \in Slots
        PROVE  \/ runs'[r] = runs[r]
               \/ /\ runs[r].phase # "idle" /\ runs'[r].phase # "idle"
                  /\ runs'[r].does = runs[r].does
                  /\ runs'[r].step \in 1 .. Len(Handler(runs[r]).calls)
    <3>1. CASE runs[r].phase = "idle"
      <4>1. r # s
        BY <1>1, <3>1
      <4>2. runs'[r] = runs[r]
        BY <3>1, <4>1 DEF Changed
      <4> QED BY <4>2
    <3>2. CASE runs[r].phase # "idle"
      BY <2>1, <3>2, UnderWayValue
    <3> QED BY <3>1, <3>2
  <2> QED BY <1>1, <2>1, <2>2, TypesFromParts DEF TypeInv, PagesTypeOK
<1>3. CASE runs' = [runs EXCEPT ![s].phase = "failed"] /\ UNCHANGED <<shown, reads>>
  <2>1. runs \in [Slots -> Run] /\ runs[s] \in Run
    BY DEF TypeInv, PagesTypeOK
  <2>2. /\ runs'[s] \in Run /\ runs'[s].does = runs[s].does
        /\ runs'[s].step = runs[s].step /\ runs'[s].phase = "failed"
    BY <1>3, <2>1 DEF Run, Phase
  <2>3. \A r \in Slots \ {s} : runs'[r] = runs[r]
    BY <1>3, <2>1
  <2>4. runs' \in [Slots -> Run]
    BY <1>3, <2>1, <2>2, <2>3
  <2>5. runs[s].step \in 1 .. Len(Handler(runs[s]).calls)
    BY <1>1, UnderWayValue
  <2> QED BY <1>1, <1>3, <2>2, <2>3, <2>4, <2>5, TypesFromParts DEF TypeInv, PagesTypeOK
<1> QED BY <1>2, <1>3 DEF Serve

LEMMA ContinueTypes == ASSUME TypeInv, NEW s \in Slots, Continue(s) PROVE TypeInv'
<1>1. runs \in [Slots -> Run] /\ runs[s] \in Run /\ runs[s].step \in Nat
  BY DEF TypeInv, PagesTypeOK, Run
<1>2. /\ runs[s].phase # "idle" /\ runs[s].step < Len(Handler(runs[s]).calls)
      /\ UNCHANGED <<unit, barred, shown, reads, busy>>
      /\ runs' = [runs EXCEPT ![s].step = @ + 1, ![s].phase = "sent"]
  BY DEF Continue, Returned
<1>3. /\ runs'[s] \in Run /\ runs'[s].does = runs[s].does
      /\ runs'[s].step = runs[s].step + 1 /\ runs'[s].phase = "sent"
  <2>1. runs'[s] = [runs[s] EXCEPT !.step = runs[s].step + 1, !.phase = "sent"]
    BY <1>1, <1>2
  <2>2. runs[s].step + 1 \in Nat
    BY <1>1
  <2> QED BY <1>1, <2>1, <2>2 DEF Run, Phase
<1>4. \A r \in Slots \ {s} : runs'[r] = runs[r]
  BY <1>1, <1>2
<1>5. runs' \in [Slots -> Run]
  BY <1>1, <1>2, <1>3, <1>4
<1>6. runs'[s].step \in 1 .. Len(Handler(runs[s]).calls)
  BY <1>1, <1>2, <1>3, UnderWayValue
<1> QED BY <1>2, <1>3, <1>4, <1>5, <1>6, TypesFromParts DEF TypeInv, PagesTypeOK

\* A handler ends: its slot is idle.
LEMMA EndedTypes ==
    ASSUME TypeInv, NEW s \in Slots, runs' = [runs EXCEPT ![s] = Idle]
    PROVE  /\ runs' \in [Slots -> Run] /\ runs'[s] = Idle
           /\ \A r \in Slots \ {s} : runs'[r] = runs[r]
BY IdleValue DEF TypeInv, PagesTypeOK

LEMMA FinishTypes == ASSUME TypeInv, NEW s \in Slots, Finish(s) PROVE TypeInv'
<1>1. runs[s].phase # "idle" /\ UNCHANGED <<unit, barred>>
  BY DEF Finish, Last, Returned
<1>2. shown' \in [Loads(unit) -> View]
  <2>1. shown' = Taken(s)
    BY DEF Finish
  <2> QED BY <2>1 DEF Taken, TypeInv, PagesTypeOK, View
<1>3. reads' \in [Loads(unit) -> Seq(Answer)]
  BY FetchedTypes DEF Finish
<1>4. busy' \in [Flags(unit) -> SUBSET Rows]
  BY <1>1, UnderWayValue, RaisedTypes DEF Finish
<1>5. runs' \in [Slots -> Run] /\ runs'[s] = Idle /\ \A r \in Slots \ {s} : runs'[r] = runs[r]
  BY EndedTypes DEF Finish
<1> QED BY <1>1, <1>2, <1>3, <1>4, <1>5, TypesFromParts DEF TypeInv, PagesTypeOK

LEMMA FailTypes == ASSUME TypeInv, NEW s \in Slots, Fail(s) PROVE TypeInv'
<1>1. runs[s].phase # "idle" /\ UNCHANGED unit
  BY DEF Fail
<1>2. shown' \in [Loads(unit) -> View] /\ reads' \in [Loads(unit) -> Seq(Answer)]
  <2>1. \A l \in Loads(unit) : /\ shown[l] \in View /\ Missed(shown[l]) \in View
                               /\ reads[l] \in Seq(Answer)
                               /\ MissedAll(reads[l]) \in Seq(Answer)
    BY MissedValue DEF TypeInv, PagesTypeOK
  <2> QED BY <2>1 DEF Fail
<1>3. barred' \subseteq Loads(unit) \cup {"error"}
  BY DEF Fail, TypeInv, PagesTypeOK
<1>4. busy' \in [Flags(unit) -> SUBSET Rows]
  BY <1>1, UnderWayValue, RaisedTypes DEF Fail
<1>5. runs' \in [Slots -> Run] /\ runs'[s] = Idle /\ \A r \in Slots \ {s} : runs'[r] = runs[r]
  BY EndedTypes DEF Fail
<1> QED BY <1>1, <1>2, <1>3, <1>4, <1>5, TypesFromParts

LEMMA NextTypes == ASSUME TypeInv, [PagesNext]_pageVars PROVE TypeInv'
<1>1. CASE UNCHANGED pageVars
  BY <1>1 DEF pageVars, TypeInv, PagesTypeOK, IdleIsIdle, Handler, Table
<1>2. CASE PagesNext
  BY <1>2, ReadTypes, TickTypes, PressTypes, ServeTypes, ContinueTypes, FinishTypes,
     FailTypes, OpenedTypes DEF PagesNext, Leave, Remount
<1> QED BY <1>1, <1>2

\* Every variable fits the table of the part that is open, and a handler under way has a
\* call left to wait for (the handlers of the panel's pages), for any tables.
THEOREM PagesTypeCorrect == PagesSpec => []PagesTypeOK
<1>1. TypeInv => PagesTypeOK
  BY DEF TypeInv
<1> QED BY <1>1, InitTypes, NextTypes, PTL DEF PagesSpec

-----------------------------------------------------------------------------
(* Flags *)

\* A handler under way stays the same handler, for the same row.
GoesOn(r) ==
    /\ runs'[r].does = runs[r].does /\ runs'[r].row = runs[r].row
    /\ runs'[r] = Idle <=> runs[r] = Idle

LEMMA RunsGoOn ==
    ASSUME TypeInv, NEW s \in Slots, Serve(s) \/ Continue(s)
    PROVE  UNCHANGED <<unit, busy>> /\ \A r \in Slots : GoesOn(r)
<1>1. UNCHANGED <<unit, busy>>
  BY DEF Serve, Continue
<1>2. runs[s].phase # "idle" /\ runs \in [Slots -> Run]
  BY DEF Serve, Continue, Returned, TypeInv, PagesTypeOK
<1>3. \A r \in Slots : runs'[r].does = runs[r].does /\ runs'[r].row = runs[r].row
  <2>1. CASE runs[s].phase = "sent" /\ \E phase \in {"ok", "failed"} : Changed(s, phase)
    BY <2>1, ChangedTypes
  <2>2. CASE runs' = [runs EXCEPT ![s].phase = "failed"]
    BY <1>2, <2>2 DEF Run
  <2>3. CASE Continue(s)
    <3>1. runs'[s] = [runs[s] EXCEPT !.step = @ + 1, !.phase = "sent"]
      BY <1>2, <2>3 DEF Continue
    <3>2. \A r \in Slots \ {s} : runs'[r] = runs[r]
      BY <1>2, <2>3 DEF Continue
    <3>3. runs[s] \in Run
      BY <1>2
    <3>4. runs'[s].does = runs[s].does /\ runs'[s].row = runs[s].row
      BY <3>1, <3>3 DEF Run
    <3> QED BY <3>2, <3>4
  <2> QED BY <2>1, <2>2, <2>3 DEF Serve
<1>4. TypeInv'
  BY ServeTypes, ContinueTypes
<1>5. \A r \in Slots : runs[r] = Idle <=> runs[r].does = "none"
  <2> TAKE r \in Slots
  <2>1. CASE runs[r].phase = "idle"
    BY <2>1, IdleValue DEF TypeInv, IdleIsIdle
  <2>2. CASE runs[r].phase # "idle"
    BY <2>2, UnderWayValue, HandlerValue DEF TypeInv, PagesTypeOK
  <2> QED BY <2>1, <2>2
<1>6. \A r \in Slots : runs'[r] = Idle <=> runs'[r].does = "none"
  <2> TAKE r \in Slots
  <2>1. CASE runs'[r].phase = "idle"
    BY <1>4, <2>1, IdleValue DEF TypeInv, IdleIsIdle
  <2>2. CASE runs'[r].phase # "idle"
    BY <1>1, <1>4, <2>2, IdleValue, HandlerValue DEF TypeInv, PagesTypeOK
  <2> QED BY <2>1, <2>2
<1> QED BY <1>1, <1>3, <1>5, <1>6 DEF GoesOn

\* A read changes neither flags nor handlers.
LEMMA ReadsLeaveRuns ==
    ASSUME NEW l \in Loads(unit),
           \/ Tick(l)
           \/ \E k \in DOMAIN reads[l] : ReadServed(l, k) \/ ReadAnswered(l, k) \/ ReadRefused(l, k)
    PROVE  UNCHANGED <<unit, busy>> /\ \A r \in Slots : runs'[r] = runs[r] /\ GoesOn(r)
BY DEF Tick, ReadServed, ReadAnswered, ReadRefused, GoesOn

LEMMA GoesOnKeepsButtons ==
    ASSUME ButtonsComeBack, UNCHANGED <<unit, busy>>, \A r \in Slots : GoesOn(r)
    PROVE  ButtonsComeBack'
BY DEF ButtonsComeBack, GoesOn, Handler, Table

LEMMA PressKeepsButtons ==
    ASSUME TypeInv, ButtonsComeBack, NEW s \in Slots, NEW h \in Handlers(unit),
           NEW row \in Rows, Press(s, h, row)
    PROVE  ButtonsComeBack'
<1> DEFINE run == [does |-> h, row |-> row, step |-> 1, phase |-> "sent"]
           flag == Table.handlers[h].flag
<1>1. runs' = [runs EXCEPT ![s] = run] /\ runs[s] = Idle /\ busy' = Raised(flag, row)
      /\ UNCHANGED unit
  BY DEF Press
<1>2. runs'[s] = run /\ \A r \in Slots \ {s} : runs'[r] = runs[r]
  BY <1>1 DEF TypeInv, PagesTypeOK
<1>3. run # Idle
  BY IdleValue
<1>4. Handler(run).flag = flag
  BY DEF Handler
<1>5. busy \in [Flags(unit) -> SUBSET Rows]
  BY DEF TypeInv, PagesTypeOK
<1>6. \A f \in Flags(unit) : Table.flags[f] \in Kinds
  BY PagesAssumption DEF TypeInv, PagesTypeOK, Table
<1> SUFFICES ASSUME NEW f \in Flags(unit), NEW other \in busy'[f]
             PROVE  \E r \in Slots : /\ runs'[r] # Idle
                                     /\ Handler(runs'[r]).flag = f
                                     /\ Table.flags[f] = "page" \/ runs'[r].row = other
  BY <1>1 DEF ButtonsComeBack, Handler, Table
<1>7. CASE flag = f /\ (Table.flags[f] = "page" \/ other = row)
  BY <1>2, <1>3, <1>4, <1>7
<1>8. CASE ~(flag = f /\ (Table.flags[f] = "page" \/ other = row))
  <2>1. other \in busy[f]
    BY <1>1, <1>5, <1>6, <1>8 DEF Raised, Kinds
  <2>2. PICK r \in Slots : /\ runs[r] # Idle
                           /\ Handler(runs[r]).flag = f
                           /\ Table.flags[f] = "page" \/ runs[r].row = other
    BY <2>1 DEF ButtonsComeBack
  <2>3. runs'[r] = runs[r]
    BY <1>1, <1>2, <2>2
  <2> QED BY <2>2, <2>3
<1> QED BY <1>7, <1>8

\* A handler ends and lowers its flag; a flag that is still up was raised by another one,
\* or for another row.
LEMMA EndKeepsButtons ==
    ASSUME TypeInv, ButtonsComeBack, NEW s \in Slots, Finish(s) \/ Fail(s)
    PROVE  ButtonsComeBack'
<1>1. /\ runs[s].phase # "idle" /\ UNCHANGED unit
      /\ busy' = Lowered(Handler(runs[s]).flag, runs[s].row)
      /\ runs' = [runs EXCEPT ![s] = Idle]
  BY DEF Finish, Fail, Last, Returned
<1>2. \A r \in Slots \ {s} : runs'[r] = runs[r]
  BY <1>1, EndedTypes
<1>3. Handler(runs[s]).flag \in Flags(unit) \cup {"none"} /\ "none" \notin Flags(unit)
  BY <1>1, UnderWayValue, PagesAssumption DEF TypeInv, PagesTypeOK
<1>4. busy \in [Flags(unit) -> SUBSET Rows]
  BY DEF TypeInv, PagesTypeOK
<1> SUFFICES ASSUME NEW f \in Flags(unit), NEW row \in busy'[f]
             PROVE  \E r \in Slots : /\ runs'[r] # Idle
                                     /\ Handler(runs'[r]).flag = f
                                     /\ Table.flags[f] = "page" \/ runs'[r].row = row
  <2>1. Table' = Table /\ Flags(unit)' = Flags(unit)
    BY <1>1 DEF Table
  <2> QED BY <2>1 DEF ButtonsComeBack, Handler
<1>5. /\ row \in busy[f]
      /\ f # Handler(runs[s]).flag \/ (Table.flags[f] = "map" /\ row # runs[s].row)
  BY <1>1, <1>3, <1>4 DEF Lowered
<1>6. PICK r \in Slots : /\ runs[r] # Idle
                         /\ Handler(runs[r]).flag = f
                         /\ Table.flags[f] = "page" \/ runs[r].row = row
  BY <1>5 DEF ButtonsComeBack
<1>7. r # s
  BY <1>5, <1>6
<1> QED BY <1>2, <1>6, <1>7

LEMMA OpenedKeepsButtons == ASSUME Opened PROVE ButtonsComeBack'
BY DEF Opened, ButtonsComeBack

\* A control is disabled only while a handler runs that will enable it again (the finally
\* of the panel's handlers), for any tables and any number of handlers at a time.
THEOREM ButtonsAlwaysComeBack == PagesSpec => []ButtonsComeBack
<1>1. PagesInit => TypeInv /\ ButtonsComeBack
  BY InitTypes DEF PagesInit, ButtonsComeBack
<1>2. TypeInv /\ ButtonsComeBack /\ [PagesNext]_pageVars => (TypeInv /\ ButtonsComeBack)'
  <2> SUFFICES ASSUME TypeInv, ButtonsComeBack, [PagesNext]_pageVars
               PROVE  ButtonsComeBack'
    BY NextTypes
  <2>1. CASE UNCHANGED pageVars
    BY <2>1 DEF pageVars, ButtonsComeBack, Handler, Table
  <2>2. CASE \E l \in Loads(unit) :
                \/ Tick(l)
                \/ \E k \in DOMAIN reads[l] :
                      ReadServed(l, k) \/ ReadAnswered(l, k) \/ ReadRefused(l, k)
    BY <2>2, ReadsLeaveRuns, GoesOnKeepsButtons
  <2>3. CASE \E s \in Slots : Serve(s) \/ Continue(s)
    BY <2>3, RunsGoOn, GoesOnKeepsButtons
  <2>4. CASE \E s \in Slots, h \in Handlers(unit), row \in Rows : Press(s, h, row)
    BY <2>4, PressKeepsButtons
  <2>5. CASE \E s \in Slots : Finish(s) \/ Fail(s)
    BY <2>5, EndKeepsButtons
  <2>6. CASE Opened
    BY <2>6, OpenedKeepsButtons
  <2> QED BY <2>1, <2>2, <2>3, <2>4, <2>5, <2>6 DEF PagesNext, Leave, Remount
<1> QED BY <1>1, <1>2, PTL DEF PagesSpec

-----------------------------------------------------------------------------
(* One handler at a time *)

\* Every control that raises a flag for the page, or for each row, is disabled by it.
DisabledByItsFlag(u) ==
    \A h \in Handlers(u) :
       LET f == Units[u].handlers[h].flag  offer == Units[u].offers[h] IN
       f \in Flags(u) /\ Units[u].flags[f] \in {"page", "map"}
          => f \in offer.unless \cup offer.unlessAny

Guarded == \A u \in DOMAIN Units : DisabledByItsFlag(u)

\* While a handler is under way, its flag is up.
FlagsUp ==
    \A s \in Slots :
       LET f == Handler(runs[s]).flag IN
       runs[s] # Idle /\ f # "none" =>
          /\ Table.flags[f] = "page" => busy[f] = Rows
          /\ Table.flags[f] = "map"  => runs[s].row \in busy[f]

FlagInv == TypeInv /\ FlagsUp /\ OneAtATime

LEMMA BusyRun ==
    ASSUME TypeInv, NEW s \in Slots, runs[s] # Idle
    PROVE  /\ runs[s].row \in Rows
           /\ Handler(runs[s]).flag # "none" => Handler(runs[s]).flag \in Flags(unit)
BY UnderWayValue DEF TypeInv, IdleIsIdle

LEMMA GoesOnKeepsFlags ==
    ASSUME FlagsUp, OneAtATime, UNCHANGED <<unit, busy>>, \A r \in Slots : GoesOn(r)
    PROVE  FlagsUp' /\ OneAtATime'
<1>1. \A r \in Slots : /\ runs'[r] # Idle <=> runs[r] # Idle
                       /\ Handler(runs'[r]) = Handler(runs[r])
                       /\ runs'[r].row = runs[r].row
  BY DEF GoesOn, Handler
<1>2. FlagsUp'
  BY <1>1 DEF FlagsUp, Handler, Table
<1>3. Table' = Table
  BY DEF Table
<1>4. OneAtATime'
  <2> SUFFICES ASSUME NEW a \in Slots, NEW b \in Slots, a # b,
                      runs'[a] # Idle, runs'[b] # Idle,
                      Handler(runs'[a]).flag # "none",
                      Handler(runs'[b]).flag = Handler(runs'[a]).flag
               PROVE  LET f == Handler(runs'[a]).flag IN
                      /\ Table.flags[f] # "page"
                      /\ Table.flags[f] = "map" => runs'[a].row # runs'[b].row
    BY <1>3 DEF OneAtATime, Handler
  <2> QED BY <1>1 DEF OneAtATime
<1> QED BY <1>2, <1>4

\* A flag that is up keeps its controls from being used, for the page or for the row.
LEMMA PressKeepsFlags ==
    ASSUME Guarded, FlagInv, NEW s \in Slots, NEW h \in Handlers(unit), NEW row \in Rows,
           Press(s, h, row)
    PROVE  FlagsUp' /\ OneAtATime'
<1> DEFINE run == [does |-> h, row |-> row, step |-> 1, phase |-> "sent"]
           flag == Table.handlers[h].flag
<1>1. /\ runs' = [runs EXCEPT ![s] = run] /\ runs[s] = Idle /\ busy' = Raised(flag, row)
      /\ Offered(h, row) /\ UNCHANGED unit
  BY DEF Press
<1>2. runs'[s] = run /\ \A r \in Slots \ {s} : runs'[r] = runs[r]
  BY <1>1 DEF FlagInv, TypeInv, PagesTypeOK
<1>3. Handler(run).flag = flag /\ run.row = row
  BY DEF Handler
<1>4. busy \in [Flags(unit) -> SUBSET Rows] /\ unit \in DOMAIN Units
  BY DEF FlagInv, TypeInv, PagesTypeOK
<1>5. flag \in Flags(unit) \cup {"none"} /\ "none" \notin Flags(unit)
  BY <1>4, HandlerValue, PagesAssumption DEF Table
<1> HIDE DEF run, flag
<1>6. ASSUME NEW r \in Slots \ {s}, runs[r] # Idle, flag # "none", Handler(runs[r]).flag = flag
      PROVE  /\ Table.flags[flag] # "page"
             /\ Table.flags[flag] = "map" => runs[r].row # row
  <2> SUFFICES ASSUME Table.flags[flag] \in {"page", "map"}
               PROVE  Table.flags[flag] = "map" /\ runs[r].row # row
    OBVIOUS
  <2>1. flag \in Table.offers[h].unless \cup Table.offers[h].unlessAny
    BY <1>4, <1>5, <1>6 DEF Guarded, DisabledByItsFlag, Table, flag
  <2>2. row \notin busy[flag]
    BY <1>1, <2>1 DEF Offered
  <2>3. /\ Table.flags[flag] = "page" => busy[flag] = Rows
        /\ Table.flags[flag] = "map" => runs[r].row \in busy[flag]
    BY <1>6 DEF FlagInv, FlagsUp
  <2> QED BY <2>2, <2>3
<1>7. FlagsUp'
  <2> SUFFICES ASSUME NEW r \in Slots, runs'[r] # Idle, Handler(runs'[r]).flag # "none"
               PROVE  LET f == Handler(runs'[r]).flag IN
                      /\ Table.flags[f] = "page" => busy'[f] = Rows
                      /\ Table.flags[f] = "map"  => runs'[r].row \in busy'[f]
    BY <1>1 DEF FlagsUp, Handler, Table
  <2>1. CASE r = s
    <3>1. flag \in Flags(unit) /\ Handler(runs'[r]).flag = flag /\ runs'[r].row = row
      BY <1>2, <1>3, <1>5, <2>1
    <3>2. /\ Table.flags[flag] = "page" => busy'[flag] = Rows
          /\ Table.flags[flag] = "map"  => row \in busy'[flag]
      BY <1>1, <1>4, <1>5, <3>1 DEF Raised
    <3> QED BY <3>1, <3>2
  <2>2. CASE r # s
    <3> DEFINE f == Handler(runs[r]).flag
    <3>1. runs'[r] = runs[r] /\ f \in Flags(unit) /\ f # "none"
      BY <1>2, <2>2, BusyRun DEF FlagInv
    <3>2. /\ Table.flags[f] = "page" => busy[f] = Rows
          /\ Table.flags[f] = "map"  => runs[r].row \in busy[f]
      BY <3>1 DEF FlagInv, FlagsUp
    <3> HIDE DEF f
    <3>3. /\ Table.flags[f] = "page" => busy'[f] = Rows
          /\ Table.flags[f] = "map"  => runs[r].row \in busy'[f]
      BY <1>1, <1>4, <1>5, <3>1, <3>2 DEF Raised
    <3> QED BY <3>1, <3>3 DEF f
  <2> QED BY <2>1, <2>2
<1>8. OneAtATime'
  <2> SUFFICES ASSUME NEW a \in Slots, NEW b \in Slots, a # b,
                      runs'[a] # Idle, runs'[b] # Idle,
                      Handler(runs'[a]).flag # "none",
                      Handler(runs'[b]).flag = Handler(runs'[a]).flag
               PROVE  LET f == Handler(runs'[a]).flag IN
                      /\ Table.flags[f] # "page"
                      /\ Table.flags[f] = "map" => runs'[a].row # runs'[b].row
    <3>1. Table' = Table
      BY <1>1 DEF Table
    <3> QED BY <3>1 DEF OneAtATime, Handler
  <2>1. CASE a = s
    BY <1>2, <1>3, <1>6, <2>1
  <2>2. CASE b = s
    BY <1>2, <1>3, <1>6, <2>2
  <2>3. CASE a # s /\ b # s
    BY <1>2, <2>3 DEF FlagInv, OneAtATime
  <2> QED BY <2>1, <2>2, <2>3
<1> QED BY <1>7, <1>8

\* No other handler shares what the handler that ends lowers.
LEMMA EndKeepsFlags ==
    ASSUME FlagInv, NEW s \in Slots, Finish(s) \/ Fail(s)
    PROVE  FlagsUp' /\ OneAtATime'
<1> DEFINE flag == Handler(runs[s]).flag
<1>1. /\ runs[s].phase # "idle" /\ UNCHANGED unit
      /\ busy' = Lowered(flag, runs[s].row)
      /\ runs' = [runs EXCEPT ![s] = Idle]
  BY DEF Finish, Fail, Last, Returned
<1>2. runs'[s] = Idle /\ \A r \in Slots \ {s} : runs'[r] = runs[r]
  BY <1>1, EndedTypes DEF FlagInv
<1>3. runs[s] # Idle /\ flag \in Flags(unit) \cup {"none"}
  BY <1>1, UnderWayValue DEF FlagInv
<1>4. busy \in [Flags(unit) -> SUBSET Rows]
  BY DEF FlagInv, TypeInv, PagesTypeOK
<1> HIDE DEF flag
<1>5. FlagsUp'
  <2> SUFFICES ASSUME NEW r \in Slots \ {s}, runs[r] # Idle, Handler(runs[r]).flag # "none"
               PROVE  LET f == Handler(runs[r]).flag IN
                      /\ Table.flags[f] = "page" => busy'[f] = Rows
                      /\ Table.flags[f] = "map"  => runs[r].row \in busy'[f]
    BY ZenonT(40), <1>1, <1>2 DEF FlagsUp, Handler, Table
  <2> DEFINE f == Handler(runs[r]).flag
  <2>1. f \in Flags(unit)
    BY BusyRun DEF FlagInv
  <2>2. /\ Table.flags[f] = "page" => busy[f] = Rows
        /\ Table.flags[f] = "map"  => runs[r].row \in busy[f]
    BY DEF FlagInv, FlagsUp
  <2>3. f = flag => /\ Table.flags[f] # "page"
                    /\ Table.flags[f] = "map" => runs[r].row # runs[s].row
    BY <1>3 DEF FlagInv, OneAtATime, flag
  <2> HIDE DEF f
  <2>4. /\ Table.flags[f] = "page" => busy'[f] = Rows
        /\ Table.flags[f] = "map"  => runs[r].row \in busy'[f]
    BY <1>1, <1>3, <1>4, <2>1, <2>2, <2>3 DEF Lowered
  <2> QED BY <2>4 DEF f
<1>6. OneAtATime'
  <2> SUFFICES ASSUME NEW a \in Slots, NEW b \in Slots, a # b,
                      runs'[a] # Idle, runs'[b] # Idle,
                      Handler(runs'[a]).flag # "none",
                      Handler(runs'[b]).flag = Handler(runs'[a]).flag
               PROVE  LET f == Handler(runs'[a]).flag IN
                      /\ Table.flags[f] # "page"
                      /\ Table.flags[f] = "map" => runs'[a].row # runs'[b].row
    <3>1. Table' = Table
      BY <1>1 DEF Table
    <3> QED BY <3>1 DEF OneAtATime, Handler
  <2>1. /\ a # s /\ runs'[a] = runs[a]
        /\ b # s /\ runs'[b] = runs[b]
    BY <1>2
  <2> QED BY <2>1 DEF FlagInv, OneAtATime
<1> QED BY <1>5, <1>6

LEMMA OpenedKeepsFlags == ASSUME Opened PROVE FlagsUp' /\ OneAtATime'
BY DEF Opened, FlagsUp, OneAtATime

\* Where every control is disabled by the flag it raises, of the handlers that share a
\* flag one at a time is under way (one for each row): no form is submitted twice, no two
\* power actions overlap.  For any tables and any number of handlers.
THEOREM OneHandlerAtATime == ASSUME Guarded PROVE PagesSpec => []OneAtATime
<1>1. PagesInit => FlagInv
  <2> SUFFICES ASSUME PagesInit PROVE FlagsUp /\ OneAtATime
    BY InitTypes DEF FlagInv
  <2> QED BY DEF PagesInit, FlagsUp, OneAtATime
<1>2. FlagInv /\ [PagesNext]_pageVars => FlagInv'
  <2> SUFFICES ASSUME FlagInv, [PagesNext]_pageVars PROVE FlagsUp' /\ OneAtATime'
    BY NextTypes DEF FlagInv
  <2>1. CASE UNCHANGED pageVars
    BY <2>1 DEF pageVars, FlagInv, FlagsUp, OneAtATime, Handler, Table
  <2>2. CASE \E l \in Loads(unit) :
                \/ Tick(l)
                \/ \E k \in DOMAIN reads[l] :
                      ReadServed(l, k) \/ ReadAnswered(l, k) \/ ReadRefused(l, k)
    BY <2>2, ReadsLeaveRuns, GoesOnKeepsFlags DEF FlagInv
  <2>3. CASE \E s \in Slots : Serve(s) \/ Continue(s)
    BY <2>3, RunsGoOn, GoesOnKeepsFlags DEF FlagInv
  <2>4. CASE \E s \in Slots, h \in Handlers(unit), row \in Rows : Press(s, h, row)
    BY <2>4, Guarded, PressKeepsFlags
  <2>5. CASE \E s \in Slots : Finish(s) \/ Fail(s)
    BY <2>5, EndKeepsFlags
  <2>6. CASE Opened
    BY <2>6, OpenedKeepsFlags
  <2> QED BY <2>1, <2>2, <2>3, <2>4, <2>5, <2>6 DEF PagesNext, Leave, Remount
<1> QED BY <1>1, <1>2, PTL DEF PagesSpec, FlagInv

-----------------------------------------------------------------------------
(* What is shown *)

\* Call number k of handler does changes what load l shows.
HitBy(does, k, l) == Shows(l) \cap Api[does.calls[k]].changes # {}

\* A handler that stays on the part fetches, takes or makes every change of its calls.
ReloadsItsChanges(u) ==
    \A h \in Handlers(u) :
       LET does == Units[u].handlers[h] IN
       does.lowers = "always" =>
          \A l \in Loads(u), k \in DOMAIN does.calls :
             {Api[c].shows : c \in Units[u].loads[l].calls} \cap Api[does.calls[k]].changes # {}
                => l \in does.anew \cup does.takes \cup does.amends \/ <<u, l>> \in Forgotten

Reloads == \A u \in DOMAIN Units : ReloadsItsChanges(u)

\* A change that load l does not show, or will not when its answers have come.
Stale(l) ==
    \/ shown[l] = "behind"
    \/ shown[l] = "none" /\ \E k \in DOMAIN reads[l] : reads[l][k] = "behind"

\* Run s has changed what load l shows.
HasHit(s, l) ==
    /\ runs[s].phase # "idle"
    /\ \E k \in 1 .. runs[s].step :
          HitBy(Handler(runs[s]), k, l) /\ (k < runs[s].step \/ runs[s].phase # "sent")

\* Something under way will make it good: the handler itself, or a request that is still
\* to be answered with everything.
Coming(l) == \E k \in DOMAIN reads[l] : reads[l][k] \in {"asked", "fresh"}

MadeGood(l) == Coming(l) \/ \E s \in Slots : HasHit(s, l)

NothingMissing ==
    \A l \in Loads(unit) : <<unit, l>> \in Forgotten \/ (Stale(l) => MadeGood(l))

ShownInv == TypeInv /\ NothingMissing

\* An answer comes, or is refused.
LEMMA ReadKeepsShown ==
    ASSUME ShownInv, NEW l \in Loads(unit), NEW k \in DOMAIN reads[l],
           ReadServed(l, k) \/ ReadAnswered(l, k) \/ ReadRefused(l, k)
    PROVE  NothingMissing'
<1>1. UNCHANGED <<unit, busy, runs>>
  BY DEF ReadServed, ReadAnswered, ReadRefused
<1>2. reads[l] \in Seq(Answer) /\ shown[l] \in View /\ reads \in [Loads(unit) -> Seq(Answer)]
      /\ shown \in [Loads(unit) -> View]
  BY DEF ShownInv, TypeInv, PagesTypeOK
<1> SUFFICES ASSUME NEW m \in Loads(unit), <<unit, m>> \notin Forgotten, Stale(m)'
             PROVE  MadeGood(m)'
  BY <1>1 DEF NothingMissing
<1>3. ASSUME NEW s \in Slots, HasHit(s, m) PROVE HasHit(s, m)'
  BY <1>1, <1>3 DEF HasHit, HitBy, Handler, Table, Shows
<1>4. Stale(m) => MadeGood(m)
  BY DEF ShownInv, NothingMissing
<1>5. CASE m # l
  <2>1. reads'[m] = reads[m] /\ shown'[m] = shown[m]
    BY <1>2, <1>5 DEF ReadServed, ReadAnswered, ReadRefused
  <2>2. Stale(m) /\ (Coming(m) => Coming(m)')
    BY <2>1 DEF Stale, Coming
  <2> QED BY <1>3, <1>4, <2>2 DEF MadeGood
<1>6. CASE m = l /\ ReadServed(l, k)
  <2>1. reads'[l] = [reads[l] EXCEPT ![k] = "fresh"]
    BY <1>2, <1>6 DEF ReadServed
  <2>2. k \in DOMAIN reads'[l] /\ reads'[l][k] = "fresh"
    BY <1>2, <2>1
  <2> QED BY <1>6, <2>2 DEF MadeGood, Coming
<1>7. CASE m = l /\ ReadAnswered(l, k)
  <2>1. reads'[l] = Without(reads[l], k) /\ shown'[l] = Replaced(shown[l], reads[l][k])
        /\ reads[l][k] \in Answer \ {"asked"}
    BY <1>2, <1>7 DEF ReadAnswered
  <2>2. \A j \in DOMAIN reads'[l] : \E i \in DOMAIN reads[l] : reads'[l][j] = reads[l][i]
    BY <1>2, <2>1, WithoutValue
  <2>3. \A i \in DOMAIN reads[l] \ {k} : \E j \in DOMAIN reads'[l] : reads'[l][j] = reads[l][i]
    BY <1>2, <2>1, WithoutValue
  <2>4. reads[l][k] = "behind" /\ shown[l] \in {"none", "behind"}
    BY <1>2, <1>7, <2>1 DEF Stale, Replaced, Answer, View
  <2>5. Stale(l)
    BY <2>4 DEF Stale
  <2>6. CASE Coming(l)
    BY <1>7, <2>3, <2>4, <2>6 DEF Coming, MadeGood
  <2>7. CASE \E s \in Slots : HasHit(s, l)
    BY <1>3, <1>7, <2>7 DEF MadeGood
  <2> QED BY <1>4, <1>7, <2>5, <2>6, <2>7 DEF MadeGood
<1>8. CASE m = l /\ ReadRefused(l, k)
  <2>1. Without(reads[l], k) \in Seq(Answer) /\ reads'[l] = MissedAll(Without(reads[l], k))
    BY <1>2, <1>8, WithoutValue DEF ReadRefused
  <2>2. \A j \in DOMAIN reads'[l] : reads'[l][j] # "behind"
    BY <2>1, MissedValue
  <2>3. shown'[l] \in {Missed(shown[l]), "lost", "none"}
    BY <1>2, <1>8 DEF ReadRefused
  <2>4. shown'[l] # "behind"
    BY <1>2, <2>3, MissedValue
  <2> QED BY <1>8, <2>2, <2>4 DEF Stale
<1> QED BY <1>5, <1>6, <1>7, <1>8

\* A request is added to those of a load.
LEMMA FetchedComes ==
    ASSUME TypeInv, NEW ls, UNCHANGED unit, reads' = Fetched(ls), NEW l \in Loads(unit)
    PROVE  /\ l \in ls => Coming(l)'
           /\ l \notin ls => reads'[l] = reads[l]
<1>1. reads[l] \in Seq(Answer)
  BY DEF TypeInv, PagesTypeOK
<1>2. l \in ls => reads'[l] = Append(reads[l], "asked")
  BY DEF Fetched
<1>3. l \notin ls => reads'[l] = reads[l]
  BY DEF Fetched
<1> QED BY <1>1, <1>2, <1>3, AskedValue DEF Coming

LEMMA TickKeepsShown ==
    ASSUME ShownInv, NEW t \in Loads(unit), Tick(t) PROVE NothingMissing'
<1>1. UNCHANGED <<unit, shown, runs>> /\ reads' = Fetched({t})
  BY DEF Tick
<1> SUFFICES ASSUME NEW l \in Loads(unit), <<unit, l>> \notin Forgotten, Stale(l)'
             PROVE  MadeGood(l)'
  BY <1>1 DEF NothingMissing
<1>2. CASE l = t
  BY <1>1, <1>2, FetchedComes DEF ShownInv, MadeGood
<1>3. CASE l # t
  <2>1. reads'[l] = reads[l]
    BY <1>1, <1>3, FetchedComes DEF ShownInv
  <2>2. MadeGood(l)
    BY <1>1, <2>1 DEF ShownInv, NothingMissing, Stale
  <2> QED BY <1>1, <2>1, <2>2 DEF MadeGood, Coming, HasHit, HitBy, Handler, Table, Shows
<1> QED BY <1>2, <1>3

\* A handler under way goes on, and what it has changed remains changed.
LEMMA HitsStay ==
    ASSUME UNCHANGED unit, NEW s \in Slots, NEW l \in Loads(unit), HasHit(s, l),
           runs[s].step \in Nat, runs'[s].step \in Nat,
           runs'[s].does = runs[s].does, runs'[s].phase # "idle",
           \/ runs'[s].step = runs[s].step /\ (runs'[s].phase # "sent" \/ runs[s].phase = "sent")
           \/ runs'[s].step > runs[s].step
    PROVE  HasHit(s, l)'
<1>1. PICK k \in 1 .. runs[s].step :
         HitBy(Handler(runs[s]), k, l) /\ (k < runs[s].step \/ runs[s].phase # "sent")
  BY DEF HasHit
<1>2. k \in 1 .. runs'[s].step /\ (k < runs'[s].step \/ runs'[s].phase # "sent")
  BY <1>1
<1>3. HitBy(Handler(runs[s]), k, l)'
  BY <1>1 DEF HitBy, Handler, Table, Shows
<1> QED BY <1>2, <1>3 DEF HasHit

LEMMA PressKeepsShown ==
    ASSUME ShownInv, NEW s \in Slots, NEW h \in Handlers(unit), NEW row \in Rows,
           Press(s, h, row)
    PROVE  NothingMissing'
<1>1. UNCHANGED <<unit, shown, reads>> /\ runs[s] = Idle
      /\ \A r \in Slots \ {s} : runs'[r] = runs[r]
  BY DEF Press, ShownInv, TypeInv, PagesTypeOK
<1>2. ASSUME NEW r \in Slots, NEW l \in Loads(unit), HasHit(r, l) PROVE HasHit(r, l)'
  <2>1. r # s
    BY <1>1, <1>2, IdleValue DEF HasHit
  <2> QED BY <1>1, <1>2, <2>1 DEF HasHit, HitBy, Handler, Table, Shows
<1> SUFFICES ASSUME NEW l \in Loads(unit), <<unit, l>> \notin Forgotten, Stale(l)
             PROVE  MadeGood(l)'
  BY <1>1 DEF NothingMissing, Stale
<1> QED BY <1>1, <1>2 DEF ShownInv, NothingMissing, MadeGood, Coming

LEMMA ServeKeepsShown ==
    ASSUME ShownInv, NEW s \in Slots, Serve(s) PROVE NothingMissing'
<1>1. UNCHANGED unit /\ runs[s].phase = "sent" /\ runs \in [Slots -> Run]
      /\ reads \in [Loads(unit) -> Seq(Answer)] /\ shown \in [Loads(unit) -> View]
  BY DEF Serve, ShownInv, TypeInv, PagesTypeOK
<1>2. \A r \in Slots : runs[r].step \in Nat
  BY <1>1 DEF Run
<1> SUFFICES ASSUME NEW l \in Loads(unit), <<unit, l>> \notin Forgotten, Stale(l)'
             PROVE  MadeGood(l)'
  BY <1>1 DEF NothingMissing
<1>3. Stale(l) => MadeGood(l)
  BY DEF ShownInv, NothingMissing
<1>4. CASE \E phase \in {"ok", "failed"} : Changed(s, phase)
  <2> PICK phase \in {"ok", "failed"} : Changed(s, phase)
    BY <1>4
  <2>1. \A r \in Slots : /\ runs'[r].does = runs[r].does
                         /\ runs'[r].step = runs[r].step
                         /\ runs'[r].phase =
                              IF r = s THEN phase
                              ELSE IF runs[r].phase = "ok" /\ Changes(runs[s]) # {}
                                   THEN "overtaken" ELSE runs[r].phase
    BY <1>1, ChangedTypes DEF ShownInv
  <2>2. ASSUME NEW r \in Slots, HasHit(r, l) PROVE HasHit(r, l)'
    <3>1. runs[r].phase # "idle" /\ runs'[r].phase # "idle"
      BY <2>1, <2>2 DEF HasHit
    <3>2. runs'[r].phase # "sent" \/ runs[r].phase = "sent"
      BY <2>1
    <3> QED BY <1>1, <1>2, <2>1, <2>2, <3>1, <3>2, HitsStay
  <2>3. CASE HitBy(Handler(runs[s]), runs[s].step, l)
    <3>1. runs[s].step \in 1 .. runs[s].step
      BY <1>1, UnderWayValue DEF ShownInv
    <3>2. HitBy(Handler(runs[s]), runs[s].step, l)'
      BY <1>1, <2>1, <2>3 DEF HitBy, Handler, Table, Shows
    <3>3. HasHit(s, l)'
      BY <2>1, <3>1, <3>2 DEF HasHit
    <3> QED BY <3>3 DEF MadeGood
  <2>4. CASE ~HitBy(Handler(runs[s]), runs[s].step, l)
    <3>1. shown'[l] = shown[l] /\ reads'[l] = reads[l]
      BY <2>4 DEF Changed, HitBy, Changes
    <3>2. Stale(l) /\ (Coming(l) => Coming(l)')
      BY <3>1 DEF Stale, Coming
    <3> QED BY <1>3, <2>2, <3>2 DEF MadeGood
  <2> QED BY <2>3, <2>4
<1>5. CASE runs' = [runs EXCEPT ![s].phase = "failed"] /\ UNCHANGED <<shown, reads>>
  <2>1. \A r \in Slots : runs'[r].does = runs[r].does /\ runs'[r].step = runs[r].step
                         /\ runs'[r].phase = IF r = s THEN "failed" ELSE runs[r].phase
    BY <1>1, <1>5 DEF Run
  <2>2. ASSUME NEW r \in Slots, HasHit(r, l) PROVE HasHit(r, l)'
    <3>1. runs[r].phase # "idle" /\ runs'[r].phase # "idle"
          /\ (runs'[r].phase # "sent" \/ runs[r].phase = "sent")
      BY <2>1, <2>2 DEF HasHit
    <3> QED BY <1>1, <1>2, <2>1, <2>2, <3>1, HitsStay
  <2>3. Stale(l) /\ (Coming(l) => Coming(l)')
    BY <1>5 DEF Stale, Coming
  <2> QED BY <1>3, <2>2, <2>3 DEF MadeGood
<1> QED BY <1>4, <1>5 DEF Serve

LEMMA ContinueKeepsShown ==
    ASSUME ShownInv, NEW s \in Slots, Continue(s) PROVE NothingMissing'
<1>1. UNCHANGED <<unit, shown, reads>> /\ runs[s] \in Run /\ runs \in [Slots -> Run]
      /\ runs' = [runs EXCEPT ![s].step = @ + 1, ![s].phase = "sent"]
  BY DEF Continue, ShownInv, TypeInv, PagesTypeOK
<1>2. runs'[s] = [runs[s] EXCEPT !.step = runs[s].step + 1, !.phase = "sent"]
  BY <1>1
<1>3. /\ runs[s].step \in Nat /\ runs'[s].step = runs[s].step + 1
      /\ runs'[s].does = runs[s].does /\ runs'[s].phase = "sent"
  BY <1>1, <1>2 DEF Run
<1>4. \A r \in Slots \ {s} : runs'[r] = runs[r]
  BY <1>1
<1>5. ASSUME NEW r \in Slots, NEW l \in Loads(unit), HasHit(r, l) PROVE HasHit(r, l)'
  <2>1. CASE r = s
    BY <1>1, <1>3, <1>5, <2>1, HitsStay
  <2>2. CASE r # s
    BY <1>1, <1>4, <1>5, <2>2 DEF HasHit, HitBy, Handler, Table, Shows
  <2> QED BY <2>1, <2>2
<1> SUFFICES ASSUME NEW l \in Loads(unit), <<unit, l>> \notin Forgotten, Stale(l)
             PROVE  MadeGood(l)'
  BY <1>1 DEF NothingMissing, Stale
<1> QED BY <1>1, <1>5 DEF ShownInv, NothingMissing, MadeGood, Coming

\* The other handlers under way are not concerned when one ends.
LEMMA OtherHitsStay ==
    ASSUME TypeInv, UNCHANGED unit, NEW s \in Slots, runs' = [runs EXCEPT ![s] = Idle],
           NEW r \in Slots \ {s}, NEW l \in Loads(unit), HasHit(r, l)
    PROVE  HasHit(r, l)'
<1>1. runs'[r] = runs[r]
  BY EndedTypes
<1> QED BY <1>1 DEF HasHit, HitBy, Handler, Table, Shows

\* What a handler has changed and does not fetch, it takes from the answer or makes
\* itself.
LEMMA FinishKeepsShown ==
    ASSUME Reloads, ShownInv, NEW s \in Slots, Finish(s) PROVE NothingMissing'
<1> DEFINE does == Handler(runs[s])
<1>1. /\ UNCHANGED unit /\ runs' = [runs EXCEPT ![s] = Idle] /\ shown' = Taken(s)
      /\ reads' = Fetched(does.anew) /\ does.lowers = "always"
      /\ runs[s].phase # "idle" /\ runs[s].step = Len(does.calls)
  BY DEF Finish, Last, Returned
<1> SUFFICES ASSUME NEW l \in Loads(unit), <<unit, l>> \notin Forgotten, Stale(l)'
             PROVE  MadeGood(l)'
  BY <1>1 DEF NothingMissing
<1>2. CASE l \in does.anew
  BY <1>1, <1>2, FetchedComes DEF ShownInv, MadeGood
<1>3. CASE l \notin does.anew
  <2>1. reads'[l] = reads[l]
    BY <1>1, <1>3, FetchedComes DEF ShownInv
  <2>2. l \notin does.takes \cup does.amends
    BY <1>1 DEF Stale, Taken
  <2>3. shown'[l] = shown[l]
    BY <1>1, <2>2 DEF Taken
  <2>4. MadeGood(l)
    BY <2>1, <2>3 DEF ShownInv, NothingMissing, Stale
  <2>5. ~HasHit(s, l)
    <3> SUFFICES ASSUME NEW k \in 1 .. runs[s].step, HitBy(does, k, l) PROVE FALSE
      BY DEF HasHit
    <3>1. unit \in DOMAIN Units /\ runs[s].does \in Handlers(unit)
          /\ does = Units[unit].handlers[runs[s].does]
      BY <1>1, UnderWayValue DEF ShownInv, TypeInv, PagesTypeOK, Handler, Table
    <3>2. k \in DOMAIN does.calls
      BY <1>1, UnderWayValue DEF ShownInv
    <3>3. {Api[c].shows : c \in Units[unit].loads[l].calls} \cap Api[does.calls[k]].changes # {}
      BY DEF HitBy, Shows, Table
    <3> HIDE DEF does
    <3> QED BY <1>1, <1>3, <2>2, <3>1, <3>2, <3>3 DEF Reloads, ReloadsItsChanges
  <2>6. CASE Coming(l)
    BY <2>1, <2>6 DEF Coming, MadeGood
  <2>7. CASE \E r \in Slots : HasHit(r, l)
    <3> PICK r \in Slots : HasHit(r, l)
      BY <2>7
    <3>1. HasHit(r, l)'
      BY <1>1, <2>5, OtherHitsStay DEF ShownInv
    <3> QED BY <3>1 DEF MadeGood
  <2> QED BY <2>4, <2>6, <2>7 DEF MadeGood
<1> QED BY <1>2, <1>3

LEMMA FailKeepsShown ==
    ASSUME ShownInv, NEW s \in Slots, Fail(s) PROVE NothingMissing'
<1> DEFINE does == Handler(runs[s])
           Hits(l) == \E k \in 1 .. runs[s].step : HitBy(does, k, l)
<1>1. /\ UNCHANGED unit /\ runs' = [runs EXCEPT ![s] = Idle]
      /\ shown' = [l \in Loads(unit) |-> IF Hits(l) THEN Missed(shown[l]) ELSE shown[l]]
      /\ reads' = [l \in Loads(unit) |-> IF Hits(l) THEN MissedAll(reads[l]) ELSE reads[l]]
  BY DEF Fail, HitBy
<1> SUFFICES ASSUME NEW l \in Loads(unit), <<unit, l>> \notin Forgotten, Stale(l)'
             PROVE  MadeGood(l)'
  BY <1>1 DEF NothingMissing
<1>2. shown[l] \in View /\ reads[l] \in Seq(Answer)
  BY DEF ShownInv, TypeInv, PagesTypeOK
<1> HIDE DEF Hits
<1>3. ~Hits(l)
  BY <1>1, <1>2, MissedValue DEF Stale
<1>4. shown'[l] = shown[l] /\ reads'[l] = reads[l]
  BY <1>1, <1>3
<1>5. MadeGood(l)
  BY <1>4 DEF ShownInv, NothingMissing, Stale
<1>6. ~HasHit(s, l)
  BY <1>3 DEF HasHit, Hits
<1>7. CASE Coming(l)
  BY <1>4, <1>7 DEF Coming, MadeGood
<1>8. CASE \E r \in Slots : HasHit(r, l)
  <2> PICK r \in Slots : HasHit(r, l)
    BY <1>8
  <2>1. HasHit(r, l)'
    BY <1>1, <1>6, OtherHitsStay DEF ShownInv
  <2> QED BY <2>1 DEF MadeGood
<1> QED BY <1>5, <1>7, <1>8 DEF MadeGood

LEMMA OpenedKeepsShown == ASSUME Opened PROVE NothingMissing'
BY DEF Opened, NothingMissing, Stale

\* Where every handler fetches or makes the changes of its calls, a part at rest shows
\* every change it has made, unless a request failed or an older answer came last
\* (refresh() after await in the panel's handlers): for any tables, any number of
\* handlers at a time and of answers on their way.
THEOREM PagesShowWhatTheyDid == ASSUME Reloads PROVE PagesSpec => []ShowsWhatItDid
<1>1. PagesInit => ShownInv
  <2> SUFFICES ASSUME PagesInit PROVE NothingMissing
    BY InitTypes DEF ShownInv
  <2> QED BY DEF PagesInit, NothingMissing, Stale
<1>2. ShownInv /\ [PagesNext]_pageVars => ShownInv'
  <2> SUFFICES ASSUME ShownInv, [PagesNext]_pageVars PROVE NothingMissing'
    BY NextTypes DEF ShownInv
  <2>1. CASE UNCHANGED pageVars
    <3>1. /\ UNCHANGED <<unit, shown, reads, runs>>
          /\ Table' = Table
      BY <2>1 DEF pageVars, Table
    <3> SUFFICES ASSUME NEW l \in Loads(unit), <<unit, l>> \notin Forgotten, Stale(l)'
                 PROVE  MadeGood(l)'
      BY <3>1 DEF NothingMissing
    <3>2. Stale(l) /\ (Coming(l) => Coming(l)')
      BY <3>1 DEF Stale, Coming
    <3>3. \A s \in Slots : HasHit(s, l) => HasHit(s, l)'
      BY <3>1 DEF HasHit, HitBy, Handler, Shows
    <3> QED BY <3>2, <3>3 DEF ShownInv, NothingMissing, MadeGood
  <2>2. CASE \E l \in Loads(unit) :
                \E k \in DOMAIN reads[l] :
                   ReadServed(l, k) \/ ReadAnswered(l, k) \/ ReadRefused(l, k)
    BY <2>2, ReadKeepsShown
  <2>3. CASE \E l \in Loads(unit) : Tick(l)
    BY <2>3, TickKeepsShown
  <2>4. CASE \E s \in Slots, h \in Handlers(unit), row \in Rows : Press(s, h, row)
    BY <2>4, PressKeepsShown
  <2>5. CASE \E s \in Slots : Serve(s) \/ Continue(s)
    BY <2>5, ServeKeepsShown, ContinueKeepsShown
  <2>6. CASE \E s \in Slots : Finish(s) \/ Fail(s)
    BY <2>6, Reloads, FinishKeepsShown, FailKeepsShown
  <2>7. CASE Opened
    BY <2>7, OpenedKeepsShown
  <2> QED BY <2>1, <2>2, <2>3, <2>4, <2>5, <2>6, <2>7 DEF PagesNext, Leave, Remount
<1>3. ShownInv => ShowsWhatItDid
  <2> SUFFICES ASSUME ShownInv, AtRest, NEW l \in Loads(unit), shown[l] = "behind"
               PROVE  <<unit, l>> \in Forgotten
    BY DEF ShowsWhatItDid
  <2>1. Stale(l)
    BY DEF Stale
  <2>2. ~Coming(l)
    BY DEF AtRest, Coming
  <2>3. \A s \in Slots : ~HasHit(s, l)
    BY IdleValue DEF AtRest, HasHit
  <2> QED BY <2>1, <2>2, <2>3 DEF ShownInv, NothingMissing, MadeGood
<1> QED BY <1>1, <1>2, <1>3, PTL DEF PagesSpec

-----------------------------------------------------------------------------
(* The tables of the panel *)

\* The two hypotheses, of one table.
GuardedTable(t) ==
    \A h \in DOMAIN t.handlers :
       LET f == t.handlers[h].flag  offer == t.offers[h] IN
       f \in DOMAIN t.flags /\ t.flags[f] \in {"page", "map"}
          => f \in offer.unless \cup offer.unlessAny

Unaffected(t, call,
    l) == {Api[c].shows : c \in t.loads[l].calls} \cap Api[call].changes = {}

RefetchingTable(t, forgotten) ==
    \A h \in DOMAIN t.handlers :
       LET does == t.handlers[h] IN
       does.lowers = "always" =>
          \A l \in DOMAIN t.loads, k \in DOMAIN does.calls :
             \/ l \in does.anew \cup does.takes \cup does.amends \cup forgotten
             \/ Unaffected(t, does.calls[k], l)

\* A call that changes nothing a load shows.
LEMMA UnaffectedBy ==
    ASSUME NEW t, NEW l, NEW c, NEW d,
           t.loads[l].calls = {d}, Api[d].shows \notin Api[c].changes
    PROVE  Unaffected(t, c, l)
  BY DEF Unaffected

\* What the words of a table stand for.
LEMMA DoesValue ==
    ASSUME NEW flag, NEW calls, NEW anew
    PROVE  /\ Does(flag, calls, anew).flag = flag
           /\ Does(flag, calls, anew).calls = calls
           /\ Does(flag, calls, anew).anew = anew
  BY DEF Does

LEMMA AsksValue ==
    ASSUME NEW flag, NEW call, NEW anew
    PROVE  /\ Asks(flag, call, anew).flag = flag
           /\ DOMAIN Asks(flag, call, anew).calls = {1}
           /\ Asks(flag, call, anew).calls[1] = call
           /\ Asks(flag, call, anew).anew = anew
  BY DEF Does, Asks

LEMMA BarsValue ==
    ASSUME NEW flag, NEW call, NEW anew
    PROVE  /\ Bars(Asks(flag, call, anew)).flag = flag
           /\ DOMAIN Bars(Asks(flag, call, anew)).calls = {1}
           /\ Bars(Asks(flag, call, anew)).calls[1] = call
           /\ Bars(Asks(flag, call, anew)).anew = anew
  BY DEF Does, Asks, Bars

LEMMA LeavesValue ==
    ASSUME NEW flag, NEW call
    PROVE  /\ Leaves(flag, call).flag = flag
           /\ Leaves(flag, call).lowers = "failed"
           /\ Bars(Leaves(flag, call)).flag = flag
           /\ Bars(Leaves(flag, call)).lowers = "failed"
  BY DEF Does, Asks, Bars, Leaves

LEMMA TakesValue ==
    ASSUME NEW flag, NEW call, NEW anew, NEW taken
    PROVE  /\ [Asks(flag, call, anew) EXCEPT !.takes = taken].flag = flag
           /\ DOMAIN [Asks(flag, call, anew) EXCEPT !.takes = taken].calls = {1}
           /\ [Asks(flag, call, anew) EXCEPT !.takes = taken].calls[1] = call
           /\ [Asks(flag, call, anew) EXCEPT !.takes = taken].takes = taken
  BY DEF Does, Asks

LEMMA AmendsValue ==
    ASSUME NEW flag, NEW call, NEW anew, NEW taken
    PROVE  /\ [Asks(flag, call, anew) EXCEPT !.amends = taken].flag = flag
           /\ DOMAIN [Asks(flag, call, anew) EXCEPT !.amends = taken].calls = {1}
           /\ [Asks(flag, call, anew) EXCEPT !.amends = taken].calls[1] = call
           /\ [Asks(flag, call, anew) EXCEPT !.amends = taken].amends = taken
  BY DEF Does, Asks

LEMMA LoadValue ==
    ASSUME NEW call, NEW refused
    PROVE  /\ Load(call, refused).calls = {call}
           /\ Timed(Load(call, refused)).calls = {call}
  BY DEF Load, Timed

LEMMA NoLoadsValue == DOMAIN NoLoads = {}
  BY DEF NoLoads

LEMMA CallValue ==
    ASSUME NEW r
    PROVE  Reads(r).shows = r /\ Reads(r).changes = {} /\ Writes(r).changes = r
  BY DEF Reads, Writes

\* Of two records without a common field each keeps its own.
LEMMA BothValue ==
    ASSUME NEW a, NEW b
    PROVE  /\ \A x \in DOMAIN a : Both(a, b)[x] = a[x]
           /\ \A x \in DOMAIN b \ DOMAIN a : Both(a, b)[x] = b[x]
  BY DEF Both

LEMMA BothDomain == ASSUME NEW a, NEW b PROVE DOMAIN Both(a, b) = DOMAIN a \cup DOMAIN b
  BY DEF Both

\* No call has an entry in two parts of Api.
LEMMA CallsApart ==
    /\ DOMAIN ServerCalls \cap DOMAIN AdminCalls = {}
    /\ (DOMAIN ServerCalls \cup DOMAIN AdminCalls) \cap DOMAIN ServerPartCalls = {}
    /\ (DOMAIN ServerCalls \cup DOMAIN AdminCalls \cup DOMAIN ServerPartCalls)
          \cap DOMAIN CatalogueCalls = {}
    /\ (DOMAIN ServerCalls \cup DOMAIN AdminCalls \cup DOMAIN ServerPartCalls
          \cup DOMAIN CatalogueCalls) \cap DOMAIN AccountCalls = {}
    /\ (DOMAIN ServerCalls \cup DOMAIN AdminCalls \cup DOMAIN ServerPartCalls
          \cup DOMAIN CatalogueCalls \cup DOMAIN AccountCalls) \cap DOMAIN StreamerCalls = {}
    /\ (DOMAIN ServerCalls \cup DOMAIN AdminCalls \cup DOMAIN ServerPartCalls
          \cup DOMAIN CatalogueCalls \cup DOMAIN AccountCalls \cup DOMAIN StreamerCalls)
          \cap DOMAIN FileCalls = {}
<1>1. \A c \in DOMAIN AdminCalls :
         c \notin DOMAIN ServerCalls
  BY DEF ServerCalls, AdminCalls
<1>2. \A c \in DOMAIN ServerPartCalls :
         /\ c \notin DOMAIN ServerCalls
         /\ c \notin DOMAIN AdminCalls
  BY DEF ServerCalls, AdminCalls, ServerPartCalls
<1>3. \A c \in DOMAIN CatalogueCalls :
         /\ c \notin DOMAIN ServerCalls
         /\ c \notin DOMAIN AdminCalls
         /\ c \notin DOMAIN ServerPartCalls
  BY DEF ServerCalls, AdminCalls, ServerPartCalls, CatalogueCalls
<1>4. \A c \in DOMAIN AccountCalls :
         /\ c \notin DOMAIN ServerCalls
         /\ c \notin DOMAIN AdminCalls
         /\ c \notin DOMAIN ServerPartCalls
         /\ c \notin DOMAIN CatalogueCalls
  BY DEF ServerCalls, AdminCalls, ServerPartCalls, CatalogueCalls, AccountCalls
<1>5. \A c \in DOMAIN StreamerCalls :
         /\ c \notin DOMAIN ServerCalls
         /\ c \notin DOMAIN AdminCalls
         /\ c \notin DOMAIN ServerPartCalls
         /\ c \notin DOMAIN CatalogueCalls
         /\ c \notin DOMAIN AccountCalls
  BY DEF ServerCalls, AdminCalls, ServerPartCalls, CatalogueCalls, AccountCalls, StreamerCalls
<1>6. \A c \in DOMAIN FileCalls :
         /\ c \notin DOMAIN ServerCalls
         /\ c \notin DOMAIN AdminCalls
         /\ c \notin DOMAIN ServerPartCalls
         /\ c \notin DOMAIN CatalogueCalls
         /\ c \notin DOMAIN AccountCalls
         /\ c \notin DOMAIN StreamerCalls
  BY DEF ServerCalls, AdminCalls, ServerPartCalls, CatalogueCalls, AccountCalls,
         StreamerCalls, FileCalls
<1> QED BY <1>1, <1>2, <1>3, <1>4, <1>5, <1>6

\* Api is each of its parts.
LEMMA ApiParts ==
    /\ \A c \in DOMAIN ServerCalls : Api[c] = ServerCalls[c]
    /\ \A c \in DOMAIN AdminCalls : Api[c] = AdminCalls[c]
    /\ \A c \in DOMAIN ServerPartCalls : Api[c] = ServerPartCalls[c]
    /\ \A c \in DOMAIN CatalogueCalls : Api[c] = CatalogueCalls[c]
    /\ \A c \in DOMAIN AccountCalls : Api[c] = AccountCalls[c]
    /\ \A c \in DOMAIN StreamerCalls : Api[c] = StreamerCalls[c]
    /\ \A c \in DOMAIN FileCalls : Api[c] = FileCalls[c]
<1> DEFINE R1 == Both(AdminCalls, Both(ServerPartCalls, Both(CatalogueCalls,
                    Both(AccountCalls, Both(StreamerCalls, Both(FileCalls,
                        SharingCalls))))))
           R2 == Both(ServerPartCalls, Both(CatalogueCalls,
                    Both(AccountCalls, Both(StreamerCalls, Both(FileCalls,
                        SharingCalls)))))
           R3 == Both(CatalogueCalls,
                    Both(AccountCalls, Both(StreamerCalls, Both(FileCalls,
                        SharingCalls))))
           R4 == Both(AccountCalls, Both(StreamerCalls, Both(FileCalls, SharingCalls)))
           R5 == Both(StreamerCalls, Both(FileCalls, SharingCalls))
           R6 == Both(FileCalls, SharingCalls)
<1>1. /\ Api = Both(ServerCalls, R1) /\ R1 = Both(AdminCalls, R2)
      /\ R2 = Both(ServerPartCalls, R3)
      /\ R3 = Both(CatalogueCalls, R4) /\ R4 = Both(AccountCalls, R5)
      /\ R5 = Both(StreamerCalls, R6) /\ R6 = Both(FileCalls, SharingCalls)
  BY DEF Api
<1> HIDE DEF R1, R2, R3, R4, R5, R6
<1>2. \A c \in DOMAIN ServerCalls : Api[c] = ServerCalls[c]
  BY <1>1, BothValue
<1>3. /\ DOMAIN R6 = DOMAIN FileCalls \cup DOMAIN SharingCalls
      /\ DOMAIN R5 = DOMAIN StreamerCalls \cup DOMAIN R6
      /\ DOMAIN R4 = DOMAIN AccountCalls \cup DOMAIN R5
      /\ DOMAIN R3 = DOMAIN CatalogueCalls \cup DOMAIN R4
      /\ DOMAIN R2 = DOMAIN ServerPartCalls \cup DOMAIN R3
      /\ DOMAIN R1 = DOMAIN AdminCalls \cup DOMAIN R2
  BY <1>1, BothDomain
<1>4. ASSUME NEW c \in DOMAIN AdminCalls PROVE Api[c] = AdminCalls[c]
  <2>1. c \in DOMAIN R1 /\ c \notin DOMAIN ServerCalls /\ Api = Both(ServerCalls, R1)
    BY <1>1, <1>3, <1>4, CallsApart
  <2>2. R1[c] = AdminCalls[c]
    BY <1>1, <1>4, BothValue
  <2> QED BY <2>1, <2>2, BothValue
<1>5. ASSUME NEW c \in DOMAIN ServerPartCalls PROVE Api[c] = ServerPartCalls[c]
  <2>1. c \in DOMAIN R1 /\ c \notin DOMAIN ServerCalls /\ Api = Both(ServerCalls, R1)
    BY <1>1, <1>3, <1>5, CallsApart
  <2>2. c \in DOMAIN R2 /\ c \notin DOMAIN AdminCalls /\ R1 = Both(AdminCalls, R2)
    BY <1>1, <1>3, <1>5, CallsApart
  <2>3. R2[c] = ServerPartCalls[c]
    BY <1>1, <1>5, BothValue
  <2> QED BY <2>1, <2>2, <2>3, BothValue
<1>6. ASSUME NEW c \in DOMAIN CatalogueCalls PROVE Api[c] = CatalogueCalls[c]
  <2>1. c \in DOMAIN R1 /\ c \notin DOMAIN ServerCalls /\ Api = Both(ServerCalls, R1)
    BY <1>1, <1>3, <1>6, CallsApart
  <2>2. c \in DOMAIN R2 /\ c \notin DOMAIN AdminCalls /\ R1 = Both(AdminCalls, R2)
    BY <1>1, <1>3, <1>6, CallsApart
  <2>3. c \in DOMAIN R3 /\ c \notin DOMAIN ServerPartCalls /\ R2 = Both(ServerPartCalls, R3)
    BY <1>1, <1>3, <1>6, CallsApart
  <2>4. R3[c] = CatalogueCalls[c]
    BY <1>1, <1>6, BothValue
  <2> QED BY <2>1, <2>2, <2>3, <2>4, BothValue
<1>7. ASSUME NEW c \in DOMAIN AccountCalls PROVE Api[c] = AccountCalls[c]
  <2>1. c \in DOMAIN R1 /\ c \notin DOMAIN ServerCalls /\ Api = Both(ServerCalls, R1)
    BY <1>1, <1>3, <1>7, CallsApart
  <2>2. c \in DOMAIN R2 /\ c \notin DOMAIN AdminCalls /\ R1 = Both(AdminCalls, R2)
    BY <1>1, <1>3, <1>7, CallsApart
  <2>3. c \in DOMAIN R3 /\ c \notin DOMAIN ServerPartCalls /\ R2 = Both(ServerPartCalls, R3)
    BY <1>1, <1>3, <1>7, CallsApart
  <2>4. c \in DOMAIN R4 /\ c \notin DOMAIN CatalogueCalls /\ R3 = Both(CatalogueCalls, R4)
    BY <1>1, <1>3, <1>7, CallsApart
  <2>5. R4[c] = AccountCalls[c]
    BY <1>1, <1>7, BothValue
  <2> QED BY <2>1, <2>2, <2>3, <2>4, <2>5, BothValue
<1>8. ASSUME NEW c \in DOMAIN StreamerCalls PROVE Api[c] = StreamerCalls[c]
  <2>1. c \in DOMAIN R1 /\ c \notin DOMAIN ServerCalls /\ Api = Both(ServerCalls, R1)
    BY <1>1, <1>3, <1>8, CallsApart
  <2>2. c \in DOMAIN R2 /\ c \notin DOMAIN AdminCalls /\ R1 = Both(AdminCalls, R2)
    BY <1>1, <1>3, <1>8, CallsApart
  <2>3. c \in DOMAIN R3 /\ c \notin DOMAIN ServerPartCalls /\ R2 = Both(ServerPartCalls, R3)
    BY <1>1, <1>3, <1>8, CallsApart
  <2>4. c \in DOMAIN R4 /\ c \notin DOMAIN CatalogueCalls /\ R3 = Both(CatalogueCalls, R4)
    BY <1>1, <1>3, <1>8, CallsApart
  <2>5. c \in DOMAIN R5 /\ c \notin DOMAIN AccountCalls /\ R4 = Both(AccountCalls, R5)
    BY <1>1, <1>3, <1>8, CallsApart
  <2>6. R5[c] = StreamerCalls[c]
    BY <1>1, <1>8, BothValue
  <2> QED BY <2>1, <2>2, <2>3, <2>4, <2>5, <2>6, BothValue
<1>9. ASSUME NEW c \in DOMAIN FileCalls PROVE Api[c] = FileCalls[c]
  <2>1. c \in DOMAIN R1 /\ c \notin DOMAIN ServerCalls /\ Api = Both(ServerCalls, R1)
    BY <1>1, <1>3, <1>9, CallsApart
  <2>2. c \in DOMAIN R2 /\ c \notin DOMAIN AdminCalls /\ R1 = Both(AdminCalls, R2)
    BY <1>1, <1>3, <1>9, CallsApart
  <2>3. c \in DOMAIN R3 /\ c \notin DOMAIN ServerPartCalls /\ R2 = Both(ServerPartCalls, R3)
    BY <1>1, <1>3, <1>9, CallsApart
  <2>4. c \in DOMAIN R4 /\ c \notin DOMAIN CatalogueCalls /\ R3 = Both(CatalogueCalls, R4)
    BY <1>1, <1>3, <1>9, CallsApart
  <2>5. c \in DOMAIN R5 /\ c \notin DOMAIN AccountCalls /\ R4 = Both(AccountCalls, R5)
    BY <1>1, <1>3, <1>9, CallsApart
  <2>6. c \in DOMAIN R6 /\ c \notin DOMAIN StreamerCalls /\ R5 = Both(StreamerCalls, R6)
    BY <1>1, <1>3, <1>9, CallsApart
  <2>7. R6[c] = FileCalls[c]
    BY <1>1, <1>9, BothValue
  <2> QED BY <2>1, <2>2, <2>3, <2>4, <2>5, <2>6, <2>7, BothValue
<1> QED BY <1>2, <1>4, <1>5, <1>6, <1>7, <1>8, <1>9
\* The calls that the tables below tell apart.
LEMMA ApiValue ==
    /\ Api["listServers"].shows = "servers"
    /\ Api["getServer"].shows = "server"
    /\ Api["createServer"].changes = {"servers", "allocations"}
    /\ Api["updateServer"].changes = {"servers", "server"}
    /\ Api["power"].changes = {}
    /\ Api["suspendServer"].changes = {"servers", "server"}
    /\ Api["unsuspendServer"].changes = {"servers", "server"}
    /\ Api["listNodes"].shows = "nodes"
    /\ Api["regenerateNodeToken"].changes = {}
    /\ Api["checkNodeStatus"].changes = {}
    /\ Api["listUsers"].shows = "users"
    /\ Api["resetUserPassword"].changes = {}
    /\ Api["listDatabaseHosts"].shows = "hosts"
    /\ Api["createServerDatabase"].changes = {"databases"}
    /\ Api["deleteServerDatabase"].changes = {"databases"}
    /\ Api["listServerAllocations"].shows = "ports"
    /\ Api["createServerAllocation"].changes = {"ports", "allocations"}
    /\ Api["createServerDomain"].changes = {"domains"}
    /\ Api["deleteServerDomain"].changes = {"domains"}
    /\ Api["listServerBackups"].shows = "backups"
    /\ Api["createServerBackup"].changes = {"backups"}
    /\ Api["restoreServerBackup"].changes = {"files"}
    /\ Api["downloadServerBackup"].changes = {}
    /\ Api["getVersion"].shows = "version"
    /\ Api["checkUpdate"].changes = {}
    /\ Api["listActivity"].shows = "activity"
    /\ Api["listActivity"].changes = {}
    /\ Api["listEggs"].shows = "eggs"
    /\ Api["listAllocations"].shows = "allocations"
    /\ Api["me"].shows = "me"
    /\ Api["get2FAStatus"].shows = "twofa"
    /\ Api["setup2FA"].changes = {}
    /\ Api["getTwitchStatus"].shows = "twitch"
    /\ Api["sendTwitchTestAlert"].changes = {}
    /\ Api["getStripeStatus"].shows = "stripe"
    /\ Api["getStreamerAnalytics"].shows = "analytics"
    /\ Api["listStreamSessions"].shows = "sessions"
    /\ Api["getStreamSession"].changes = {}
    /\ Api["getTwitchBotStatus"].shows = "bot"
    /\ Api["disconnectTwitchBot"].changes = {"bot"}
    /\ Api["listBotCommands"].shows = "commands"
    /\ Api["saveBotCommand"].changes = {"commands"}
    /\ Api["deleteBotCommand"].changes = {"commands"}
    /\ Api["listFiles"].shows = "files"
    /\ Api["readFile"].changes = {}
    /\ Api["downloadFile"].changes = {}
<1>1. /\ Api["listServers"].shows = "servers"
      /\ Api["getServer"].shows = "server"
      /\ Api["createServer"].changes = {"servers", "allocations"}
      /\ Api["updateServer"].changes = {"servers", "server"}
      /\ Api["power"].changes = {}
      /\ Api["suspendServer"].changes = {"servers", "server"}
      /\ Api["unsuspendServer"].changes = {"servers", "server"}
  <2>1. {"listServers", "getServer", "createServer", "updateServer", "power",
         "suspendServer", "unsuspendServer"}
          \subseteq DOMAIN ServerCalls
    BY DEF ServerCalls
  <2>2. /\ ServerCalls["listServers"] = Reads("servers")
        /\ ServerCalls["getServer"] = Reads("server")
        /\ ServerCalls["createServer"] = Writes({"servers", "allocations"})
        /\ ServerCalls["updateServer"] = Writes({"servers", "server"})
    BY DEF ServerCalls
  <2>3. /\ ServerCalls["power"] = Writes({})
        /\ ServerCalls["suspendServer"] = Writes({"servers", "server"})
        /\ ServerCalls["unsuspendServer"] = Writes({"servers", "server"})
    BY DEF ServerCalls
  <2>4. /\ Api["listServers"] = ServerCalls["listServers"]
        /\ Api["getServer"] = ServerCalls["getServer"]
        /\ Api["createServer"] = ServerCalls["createServer"]
        /\ Api["updateServer"] = ServerCalls["updateServer"]
        /\ Api["power"] = ServerCalls["power"]
        /\ Api["suspendServer"] = ServerCalls["suspendServer"]
        /\ Api["unsuspendServer"] = ServerCalls["unsuspendServer"]
    BY <2>1, ApiParts
  <2> QED BY <2>2, <2>3, <2>4, CallValue
<1>2. /\ Api["listNodes"].shows = "nodes"
      /\ Api["regenerateNodeToken"].changes = {}
      /\ Api["checkNodeStatus"].changes = {}
      /\ Api["listUsers"].shows = "users"
      /\ Api["resetUserPassword"].changes = {}
      /\ Api["listDatabaseHosts"].shows = "hosts"
  <2>1. {"listNodes", "regenerateNodeToken", "checkNodeStatus", "listUsers",
         "resetUserPassword", "listDatabaseHosts"}
          \subseteq DOMAIN AdminCalls
    BY DEF AdminCalls
  <2>2. /\ AdminCalls["listNodes"] = Reads("nodes")
        /\ AdminCalls["regenerateNodeToken"] = Writes({})
        /\ AdminCalls["checkNodeStatus"] = Reads("nodeStatus")
        /\ AdminCalls["listUsers"] = Reads("users")
    BY DEF AdminCalls
  <2>3. /\ AdminCalls["resetUserPassword"] = Writes({})
        /\ AdminCalls["listDatabaseHosts"] = Reads("hosts")
    BY DEF AdminCalls
  <2>4. /\ Api["listNodes"] = AdminCalls["listNodes"]
        /\ Api["regenerateNodeToken"] = AdminCalls["regenerateNodeToken"]
        /\ Api["checkNodeStatus"] = AdminCalls["checkNodeStatus"]
        /\ Api["listUsers"] = AdminCalls["listUsers"]
        /\ Api["resetUserPassword"] = AdminCalls["resetUserPassword"]
        /\ Api["listDatabaseHosts"] = AdminCalls["listDatabaseHosts"]
    BY <2>1, ApiParts
  <2> QED BY <2>2, <2>3, <2>4, CallValue
<1>3. /\ Api["createServerDatabase"].changes = {"databases"}
      /\ Api["deleteServerDatabase"].changes = {"databases"}
      /\ Api["listServerAllocations"].shows = "ports"
      /\ Api["createServerAllocation"].changes = {"ports", "allocations"}
      /\ Api["createServerDomain"].changes = {"domains"}
      /\ Api["deleteServerDomain"].changes = {"domains"}
      /\ Api["listServerBackups"].shows = "backups"
    /\ Api["createServerBackup"].changes = {"backups"}
      /\ Api["createServerBackup"].changes = {"backups"}
      /\ Api["restoreServerBackup"].changes = {"files"}
      /\ Api["downloadServerBackup"].changes = {}
  <2>1. {"createServerDatabase", "deleteServerDatabase", "listServerAllocations",
         "createServerAllocation", "createServerDomain", "deleteServerDomain",
         "listServerBackups", "createServerBackup", "restoreServerBackup", "downloadServerBackup"}
          \subseteq DOMAIN ServerPartCalls
    BY DEF ServerPartCalls
  <2>2. /\ ServerPartCalls["createServerDatabase"] = Writes({"databases"})
        /\ ServerPartCalls["deleteServerDatabase"] = Writes({"databases"})
        /\ ServerPartCalls["listServerAllocations"] = Reads("ports")
        /\ ServerPartCalls["createServerAllocation"] = Writes({"ports", "allocations"})
    BY DEF ServerPartCalls
  <2>3. /\ ServerPartCalls["createServerDomain"] = Writes({"domains"})
        /\ ServerPartCalls["deleteServerDomain"] = Writes({"domains"})
        /\ ServerPartCalls["listServerBackups"] = Reads("backups")
        /\ ServerPartCalls["restoreServerBackup"] = Writes({"files"})
    BY DEF ServerPartCalls
  <2>4. /\ ServerPartCalls["createServerBackup"] = Writes({"backups"})
        /\ ServerPartCalls["downloadServerBackup"] = Reads("archive")
    BY DEF ServerPartCalls
  <2>5. /\ Api["createServerDatabase"] = ServerPartCalls["createServerDatabase"]
        /\ Api["deleteServerDatabase"] = ServerPartCalls["deleteServerDatabase"]
        /\ Api["listServerAllocations"] = ServerPartCalls["listServerAllocations"]
        /\ Api["createServerAllocation"] = ServerPartCalls["createServerAllocation"]
        /\ Api["createServerDomain"] = ServerPartCalls["createServerDomain"]
        /\ Api["deleteServerDomain"] = ServerPartCalls["deleteServerDomain"]
        /\ Api["listServerBackups"] = ServerPartCalls["listServerBackups"]
        /\ Api["createServerBackup"] = ServerPartCalls["createServerBackup"]
        /\ Api["restoreServerBackup"] = ServerPartCalls["restoreServerBackup"]
        /\ Api["downloadServerBackup"] = ServerPartCalls["downloadServerBackup"]
    BY <2>1, ApiParts
  <2> QED BY <2>2, <2>3, <2>4, <2>5, CallValue
<1>4. /\ Api["getVersion"].shows = "version"
      /\ Api["checkUpdate"].changes = {}
      /\ Api["listActivity"].shows = "activity"
      /\ Api["listActivity"].changes = {}
      /\ Api["listEggs"].shows = "eggs"
      /\ Api["listAllocations"].shows = "allocations"
  <2>1. {"getVersion", "checkUpdate", "listActivity", "listEggs", "listAllocations"}
          \subseteq DOMAIN CatalogueCalls
    BY DEF CatalogueCalls
  <2>2. /\ CatalogueCalls["getVersion"] = Reads("version")
        /\ CatalogueCalls["checkUpdate"] = Reads("update")
        /\ CatalogueCalls["listActivity"] = Reads("activity")
        /\ CatalogueCalls["listEggs"] = Reads("eggs")
    BY DEF CatalogueCalls
  <2>3. /\ CatalogueCalls["listAllocations"] = Reads("allocations")
    BY DEF CatalogueCalls
  <2>4. /\ Api["getVersion"] = CatalogueCalls["getVersion"]
        /\ Api["checkUpdate"] = CatalogueCalls["checkUpdate"]
        /\ Api["listActivity"] = CatalogueCalls["listActivity"]
        /\ Api["listEggs"] = CatalogueCalls["listEggs"]
        /\ Api["listAllocations"] = CatalogueCalls["listAllocations"]
    BY <2>1, ApiParts
  <2> QED BY <2>2, <2>3, <2>4, CallValue
<1>5. /\ Api["me"].shows = "me"
      /\ Api["get2FAStatus"].shows = "twofa"
      /\ Api["setup2FA"].changes = {}
  <2>1. {"me", "get2FAStatus", "setup2FA"}
          \subseteq DOMAIN AccountCalls
    BY DEF AccountCalls
  <2>2. /\ AccountCalls["me"] = Reads("me")
        /\ AccountCalls["get2FAStatus"] = Reads("twofa")
        /\ AccountCalls["setup2FA"] = Writes({})
    BY DEF AccountCalls
  <2>3. /\ Api["me"] = AccountCalls["me"]
        /\ Api["get2FAStatus"] = AccountCalls["get2FAStatus"]
        /\ Api["setup2FA"] = AccountCalls["setup2FA"]
    BY <2>1, ApiParts
  <2> QED BY <2>2, <2>3, CallValue
<1>6. /\ Api["getTwitchStatus"].shows = "twitch"
      /\ Api["sendTwitchTestAlert"].changes = {}
      /\ Api["getStripeStatus"].shows = "stripe"
      /\ Api["getStreamerAnalytics"].shows = "analytics"
      /\ Api["listStreamSessions"].shows = "sessions"
      /\ Api["getStreamSession"].changes = {}
      /\ Api["getTwitchBotStatus"].shows = "bot"
      /\ Api["disconnectTwitchBot"].changes = {"bot"}
      /\ Api["listBotCommands"].shows = "commands"
      /\ Api["saveBotCommand"].changes = {"commands"}
      /\ Api["deleteBotCommand"].changes = {"commands"}
  <2>1. {"getTwitchStatus", "sendTwitchTestAlert", "getStripeStatus",
         "getStreamerAnalytics", "listStreamSessions", "getStreamSession",
         "getTwitchBotStatus", "disconnectTwitchBot", "listBotCommands",
         "saveBotCommand", "deleteBotCommand"}
          \subseteq DOMAIN StreamerCalls
    BY DEF StreamerCalls
  <2>2. /\ StreamerCalls["getTwitchStatus"] = Reads("twitch")
        /\ StreamerCalls["sendTwitchTestAlert"] = Writes({})
        /\ StreamerCalls["getStripeStatus"] = Reads("stripe")
        /\ StreamerCalls["getStreamerAnalytics"] = Reads("analytics")
    BY DEF StreamerCalls
  <2>3. /\ StreamerCalls["listStreamSessions"] = Reads("sessions")
        /\ StreamerCalls["getStreamSession"] = Reads("session")
        /\ StreamerCalls["getTwitchBotStatus"] = Reads("bot")
        /\ StreamerCalls["disconnectTwitchBot"] = Writes({"bot"})
    BY DEF StreamerCalls
  <2>4. /\ StreamerCalls["listBotCommands"] = Reads("commands")
        /\ StreamerCalls["saveBotCommand"] = Writes({"commands"})
        /\ StreamerCalls["deleteBotCommand"] = Writes({"commands"})
    BY DEF StreamerCalls
  <2>5. /\ Api["getTwitchStatus"] = StreamerCalls["getTwitchStatus"]
        /\ Api["sendTwitchTestAlert"] = StreamerCalls["sendTwitchTestAlert"]
        /\ Api["getStripeStatus"] = StreamerCalls["getStripeStatus"]
        /\ Api["getStreamerAnalytics"] = StreamerCalls["getStreamerAnalytics"]
        /\ Api["listStreamSessions"] = StreamerCalls["listStreamSessions"]
        /\ Api["getStreamSession"] = StreamerCalls["getStreamSession"]
        /\ Api["getTwitchBotStatus"] = StreamerCalls["getTwitchBotStatus"]
        /\ Api["disconnectTwitchBot"] = StreamerCalls["disconnectTwitchBot"]
        /\ Api["listBotCommands"] = StreamerCalls["listBotCommands"]
        /\ Api["saveBotCommand"] = StreamerCalls["saveBotCommand"]
        /\ Api["deleteBotCommand"] = StreamerCalls["deleteBotCommand"]
    BY <2>1, ApiParts
  <2> QED BY <2>2, <2>3, <2>4, <2>5, CallValue
<1>7. /\ Api["listFiles"].shows = "files"
      /\ Api["readFile"].changes = {}
      /\ Api["downloadFile"].changes = {}
  <2>1. {"listFiles", "readFile", "downloadFile"}
          \subseteq DOMAIN FileCalls
    BY DEF FileCalls
  <2>2. /\ FileCalls["listFiles"] = Reads("files")
        /\ FileCalls["readFile"] = Reads("file")
        /\ FileCalls["downloadFile"] = Reads("file")
    BY DEF FileCalls
  <2>3. /\ Api["listFiles"] = FileCalls["listFiles"]
        /\ Api["readFile"] = FileCalls["readFile"]
        /\ Api["downloadFile"] = FileCalls["downloadFile"]
    BY <2>1, ApiParts
  <2> QED BY <2>2, <2>3, CallValue
<1> QED BY <1>1, <1>2, <1>3, <1>4, <1>5, <1>6, <1>7

LEMMA BackupManagerHolds ==
    GuardedTable(BackupManager) /\ RefetchingTable(BackupManager, {})
<1>1. GuardedTable(BackupManager)
  BY AsksValue DEF GuardedTable, BackupManager, BackupManagerOffers, FormIn, Row, Offer
<1>2. RefetchingTable(BackupManager, {})
  <2>1. /\ BackupManager.loads["refresh"].calls = {"listServerBackups"}
    BY LoadValue DEF BackupManager
  <2>2. /\ Unaffected(BackupManager, "restoreServerBackup", "refresh")
        /\ Unaffected(BackupManager, "downloadServerBackup", "refresh")
    BY ZenonT(40), <2>1, ApiValue, UnaffectedBy
  <2> QED BY <2>2, AsksValue DEF RefetchingTable, BackupManager
<1> QED BY <1>1, <1>2

LEMMA ScheduleManagerHolds ==
    GuardedTable(ScheduleManager) /\ RefetchingTable(ScheduleManager, {})
<1>1. GuardedTable(ScheduleManager)
  BY AsksValue DEF GuardedTable, ScheduleManager, ScheduleManagerOffers, Form, Row, Offer
<1>2. RefetchingTable(ScheduleManager, {})
  BY AsksValue DEF RefetchingTable, ScheduleManager
<1> QED BY <1>1, <1>2

LEMMA PortManagerHolds ==
    GuardedTable(PortManager) /\ RefetchingTable(PortManager, {})
<1>1. GuardedTable(PortManager)
  BY AsksValue, TakesValue
  DEF GuardedTable, PortManager, PortManagerOffers, FormIn, Row, Offer
<1>2. RefetchingTable(PortManager, {})
  <2>3. /\ DOMAIN PortManager.handlers = {"handleCreate", "handleDelete"}
        /\ DOMAIN PortManager.loads = {"refresh"}
        /\ PortManager.handlers["handleCreate"] = [Asks("submitting",
            "createServerAllocation", {}) EXCEPT !.takes = {"refresh"}]
        /\ PortManager.handlers["handleDelete"] = Asks("deletingId",
            "deleteServerAllocation", {"refresh"})
    BY DEF PortManager
  <2>4. /\ DOMAIN PortManager.handlers["handleCreate"].calls = {1}
        /\ PortManager.handlers["handleCreate"].calls[1] = "createServerAllocation"
        /\ PortManager.handlers["handleCreate"].takes = {"refresh"}
        /\ DOMAIN PortManager.handlers["handleDelete"].calls = {1}
        /\ PortManager.handlers["handleDelete"].calls[1] = "deleteServerAllocation"
        /\ PortManager.handlers["handleDelete"].anew = {"refresh"}
    BY <2>3, AsksValue, TakesValue
  <2> QED BY <2>3, <2>4 DEF RefetchingTable
<1> QED BY <1>1, <1>2

LEMMA DatabaseManagerHolds ==
    GuardedTable(DatabaseManager) /\ RefetchingTable(DatabaseManager, {})
<1>1. GuardedTable(DatabaseManager)
  BY AsksValue DEF GuardedTable, DatabaseManager, DatabaseManagerOffers, Row, Offer
<1>2. RefetchingTable(DatabaseManager, {})
  <2>1. /\ DatabaseManager.loads["hosts"].calls = {"listDatabaseHosts"}
    BY LoadValue DEF DatabaseManager
  <2>2. /\ Unaffected(DatabaseManager, "createServerDatabase", "hosts")
        /\ Unaffected(DatabaseManager, "deleteServerDatabase", "hosts")
    BY <2>1, ApiValue, UnaffectedBy
  <2> QED BY <2>2, AsksValue DEF RefetchingTable, DatabaseManager
<1> QED BY <1>1, <1>2

LEMMA DomainManagerHolds ==
    GuardedTable(DomainManager) /\ RefetchingTable(DomainManager, {})
<1>1. GuardedTable(DomainManager)
  BY AsksValue DEF GuardedTable, DomainManager, DomainManagerOffers, Row, Offer
<1>2. RefetchingTable(DomainManager, {})
  <2>1. /\ DomainManager.loads["allocations"].calls = {"listServerAllocations"}
    BY LoadValue DEF DomainManager
  <2>2. /\ Unaffected(DomainManager, "createServerDomain", "allocations")
        /\ Unaffected(DomainManager, "deleteServerDomain", "allocations")
    BY <2>1, ApiValue, UnaffectedBy
  <2> QED BY <2>2, AsksValue DEF RefetchingTable, DomainManager
<1> QED BY <1>1, <1>2

LEMMA SubuserManagerHolds ==
    GuardedTable(SubuserManager) /\ RefetchingTable(SubuserManager, {})
<1>1. GuardedTable(SubuserManager)
  BY AsksValue DEF GuardedTable, SubuserManager, SubuserManagerOffers, FormIn, Row, Offer
<1>2. RefetchingTable(SubuserManager, {})
  BY AsksValue DEF RefetchingTable, SubuserManager
<1> QED BY <1>1, <1>2

LEMMA FileManagerHolds ==
    GuardedTable(FileManager) /\ RefetchingTable(FileManager, {})
<1>1. GuardedTable(FileManager)
  BY AsksValue DEF GuardedTable, FileManager, FileManagerOffers, Form, Row, Offer
<1>2. RefetchingTable(FileManager, {})
  <2>1. /\ FileManager.loads["refresh"].calls = {"listFiles"}
    BY LoadValue DEF FileManager
  <2>2. /\ Unaffected(FileManager, "downloadFile", "refresh")
        /\ Unaffected(FileManager, "readFile", "refresh")
    BY ZenonT(40), <2>1, ApiValue, UnaffectedBy
  <2> QED BY <2>2, AsksValue DEF RefetchingTable, FileManager
<1> QED BY <1>1, <1>2

LEMMA PowerGridHolds ==
    GuardedTable(PowerGrid) /\ RefetchingTable(PowerGrid, {})
<1>1. GuardedTable(PowerGrid)
  BY BarsValue DEF GuardedTable, PowerGrid, PowerGridOffers, FormIn, Offer
<1>2. RefetchingTable(PowerGrid, {})
  <2>1. /\ PowerGrid.loads["refresh"].calls = {"getServer"}
    BY LoadValue DEF PowerGrid
  <2>2. /\ Unaffected(PowerGrid, "power", "refresh")
    BY ZenonT(40), <2>1, ApiValue, UnaffectedBy
  <2>3. /\ DOMAIN PowerGrid.handlers = {"handlePower"}
        /\ DOMAIN PowerGrid.loads = {"refresh"}
        /\ PowerGrid.handlers["handlePower"] = Bars(Asks("pendingAction", "power", {}))
    BY DEF PowerGrid
  <2>4. /\ DOMAIN PowerGrid.handlers["handlePower"].calls = {1}
        /\ PowerGrid.handlers["handlePower"].calls[1] = "power"
        /\ PowerGrid.handlers["handlePower"].anew = {}
    BY <2>3, BarsValue
  <2> QED BY <2>2, <2>3, <2>4 DEF RefetchingTable
<1> QED BY <1>1, <1>2

LEMMA ServerViewHolds ==
    GuardedTable(ServerView) /\ RefetchingTable(ServerView, {})
<1>1. GuardedTable(ServerView)
  BY AsksValue, BarsValue, LeavesValue, BothValue
  DEF GuardedTable, ServerView, EditInfoOffers, DangerOffers, FormIn, Offer
<1>2. RefetchingTable(ServerView, {})
  <2>1. /\ ServerView.loads["eggs"].calls = {"listEggs"}
    BY LoadValue DEF ServerView
  <2>2. /\ Unaffected(ServerView, "updateServer", "eggs")
        /\ Unaffected(ServerView, "suspendServer", "eggs")
    BY <2>1, ApiValue, UnaffectedBy
  <2>3. /\ DOMAIN ServerView.handlers = {"handleSuspendToggle", "handleDelete",
           "handleSaveInfo"}
        /\ DOMAIN ServerView.loads = {"refresh", "eggs"}
        /\ ServerView.handlers["handleSuspendToggle"] = Bars(Asks("suspending",
            "suspendServer", {"refresh"}))
        /\ ServerView.handlers["handleDelete"] = Bars(Leaves("deleting", "deleteServer"))
        /\ ServerView.handlers["handleSaveInfo"] = Asks("savingInfo", "updateServer",
            {"refresh"})
    BY DEF ServerView
  <2>4. /\ DOMAIN ServerView.handlers["handleSuspendToggle"].calls = {1}
        /\ ServerView.handlers["handleSuspendToggle"].calls[1] = "suspendServer"
        /\ ServerView.handlers["handleSuspendToggle"].anew = {"refresh"}
        /\ ServerView.handlers["handleDelete"].lowers = "failed"
        /\ DOMAIN ServerView.handlers["handleSaveInfo"].calls = {1}
        /\ ServerView.handlers["handleSaveInfo"].calls[1] = "updateServer"
        /\ ServerView.handlers["handleSaveInfo"].anew = {"refresh"}
    BY <2>3, AsksValue, BarsValue, LeavesValue
  <2> QED BY <2>2, <2>3, <2>4 DEF RefetchingTable
<1> QED BY <1>1, <1>2

LEMMA ProxyKeysHolds ==
    GuardedTable(ProxyKeys) /\ RefetchingTable(ProxyKeys, {})
<1>1. GuardedTable(ProxyKeys)
  BY DoesValue DEF GuardedTable, ProxyKeys, ProxyKeysOffers, FormIn, Row, Offer
<1>2. RefetchingTable(ProxyKeys, {})
  <2>3. /\ DOMAIN ProxyKeys.handlers = {"addProxyKey", "deleteProxyKey"}
        /\ DOMAIN ProxyKeys.loads = {"refresh"}
        /\ ProxyKeys.handlers["addProxyKey"] = Does("keyBusy", <<"writeFile",
            "power">>, {"refresh"})
        /\ ProxyKeys.handlers["deleteProxyKey"] = Does("keyBusy", <<"writeFile",
            "power">>, {"refresh"})
    BY DEF ProxyKeys
  <2>4. /\ DOMAIN ProxyKeys.handlers["addProxyKey"].calls = 1 .. 2
        /\ ProxyKeys.handlers["addProxyKey"].calls[1] = "writeFile"
        /\ ProxyKeys.handlers["addProxyKey"].calls[2] = "power"
        /\ ProxyKeys.handlers["addProxyKey"].anew = {"refresh"}
        /\ DOMAIN ProxyKeys.handlers["deleteProxyKey"].calls = 1 .. 2
        /\ ProxyKeys.handlers["deleteProxyKey"].calls[1] = "writeFile"
        /\ ProxyKeys.handlers["deleteProxyKey"].calls[2] = "power"
        /\ ProxyKeys.handlers["deleteProxyKey"].anew = {"refresh"}
    BY <2>3, DoesValue
  <2> QED BY <2>3, <2>4 DEF RefetchingTable
<1> QED BY <1>1, <1>2

\* What RunBulk stands for.
LEMMA RunBulkValue ==
    ASSUME NEW call
    PROVE  /\ RunBulk(call).flag = "bulkBusy"
           /\ DOMAIN RunBulk(call).calls = 1 .. 2
           /\ \A k \in 1 .. 2 : RunBulk(call).calls[k] = call
  BY DEF RunBulk, Settles, Does

LEMMA ServerListHolds ==
    GuardedTable(ServerList) /\ RefetchingTable(ServerList, {"refresh"})
<1>1. /\ DOMAIN ServerList.handlers = {"handlePower", "bulkPower", "bulkBackup",
         "bulkSuspend", "bulkUnsuspend"}
      /\ ServerList.handlers["handlePower"] = Bars(Asks("pendingActions", "power", {}))
      /\ ServerList.handlers["bulkPower"] = RunBulk("power")
      /\ ServerList.handlers["bulkBackup"] = RunBulk("createServerBackup")
      /\ ServerList.handlers["bulkSuspend"] = RunBulk("suspendServer")
      /\ ServerList.handlers["bulkUnsuspend"] = RunBulk("unsuspendServer")
  BY DEF ServerList
<1>2. GuardedTable(ServerList)
  <2>1. \A h \in DOMAIN BulkOffers : ServerList.offers[h] = BulkOffers[h]
    BY BothValue DEF ServerList, ServerCardOffers, BulkOffers
  <2>2. ServerList.offers["handlePower"].unless = {"pendingActions"}
    BY BothValue DEF ServerList, ServerCardOffers, Row, Offer
  <2>3. \A h \in DOMAIN BulkOffers : ServerList.offers[h].unless = {"bulkBusy"}
    BY <2>1 DEF BulkOffers, FormIn, Offer
  <2>4. ServerList.handlers["handlePower"].flag = "pendingActions"
    BY <1>1, AsksValue, BarsValue
  <2>5. \A h \in DOMAIN BulkOffers : ServerList.handlers[h].flag = "bulkBusy"
    BY <1>1, RunBulkValue DEF BulkOffers
  <2>6. DOMAIN ServerList.handlers = {"handlePower"} \cup DOMAIN BulkOffers
    BY <1>1 DEF BulkOffers
  <2> QED BY <2>2, <2>3, <2>4, <2>5, <2>6 DEF GuardedTable
<1>3. RefetchingTable(ServerList, {"refresh"})
  <2>1. ServerList.loads["me"].calls = {"me"} /\ DOMAIN ServerList.loads = {"refresh", "me"}
    BY LoadValue DEF ServerList
  <2>2. \A c \in {"power", "createServerBackup", "suspendServer", "unsuspendServer"} :
           Unaffected(ServerList, c, "me")
    BY <2>1, ApiValue DEF Unaffected
  <2>3. \A h \in DOMAIN ServerList.handlers : \A k \in DOMAIN ServerList.handlers[h].calls :
           ServerList.handlers[h].calls[k]
              \in {"power", "createServerBackup", "suspendServer", "unsuspendServer"}
    BY <1>1, AsksValue, BarsValue, RunBulkValue
  <2> QED BY <2>1, <2>2, <2>3 DEF RefetchingTable
<1> QED BY <1>2, <1>3

LEMMA CreateServerFormHolds ==
    GuardedTable(CreateServerForm) /\ RefetchingTable(CreateServerForm, {"allocations"})
<1>1. GuardedTable(CreateServerForm)
  BY AsksValue, DoesValue
  DEF GuardedTable, CreateServerForm, CreateServerFormOffers, Offer
<1>2. RefetchingTable(CreateServerForm, {"allocations"})
  <2>1. /\ CreateServerForm.loads["eggs"].calls = {"listEggs"}
        /\ CreateServerForm.loads["nodes"].calls = {"listNodes"}
    BY LoadValue DEF CreateServerForm
  <2>2. /\ Unaffected(CreateServerForm, "createServer", "eggs")
        /\ Unaffected(CreateServerForm, "createServer", "nodes")
        /\ Unaffected(CreateServerForm, "createServerAllocation", "eggs")
        /\ Unaffected(CreateServerForm, "createServerAllocation", "nodes")
    BY <2>1, ApiValue, UnaffectedBy
  <2>3. /\ DOMAIN CreateServerForm.handlers = {"handleSubmit", "handleSubmitWithPort"}
        /\ DOMAIN CreateServerForm.loads = {"nodes", "eggs", "allocations", "onCreated"}
        /\ CreateServerForm.handlers["handleSubmit"] = Asks("submitting",
            "createServer", {"onCreated"})
        /\ CreateServerForm.handlers["handleSubmitWithPort"] = Does("submitting",
            <<"createServer", "createServerAllocation">>, {"onCreated"})
    BY DEF CreateServerForm
  <2>4. /\ DOMAIN CreateServerForm.handlers["handleSubmit"].calls = {1}
        /\ CreateServerForm.handlers["handleSubmit"].calls[1] = "createServer"
        /\ CreateServerForm.handlers["handleSubmit"].anew = {"onCreated"}
        /\ DOMAIN CreateServerForm.handlers["handleSubmitWithPort"].calls = 1 .. 2
        /\ CreateServerForm.handlers["handleSubmitWithPort"].calls[1] = "createServer"
        /\ CreateServerForm.handlers["handleSubmitWithPort"].calls[2] = "createServerAllocation"
        /\ CreateServerForm.handlers["handleSubmitWithPort"].anew = {"onCreated"}
    BY <2>3, AsksValue, DoesValue
  <2> QED BY <2>2, <2>3, <2>4 DEF RefetchingTable
<1> QED BY <1>1, <1>2

LEMMA NodesHolds ==
    GuardedTable(Nodes) /\ RefetchingTable(Nodes, {})
<1>1. GuardedTable(Nodes)
  BY AsksValue, BothValue
  DEF GuardedTable, Nodes, AddNodeOffers, NodeOffers, Form, Row, Offer
<1>2. RefetchingTable(Nodes, {})
  <2>1. /\ Nodes.loads["refresh"].calls = {"listNodes"}
    BY LoadValue DEF Nodes
  <2>2. /\ Unaffected(Nodes, "regenerateNodeToken", "refresh")
        /\ Unaffected(Nodes, "checkNodeStatus", "refresh")
    BY ZenonT(40), <2>1, ApiValue, UnaffectedBy
  <2> QED BY <2>2, AsksValue DEF RefetchingTable, Nodes
<1> QED BY <1>1, <1>2

LEMMA AllocationsHolds ==
    GuardedTable(Allocations) /\ RefetchingTable(Allocations, {})
<1>1. GuardedTable(Allocations)
  BY AsksValue DEF GuardedTable, Allocations, AllocationsOffers, Form, Row, Offer
<1>2. RefetchingTable(Allocations, {})
  BY AsksValue DEF RefetchingTable, Allocations
<1> QED BY <1>1, <1>2

LEMMA DatabaseHostsHolds ==
    GuardedTable(DatabaseHosts) /\ RefetchingTable(DatabaseHosts, {})
<1>1. GuardedTable(DatabaseHosts)
  BY AsksValue DEF GuardedTable, DatabaseHosts, DatabaseHostsOffers, Form, Row, Offer
<1>2. RefetchingTable(DatabaseHosts, {})
  BY AsksValue DEF RefetchingTable, DatabaseHosts
<1> QED BY <1>1, <1>2

LEMMA NodeStatsTileHolds ==
    GuardedTable(NodeStatsTile) /\ RefetchingTable(NodeStatsTile, {})
<1>1. GuardedTable(NodeStatsTile)
  BY DEF GuardedTable, NodeStatsTile
<1>2. RefetchingTable(NodeStatsTile, {})
  BY DEF RefetchingTable, NodeStatsTile
<1> QED BY <1>1, <1>2

LEMMA UsersHolds ==
    GuardedTable(Users) /\ RefetchingTable(Users, {})
<1>1. GuardedTable(Users)
  BY AsksValue DEF GuardedTable, Users, UsersOffers, Form, Row, Offer
<1>2. RefetchingTable(Users, {})
  <2>1. /\ Users.loads["refresh"].calls = {"listUsers"}
    BY LoadValue DEF Users
  <2>2. /\ Unaffected(Users, "resetUserPassword", "refresh")
    BY ZenonT(40), <2>1, ApiValue, UnaffectedBy
  <2> QED BY <2>2, AsksValue DEF RefetchingTable, Users
<1> QED BY <1>1, <1>2

LEMMA PluginsHolds ==
    GuardedTable(Plugins) /\ RefetchingTable(Plugins, {})
<1>1. GuardedTable(Plugins)
  BY AsksValue DEF GuardedTable, Plugins, PluginsOffers, Row, Offer
<1>2. RefetchingTable(Plugins, {})
  BY AsksValue DEF RefetchingTable, Plugins
<1> QED BY <1>1, <1>2

LEMMA LoginHolds ==
    GuardedTable(Login) /\ RefetchingTable(Login, {})
<1>1. GuardedTable(Login)
  BY AsksValue DEF GuardedTable, Login, LoginOffers, Form, Offer
<1>2. RefetchingTable(Login, {})
  BY NoLoadsValue DEF RefetchingTable, Login
<1> QED BY <1>1, <1>2

LEMMA TwoFactorGateHolds ==
    GuardedTable(TwoFactorGate) /\ RefetchingTable(TwoFactorGate, {})
<1>1. GuardedTable(TwoFactorGate)
  BY AsksValue DEF GuardedTable, TwoFactorGate, TwoFactorGateOffers, Form, Offer
<1>2. RefetchingTable(TwoFactorGate, {})
  BY NoLoadsValue DEF RefetchingTable, TwoFactorGate
<1> QED BY <1>1, <1>2

LEMMA ApiKeysHolds ==
    GuardedTable(ApiKeys) /\ RefetchingTable(ApiKeys, {})
<1>1. GuardedTable(ApiKeys)
  BY AsksValue DEF GuardedTable, ApiKeys, ApiKeysOffers, Form, Row, Offer
<1>2. RefetchingTable(ApiKeys, {})
  BY AsksValue DEF RefetchingTable, ApiKeys
<1> QED BY <1>1, <1>2

LEMMA SSHKeysHolds ==
    GuardedTable(SSHKeys) /\ RefetchingTable(SSHKeys, {})
<1>1. GuardedTable(SSHKeys)
  BY AsksValue DEF GuardedTable, SSHKeys, SSHKeysOffers, Form, Row, Offer
<1>2. RefetchingTable(SSHKeys, {})
  BY AsksValue DEF RefetchingTable, SSHKeys
<1> QED BY <1>1, <1>2

LEMMA PasswordHolds ==
    GuardedTable(Password) /\ RefetchingTable(Password, {})
<1>1. GuardedTable(Password)
  BY AsksValue DEF GuardedTable, Password, PasswordOffers, Form, Offer
<1>2. RefetchingTable(Password, {})
  BY NoLoadsValue DEF RefetchingTable, Password
<1> QED BY <1>1, <1>2

LEMMA TwoFactorHolds ==
    GuardedTable(TwoFactor) /\ RefetchingTable(TwoFactor, {})
<1>1. GuardedTable(TwoFactor)
  BY AsksValue DEF GuardedTable, TwoFactor, TwoFactorOffers, FormIn, Form, Offer
<1>2. RefetchingTable(TwoFactor, {})
  <2>1. /\ TwoFactor.loads["refresh"].calls = {"get2FAStatus"}
    BY LoadValue DEF TwoFactor
  <2>2. /\ Unaffected(TwoFactor, "setup2FA", "refresh")
    BY <2>1, ApiValue, UnaffectedBy
  <2> QED BY <2>2, AsksValue DEF RefetchingTable, TwoFactor
<1> QED BY <1>1, <1>2

LEMMA SettingsHolds ==
    GuardedTable(Settings) /\ RefetchingTable(Settings, {})
<1>1. GuardedTable(Settings)
  BY AsksValue DEF GuardedTable, Settings, SettingsOffers, Form, Offer
<1>2. RefetchingTable(Settings, {})
  <2>1. /\ Settings.loads["version"].calls = {"getVersion"}
    BY LoadValue DEF Settings
  <2>2. /\ Unaffected(Settings, "checkUpdate", "version")
    BY <2>1, ApiValue, UnaffectedBy
  <2> QED BY <2>2, AsksValue DEF RefetchingTable, Settings
<1> QED BY <1>1, <1>2

LEMMA ActivityHolds ==
    GuardedTable(Activity) /\ RefetchingTable(Activity, {})
<1>1. GuardedTable(Activity)
  BY BarsValue DEF GuardedTable, Activity, ActivityOffers, FormIn, Offer
<1>2. RefetchingTable(Activity, {})
  <2>1. /\ Activity.loads["refresh"].calls = {"listActivity"}
    BY LoadValue DEF Activity
  <2>2. /\ Unaffected(Activity, "listActivity", "refresh")
    BY ZenonT(40), <2>1, ApiValue, UnaffectedBy
  <2>3. /\ DOMAIN Activity.handlers = {"loadMore"}
        /\ DOMAIN Activity.loads = {"refresh"}
        /\ Activity.handlers["loadMore"] = Bars(Asks("loadingMore", "listActivity", {}))
    BY DEF Activity
  <2>4. /\ DOMAIN Activity.handlers["loadMore"].calls = {1}
        /\ Activity.handlers["loadMore"].calls[1] = "listActivity"
        /\ Activity.handlers["loadMore"].anew = {}
    BY <2>3, BarsValue
  <2> QED BY <2>2, <2>3, <2>4 DEF RefetchingTable
<1> QED BY <1>1, <1>2

LEMMA StreamersHolds ==
    GuardedTable(Streamers) /\ RefetchingTable(Streamers, {})
<1>1. GuardedTable(Streamers)
  BY DEF GuardedTable, Streamers
<1>2. RefetchingTable(Streamers, {})
  BY DEF RefetchingTable, Streamers
<1> QED BY <1>1, <1>2

LEMMA TwitchTileHolds ==
    GuardedTable(TwitchTile) /\ RefetchingTable(TwitchTile, {})
<1>1. GuardedTable(TwitchTile)
  BY AsksValue, LeavesValue DEF GuardedTable, TwitchTile, TwitchTileOffers, FormIn, Offer
<1>2. RefetchingTable(TwitchTile, {})
  <2>1. /\ TwitchTile.loads["refresh"].calls = {"getTwitchStatus"}
    BY LoadValue DEF TwitchTile
  <2>2. /\ Unaffected(TwitchTile, "sendTwitchTestAlert", "refresh")
    BY <2>1, ApiValue, UnaffectedBy
  <2> QED BY <2>2, AsksValue, LeavesValue DEF RefetchingTable, TwitchTile
<1> QED BY <1>1, <1>2

LEMMA StripeTileHolds ==
    GuardedTable(StripeTile) /\ RefetchingTable(StripeTile, {})
<1>1. GuardedTable(StripeTile)
  BY AsksValue, LeavesValue DEF GuardedTable, StripeTile, StripeTileOffers, FormIn, Offer
<1>2. RefetchingTable(StripeTile, {})
  <2>1. /\ StripeTile.loads["refresh"].calls = {"getStripeStatus"}
    BY LoadValue DEF StripeTile
  <2>2. /\ Unaffected(StripeTile, "sendTwitchTestAlert", "refresh")
    BY ZenonT(40), <2>1, ApiValue, UnaffectedBy
  <2> QED BY <2>2, AsksValue, LeavesValue DEF RefetchingTable, StripeTile
<1> QED BY <1>1, <1>2

LEMMA SpotifyTileHolds ==
    GuardedTable(SpotifyTile) /\ RefetchingTable(SpotifyTile, {})
<1>1. GuardedTable(SpotifyTile)
  BY AsksValue, LeavesValue
  DEF GuardedTable, SpotifyTile, SpotifyTileOffers, FormIn, Offer
<1>2. RefetchingTable(SpotifyTile, {})
  BY AsksValue, LeavesValue DEF RefetchingTable, SpotifyTile
<1> QED BY <1>1, <1>2

LEMMA SongRequestTileHolds ==
    GuardedTable(SongRequestTile) /\ RefetchingTable(SongRequestTile, {})
<1>1. GuardedTable(SongRequestTile)
  BY AsksValue, LeavesValue, TakesValue
  DEF GuardedTable, SongRequestTile, SongRequestTileOffers, FormIn, Offer
<1>2. RefetchingTable(SongRequestTile, {})
  <2>3. /\ DOMAIN SongRequestTile.handlers = {"enable", "disable",
           "upgradeForRedemptions"}
        /\ DOMAIN SongRequestTile.loads = {"refresh"}
        /\ SongRequestTile.handlers["enable"] = [Asks("busy", "enableSongRequests",
            {}) EXCEPT !.takes = {"refresh"}]
        /\ SongRequestTile.handlers["disable"] = Asks("busy", "disableSongRequests",
            {"refresh"})
        /\ SongRequestTile.handlers["upgradeForRedemptions"] = Leaves("busy",
            "startTwitchExtended")
    BY DEF SongRequestTile
  <2>4. /\ DOMAIN SongRequestTile.handlers["enable"].calls = {1}
        /\ SongRequestTile.handlers["enable"].calls[1] = "enableSongRequests"
        /\ SongRequestTile.handlers["enable"].takes = {"refresh"}
        /\ DOMAIN SongRequestTile.handlers["disable"].calls = {1}
        /\ SongRequestTile.handlers["disable"].calls[1] = "disableSongRequests"
        /\ SongRequestTile.handlers["disable"].anew = {"refresh"}
        /\ SongRequestTile.handlers["upgradeForRedemptions"].lowers = "failed"
    BY <2>3, AsksValue, LeavesValue, TakesValue
  <2> QED BY <2>3, <2>4 DEF RefetchingTable
<1> QED BY <1>1, <1>2

LEMMA SongQueueHolds ==
    GuardedTable(SongQueue) /\ RefetchingTable(SongQueue, {})
<1>1. GuardedTable(SongQueue)
  BY AmendsValue DEF GuardedTable, SongQueue, SongQueueOffers, Offer
<1>2. RefetchingTable(SongQueue, {})
  <2>3. /\ DOMAIN SongQueue.handlers = {"skip"}
        /\ DOMAIN SongQueue.loads = {"queue"}
        /\ SongQueue.handlers["skip"] = [Asks("none", "advanceSongRequest",
            {}) EXCEPT !.amends = {"queue"}]
    BY DEF SongQueue
  <2>4. /\ DOMAIN SongQueue.handlers["skip"].calls = {1}
        /\ SongQueue.handlers["skip"].calls[1] = "advanceSongRequest"
        /\ SongQueue.handlers["skip"].amends = {"queue"}
    BY <2>3, AmendsValue
  <2> QED BY <2>3, <2>4 DEF RefetchingTable
<1> QED BY <1>1, <1>2

LEMMA TwitchBotTileHolds ==
    GuardedTable(TwitchBotTile) /\ RefetchingTable(TwitchBotTile, {})
<1>1. GuardedTable(TwitchBotTile)
  BY AsksValue, LeavesValue, AmendsValue
  DEF GuardedTable, TwitchBotTile, TwitchBotTileOffers, FormIn, Offer
<1>2. RefetchingTable(TwitchBotTile, {})
  <2>1. /\ TwitchBotTile.loads["commands"].calls = {"listBotCommands"}
        /\ TwitchBotTile.loads["refresh"].calls = {"getTwitchBotStatus"}
    BY LoadValue DEF TwitchBotTile
  <2>2. /\ Unaffected(TwitchBotTile, "disconnectTwitchBot", "commands")
        /\ Unaffected(TwitchBotTile, "saveBotCommand", "refresh")
        /\ Unaffected(TwitchBotTile, "deleteBotCommand", "refresh")
    BY <2>1, ApiValue, UnaffectedBy
  <2>3. /\ DOMAIN TwitchBotTile.handlers = {"connect", "disconnect", "addCommand",
           "removeCommand"}
        /\ DOMAIN TwitchBotTile.loads = {"refresh", "commands"}
        /\ TwitchBotTile.handlers["connect"] = Leaves("busy", "startTwitchBotConnect")
        /\ TwitchBotTile.handlers["disconnect"] = Asks("busy", "disconnectTwitchBot",
            {"refresh"})
        /\ TwitchBotTile.handlers["addCommand"] = [Asks("busy", "saveBotCommand",
            {}) EXCEPT !.amends = {"commands"}]
        /\ TwitchBotTile.handlers["removeCommand"] = [Asks("busy", "deleteBotCommand",
            {}) EXCEPT !.amends = {"commands"}]
    BY DEF TwitchBotTile
  <2>4. /\ TwitchBotTile.handlers["connect"].lowers = "failed"
        /\ DOMAIN TwitchBotTile.handlers["disconnect"].calls = {1}
        /\ TwitchBotTile.handlers["disconnect"].calls[1] = "disconnectTwitchBot"
        /\ TwitchBotTile.handlers["disconnect"].anew = {"refresh"}
        /\ DOMAIN TwitchBotTile.handlers["addCommand"].calls = {1}
        /\ TwitchBotTile.handlers["addCommand"].calls[1] = "saveBotCommand"
        /\ TwitchBotTile.handlers["addCommand"].amends = {"commands"}
        /\ DOMAIN TwitchBotTile.handlers["removeCommand"].calls = {1}
        /\ TwitchBotTile.handlers["removeCommand"].calls[1] = "deleteBotCommand"
        /\ TwitchBotTile.handlers["removeCommand"].amends = {"commands"}
    BY <2>3, AsksValue, LeavesValue, AmendsValue
  <2> SUFFICES ASSUME NEW h \in DOMAIN TwitchBotTile.handlers,
      TwitchBotTile.handlers[h].lowers = "always",
                      NEW l \in DOMAIN TwitchBotTile.loads,
                          NEW k \in DOMAIN TwitchBotTile.handlers[h].calls,
                      l \notin TwitchBotTile.handlers[h].anew \cup TwitchBotTile.handlers[h].takes
                                   \cup TwitchBotTile.handlers[h].amends
               PROVE  Unaffected(TwitchBotTile, TwitchBotTile.handlers[h].calls[k], l)
    BY DEF RefetchingTable
  <2>5. CASE h = "connect"
    BY <2>2, <2>3, <2>4, <2>5
  <2>6. CASE h = "disconnect"
    BY <2>2, <2>3, <2>4, <2>6
  <2>7. CASE h = "addCommand"
    BY ZenonT(40), <2>2, <2>3, <2>4, <2>7
  <2>8. CASE h = "removeCommand"
    BY ZenonT(40), <2>2, <2>3, <2>4, <2>8
  <2> QED BY <2>3, <2>5, <2>6, <2>7, <2>8
<1> QED BY <1>1, <1>2

LEMMA OverlayHolds ==
    GuardedTable(Overlay) /\ RefetchingTable(Overlay, {})
<1>1. GuardedTable(Overlay)
  BY AmendsValue DEF GuardedTable, Overlay, OverlayOffers, Form, Offer
<1>2. RefetchingTable(Overlay, {})
  <2>3. /\ DOMAIN Overlay.handlers = {"save"}
        /\ DOMAIN Overlay.loads = {"layout"}
        /\ Overlay.handlers["save"] = [Asks("saving", "saveOverlayWidgets",
            {}) EXCEPT !.amends = {"layout"}]
    BY DEF Overlay
  <2>4. /\ DOMAIN Overlay.handlers["save"].calls = {1}
        /\ Overlay.handlers["save"].calls[1] = "saveOverlayWidgets"
        /\ Overlay.handlers["save"].amends = {"layout"}
    BY <2>3, AmendsValue
  <2> QED BY <2>3, <2>4 DEF RefetchingTable
<1> QED BY <1>1, <1>2

LEMMA AnalyticsHolds ==
    GuardedTable(Analytics) /\ RefetchingTable(Analytics, {})
<1>1. GuardedTable(Analytics)
  BY AsksValue DEF GuardedTable, Analytics, AnalyticsOffers, Offer
<1>2. RefetchingTable(Analytics, {})
  <2>1. /\ Analytics.loads["refresh"].calls = {"getStreamerAnalytics"}
        /\ Analytics.loads["sessions"].calls = {"listStreamSessions"}
    BY LoadValue DEF Analytics
  <2>2. /\ Unaffected(Analytics, "getStreamSession", "refresh")
        /\ Unaffected(Analytics, "getStreamSession", "sessions")
    BY ZenonT(40), <2>1, ApiValue, UnaffectedBy
  <2> QED BY <2>2, AsksValue DEF RefetchingTable, Analytics
<1> QED BY <1>1, <1>2

\* The lists that a part of the panel changes and leaves as they are.
LeftBy(u) == CASE u = "CreateServerForm" -> {"allocations"}
             [] u = "ServerList" -> {"refresh"}
             [] OTHER -> {}

LEMMA EveryTableHolds ==
    \A u \in DOMAIN MCUnits :
       /\ GuardedTable(MCUnits[u])
       /\ RefetchingTable(MCUnits[u], LeftBy(u))
<1>1. DOMAIN MCUnits = {"BackupManager", "ScheduleManager", "PortManager",
                        "DatabaseManager", "DomainManager", "SubuserManager",
                        "FileManager", "PowerGrid", "ServerView", "ProxyKeys",
                        "ServerList", "CreateServerForm", "Nodes", "Allocations",
                        "DatabaseHosts", "NodeStatsTile", "Users", "Plugins",
                        "Login", "TwoFactorGate", "ApiKeys", "SSHKeys", "Password",
                        "TwoFactor", "Settings", "Activity", "Streamers",
                        "TwitchTile", "StripeTile", "SpotifyTile", "SongRequestTile",
                        "SongQueue", "TwitchBotTile", "Overlay", "Analytics"}
  BY DEF MCUnits
<1>2. /\ MCUnits["BackupManager"] = BackupManager
      /\ MCUnits["ScheduleManager"] = ScheduleManager
      /\ MCUnits["PortManager"] = PortManager
      /\ MCUnits["DatabaseManager"] = DatabaseManager
      /\ MCUnits["DomainManager"] = DomainManager
      /\ MCUnits["SubuserManager"] = SubuserManager
      /\ MCUnits["FileManager"] = FileManager
  BY DEF MCUnits
<1>3. /\ MCUnits["PowerGrid"] = PowerGrid
      /\ MCUnits["ServerView"] = ServerView
      /\ MCUnits["ProxyKeys"] = ProxyKeys
      /\ MCUnits["ServerList"] = ServerList
      /\ MCUnits["CreateServerForm"] = CreateServerForm
      /\ MCUnits["Nodes"] = Nodes
      /\ MCUnits["Allocations"] = Allocations
  BY DEF MCUnits
<1>4. /\ MCUnits["DatabaseHosts"] = DatabaseHosts
      /\ MCUnits["NodeStatsTile"] = NodeStatsTile
      /\ MCUnits["Users"] = Users
      /\ MCUnits["Plugins"] = Plugins
      /\ MCUnits["Login"] = Login
      /\ MCUnits["TwoFactorGate"] = TwoFactorGate
      /\ MCUnits["ApiKeys"] = ApiKeys
  BY DEF MCUnits
<1>5. /\ MCUnits["SSHKeys"] = SSHKeys
      /\ MCUnits["Password"] = Password
      /\ MCUnits["TwoFactor"] = TwoFactor
      /\ MCUnits["Settings"] = Settings
      /\ MCUnits["Activity"] = Activity
      /\ MCUnits["Streamers"] = Streamers
      /\ MCUnits["TwitchTile"] = TwitchTile
  BY DEF MCUnits
<1>6. /\ MCUnits["StripeTile"] = StripeTile
      /\ MCUnits["SpotifyTile"] = SpotifyTile
      /\ MCUnits["SongRequestTile"] = SongRequestTile
      /\ MCUnits["SongQueue"] = SongQueue
      /\ MCUnits["TwitchBotTile"] = TwitchBotTile
      /\ MCUnits["Overlay"] = Overlay
      /\ MCUnits["Analytics"] = Analytics
  BY DEF MCUnits
<1>7. \A u \in {"BackupManager", "ScheduleManager", "PortManager", "DatabaseManager",
    "DomainManager", "SubuserManager", "FileManager"} :
         GuardedTable(MCUnits[u]) /\ RefetchingTable(MCUnits[u], LeftBy(u))
  BY <1>2, BackupManagerHolds, ScheduleManagerHolds, PortManagerHolds,
      DatabaseManagerHolds, DomainManagerHolds, SubuserManagerHolds, FileManagerHolds DEF LeftBy
<1>8. \A u \in {"PowerGrid", "ServerView", "ProxyKeys", "ServerList",
    "CreateServerForm", "Nodes", "Allocations"} :
         /\ GuardedTable(MCUnits[u])
         /\ RefetchingTable(MCUnits[u], LeftBy(u))
  BY <1>3, PowerGridHolds, ServerViewHolds, ProxyKeysHolds, ServerListHolds,
      CreateServerFormHolds, NodesHolds, AllocationsHolds DEF LeftBy
<1>9. \A u \in {"DatabaseHosts", "NodeStatsTile", "Users", "Plugins", "Login",
    "TwoFactorGate", "ApiKeys"} :
         GuardedTable(MCUnits[u]) /\ RefetchingTable(MCUnits[u], LeftBy(u))
  BY <1>4, DatabaseHostsHolds, NodeStatsTileHolds, UsersHolds, PluginsHolds,
      LoginHolds, TwoFactorGateHolds, ApiKeysHolds DEF LeftBy
<1>10. \A u \in {"SSHKeys", "Password", "TwoFactor", "Settings", "Activity",
    "Streamers", "TwitchTile"} :
         GuardedTable(MCUnits[u]) /\ RefetchingTable(MCUnits[u], LeftBy(u))
  BY <1>5, SSHKeysHolds, PasswordHolds, TwoFactorHolds, SettingsHolds, ActivityHolds,
      StreamersHolds, TwitchTileHolds DEF LeftBy
<1>11. \A u \in {"StripeTile", "SpotifyTile", "SongRequestTile", "SongQueue",
    "TwitchBotTile", "Overlay", "Analytics"} :
         GuardedTable(MCUnits[u]) /\ RefetchingTable(MCUnits[u], LeftBy(u))
  BY <1>6, StripeTileHolds, SpotifyTileHolds, SongRequestTileHolds, SongQueueHolds,
      TwitchBotTileHolds, OverlayHolds, AnalyticsHolds DEF LeftBy
<1> QED BY <1>1, <1>7, <1>8, <1>9, <1>10, <1>11

\* The tables satisfy what the two theorems above suppose.
LEMMA PanelTables ==
    ASSUME Units = MCUnits, Forgotten = MCForgotten
    PROVE  Guarded /\ Reloads
<1>1. ASSUME NEW u \in DOMAIN Units PROVE DisabledByItsFlag(u)
  <2>1. GuardedTable(Units[u])
    BY EveryTableHolds
  <2> QED BY <2>1 DEF GuardedTable, DisabledByItsFlag, Flags, Handlers
<1>2. ASSUME NEW u \in DOMAIN Units PROVE ReloadsItsChanges(u)
  <2>1. RefetchingTable(Units[u], LeftBy(u))
    BY EveryTableHolds
  <2>2. \A l \in LeftBy(u) : <<u, l>> \in Forgotten
    BY DEF MCForgotten, LeftBy
  <2> QED BY <2>1, <2>2
          DEF RefetchingTable, Unaffected, ReloadsItsChanges, Loads, Handlers
<1> QED BY <1>1, <1>2 DEF Guarded, Reloads

\* So the panel, with its own tables, starts no form twice and hides none of the changes
\* it has made, for any rows and any number of handlers and answers on their way.
THEOREM PanelKeepsItsPromises ==
    ASSUME Units = MCUnits, Forgotten = MCForgotten
    PROVE  PagesSpec => [](OneAtATime /\ ShowsWhatItDid)
<1>1. PagesSpec => []OneAtATime
  BY PanelTables, OneHandlerAtATime
<1>2. PagesSpec => []ShowsWhatItDid
  BY PanelTables, PagesShowWhatTheyDid
<1> QED BY <1>1, <1>2, PTL
=============================================================================
