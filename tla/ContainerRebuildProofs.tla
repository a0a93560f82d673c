----------------------- MODULE ContainerRebuildProofs -----------------------
(***************************************************************************)
(* The rebuild of a container for any number of rebuild requests and any   *)
(* specifications: what is left when one ends, that two containers are     *)
(* never up together, and that an undisturbed rebuild is one step of       *)
(* Container.  Each result holds in other regimes of what may run beside a *)
(* rebuild and of what may fail.                                           *)
(***************************************************************************)
EXTENDS ContainerRebuild, TLAPS

\* Rebuilds follow each other.
Alone == \A r, o \in Workers : work[r] # Idle /\ work[o] # Idle => r = o

Up(c) == c # NoContainer /\ c.state # "offline"

-----------------------------------------------------------------------------
(* Types, whatever overlaps and fails *)

\* Every step keeps the types.
LEMMA StepType == ASSUME TypeOK, [Next]_vars PROVE TypeOK'
<1> USE ContainerAssumption
    DEF TypeOK, Docker, Work, Steps, State, At, Mishaps, FailsFor, Succeeds
<1>0. regime' \in Regimes
  BY DEF Next, vars, TypeOK
<1> USE <1>0
<1>1. ASSUME NEW r \in Workers, Begin(r) PROVE TypeOK'
  BY <1>1 DEF Begin, AtRest
<1>2. ASSUME NEW r \in Workers, Inspect(r) PROVE TypeOK'
  <2>1. failed' \subseteq Mishaps
    BY <1>2 DEF Inspect
  <2>2. PICK was \in BOOLEAN : Then(r, "sweep", was, FALSE)
    BY <1>2 DEF Inspect
  <2> QED BY <1>2, <2>1, <2>2 DEF Inspect, Then
<1>3. ASSUME NEW r \in Workers, Sweep(r) PROVE TypeOK'
  BY <1>3 DEF Sweep, Goto, Then
<1>4. ASSUME NEW r \in Workers, Rename(r) PROVE TypeOK'
  <2>1. main' \in Docker /\ old' \in Docker /\ asked' = asked
    BY <1>4 DEF Rename
  <2>3. told' \in {"done", "error"}
    BY <1>4 DEF Rename, Then, Return
  <2>2. work' \in [Workers -> Work \cup {Idle}]
    <3>1. CASE Then(r, "create", work[r].wasRunning, FALSE)
      BY <1>4, <3>1 DEF Rename, Then
    <3>2. CASE Then(r, "halt", TRUE, TRUE)
      BY <1>4, <3>2 DEF Rename, Then
    <3>3. CASE Then(r, "create", FALSE, TRUE)
      BY <1>4, <3>3 DEF Rename, Then
    <3>4. CASE Return(r, "error")
      BY <3>4 DEF Return
    <3> QED BY <1>4, <3>1, <3>2, <3>3, <3>4 DEF Rename
  <2>4. failed' \subseteq Mishaps
    BY <1>4 DEF Rename
  <2> QED BY <2>1, <2>2, <2>3, <2>4
<1>5. ASSUME NEW r \in Workers, Halt(r) PROVE TypeOK'
  BY <1>5 DEF Halt, Goto, Then, InState
<1>6. ASSUME NEW r \in Workers, Create(r) PROVE TypeOK'
  BY <1>6 DEF Create, Goto, Then, Return
<1>7. ASSUME NEW r \in Workers, Drop(r) PROVE TypeOK'
  BY <1>7 DEF Drop, Goto, Then, Return
<1>8. ASSUME NEW r \in Workers, Start(r) PROVE TypeOK'
  BY <1>8 DEF Start, Return, Started, InState
<1>9. ASSUME NEW r \in Workers, Restore(r) PROVE TypeOK'
  <2>1. main' \in Docker /\ old' \in Docker /\ asked' = asked
    BY <1>9 DEF Restore
  <2>2. failed' \subseteq Mishaps
    BY <1>9 DEF Restore
  <2>3. Goto(r, "restart") \/ Return(r, "error")
    BY <1>9 DEF Restore
  <2>4. work' \in [Workers -> Work \cup {Idle}] /\ told' \in {"done", "error"}
    <3>1. CASE Goto(r, "restart")
      BY <1>9, <3>1 DEF Restore, Goto, Then
    <3>2. CASE Return(r, "error")
      BY <3>2 DEF Return
    <3> QED BY <2>3, <3>1, <3>2
  <2> QED BY <2>1, <2>2, <2>4
<1>10. ASSUME NEW r \in Workers, Abort(r) PROVE TypeOK'
  BY <1>10 DEF Abort, Return
<1>11. CASE PowerStart
  BY <1>11 DEF PowerStart, MayAct, Started, InState
<1>12. CASE PowerStop
  BY <1>12 DEF PowerStop, MayAct, InState
<1>13. CASE Delete
  BY <1>13 DEF Delete, MayAct
<1>14. CASE Crash
  BY <1>14 DEF Crash, InState
<1>15. CASE UNCHANGED vars
  BY <1>15 DEF vars
<1> QED
  BY <1>1, <1>2, <1>3, <1>4, <1>5, <1>6, <1>7, <1>8,
     <1>9, <1>10, <1>11, <1>12, <1>13, <1>14, <1>15 DEF Next, Rebuild

\* Every variable keeps its type (manager.go, whatever is called when).
THEOREM TypeCorrect == Spec => []TypeOK
<1>1. Init => TypeOK
  BY DEF Init, TypeOK, Docker, State
<1>2. TypeOK /\ [Next]_vars => TypeOK'
  BY StepType
<1> QED BY <1>1, <1>2, PTL DEF Spec

\* A rebuild that carries on is at its next step, and the panel is told nothing yet.
LEMMA ThenWorks ==
    ASSUME TypeOK, NEW r \in Workers, work[r] # Idle, NEW st \in Steps,
           NEW was \in BOOLEAN, NEW had \in BOOLEAN, Then(r, st, was, had)
    PROVE  /\ work'[r] # Idle
           /\ work'[r].step = st
           /\ work'[r].wasRunning = was
           /\ work'[r].had = had
           /\ told' = told
           /\ ~AtRest'
<1> DEFINE w == [step |-> st, spec |-> work[r].spec, wasRunning |-> was, had |-> had]
<1>1. work[r] \in Work
  BY DEF TypeOK
<1>2. w \in Work
  BY <1>1, Zenon DEF Work
<1>3. work'[r] = w /\ told' = told
  BY DEF Then, TypeOK
<1> QED BY <1>2, <1>3, ContainerAssumption DEF AtRest

-----------------------------------------------------------------------------
(* What is left when a rebuild ends *)

\* What has gone wrong may have left the server without a container, or with a second
\* one, or kept it from being swept.
Lost == "restore" \in failed \/ "abort" \in failed

Littered == "drop" \in failed \/ Lost

Unswept == Littered /\ "sweep" \in failed

\* How far a rebuild has come tells under which names there is a container, as
\* long as the server has not been deleted, but for what earlier ones left behind.
Place ==
    \A r \in Workers :
        work[r] # Idle /\ asked # "gone" =>
            /\ work[r].step \in {"inspect", "sweep", "rename"} /\ main = NoContainer => Lost
            /\ work[r].step \in {"inspect", "sweep"} /\ old # NoContainer => Littered
            /\ work[r].step \in {"rename", "start"} /\ old # NoContainer => Unswept
            /\ work[r].step \in {"halt", "create", "restore"} =>
                  /\ main = NoContainer
                  /\ IF work[r].had THEN old # NoContainer
                     ELSE Lost /\ (old # NoContainer => Unswept)
            /\ work[r].step \in {"halt", "drop"} => work[r].had
            /\ work[r].step = "drop" => main # NoContainer /\ old # NoContainer
            /\ work[r].step \in {"start", "restart"} => main # NoContainer
            /\ work[r].step = "restart" => old = NoContainer

\* What OneContainerAtRest says, once rebuilds follow each other.
OneLeft ==
    AtRest /\ asked # "gone" =>
        /\ main = NoContainer => told = "error" /\ Lost
        /\ old # NoContainer => Littered /\ (told = "error" \/ "sweep" \in failed)

LeftInv == TypeOK /\ Alone /\ Place /\ OneLeft

\* Every step keeps LeftInv.
LEMMA StepLeft == ASSUME InTurn, LeftInv, [Next]_vars PROVE LeftInv'
<1> USE ContainerAssumption
    DEF LeftInv, InTurn, Docker, Work, Steps, State, At, AtRest,
        Mishaps, FailsFor, Succeeds, Lost, Littered, Unswept
<1>1. ASSUME NEW r \in Workers, Begin(r) PROVE LeftInv'
  <2>1. TypeOK'
    BY StepType
  <2>2. Alone'
    BY <1>1 DEF Begin, AtRest, TypeOK, Alone
  <2>3. Place'
    BY <1>1 DEF Begin, AtRest, TypeOK, Alone, Place, OneLeft
  <2>4. OneLeft'
    BY <1>1 DEF Begin, AtRest, TypeOK, Alone, Place, OneLeft
  <2> QED BY <2>1, <2>2, <2>3, <2>4
<1>2. ASSUME NEW r \in Workers, Inspect(r) PROVE LeftInv'
  <2>1. TypeOK'
    BY StepType
  <2>2. Alone'
    BY <1>2 DEF Inspect, Then, TypeOK, Alone
  <2>3. Place'
    BY <1>2 DEF Inspect, Then, TypeOK, Alone, Place, OneLeft
  <2>4. OneLeft'
    <3>1. work[r] # Idle
      BY <1>2 DEF Inspect
    <3>2. PICK was \in BOOLEAN : Then(r, "sweep", was, FALSE)
      BY <1>2 DEF Inspect
    <3> QED BY <3>1, <3>2, ThenWorks DEF OneLeft
  <2> QED BY <2>1, <2>2, <2>3, <2>4
<1>3. ASSUME NEW r \in Workers, Sweep(r) PROVE LeftInv'
  <2>1. TypeOK'
    BY StepType
  <2>2. Alone'
    BY <1>3 DEF Sweep, Goto, Then, TypeOK, Alone
  <2>3. Place'
    BY <1>3 DEF Sweep, Goto, Then, TypeOK, Alone, Place, OneLeft
  <2>4. OneLeft'
    BY <1>3 DEF Sweep, Goto, Then, TypeOK, Alone, Place, OneLeft
  <2> QED BY <2>1, <2>2, <2>3, <2>4
<1>4. ASSUME NEW r \in Workers, Rename(r) PROVE LeftInv'
  <2>1. TypeOK'
    BY StepType
  <2>2. Alone'
    BY <1>4 DEF Rename, Then, Return, TypeOK, Alone
  <2>3. Place'
    BY <1>4 DEF Rename, Then, Return, TypeOK, Alone, Place, OneLeft
  <2>4. OneLeft'
    <3>1. work[r] # Idle /\ work[r].step = "rename"
      BY <1>4 DEF Rename
    <3>2. CASE Return(r, "error") /\ UNCHANGED <<main, old, asked, failed>>
      BY <3>1, <3>2 DEF Return, Place, OneLeft
    <3>3. ASSUME NEW st \in Steps, NEW was \in BOOLEAN, NEW had \in BOOLEAN,
                 Then(r, st, was, had)
          PROVE  OneLeft'
      BY <3>1, <3>3, ThenWorks DEF OneLeft
    <3>4. work[r].wasRunning \in BOOLEAN
      BY <3>1 DEF TypeOK
    <3> QED
      BY <1>4, <3>2, <3>3, <3>4 DEF Rename
  <2> QED BY <2>1, <2>2, <2>3, <2>4
<1>5. ASSUME NEW r \in Workers, Halt(r) PROVE LeftInv'
  <2>1. TypeOK'
    BY StepType
  <2>2. Alone'
    BY <1>5 DEF Halt, Goto, Then, InState, TypeOK, Alone
  <2>3. Place'
    BY <1>5 DEF Halt, Goto, Then, InState, TypeOK, Alone, Place, OneLeft
  <2>4. OneLeft'
    BY <1>5 DEF Halt, Goto, Then, InState, TypeOK, Alone, Place, OneLeft
  <2> QED BY <2>1, <2>2, <2>3, <2>4
<1>6. ASSUME NEW r \in Workers, Create(r) PROVE LeftInv'
  <2>1. TypeOK'
    BY StepType
  <2>2. Alone'
    BY <1>6 DEF Create, Goto, Then, Return, TypeOK, Alone
  <2>3. Place'
    BY <1>6 DEF Create, Goto, Then, Return, TypeOK, Alone, Place, OneLeft
  <2>4. OneLeft'
    BY <1>6 DEF Create, Goto, Then, Return, TypeOK, Alone, Place, OneLeft
  <2> QED BY <2>1, <2>2, <2>3, <2>4
<1>7. ASSUME NEW r \in Workers, Drop(r) PROVE LeftInv'
  <2>1. TypeOK'
    BY StepType
  <2>2. Alone'
    BY <1>7 DEF Drop, Goto, Then, Return, TypeOK, Alone
  <2>3. Place'
    BY <1>7 DEF Drop, Goto, Then, Return, TypeOK, Alone, Place, OneLeft
  <2>4. OneLeft'
    BY <1>7 DEF Drop, Goto, Then, Return, TypeOK, Alone, Place, OneLeft
  <2> QED BY <2>1, <2>2, <2>3, <2>4
<1>8. ASSUME NEW r \in Workers, Start(r) PROVE LeftInv'
  <2>1. TypeOK'
    BY StepType
  <2>2. Alone'
    BY <1>8 DEF Start, Return, Started, InState, TypeOK, Alone
  <2>3. Place'
    BY <1>8 DEF Start, Return, Started, InState, TypeOK, Alone, Place, OneLeft
  <2>4. OneLeft'
    BY <1>8 DEF Start, Return, Started, InState, TypeOK, Alone, Place, OneLeft
  <2> QED BY <2>1, <2>2, <2>3, <2>4
<1>9. ASSUME NEW r \in Workers, Restore(r) PROVE LeftInv'
  <2>1. TypeOK'
    BY StepType
  <2>2. Alone'
    BY <1>9 DEF Restore, Goto, Then, Return, TypeOK, Alone
  <2>3. Place'
    BY <1>9 DEF Restore, Goto, Then, Return, TypeOK, Alone, Place, OneLeft
  <2>4. OneLeft'
    BY <1>9 DEF Restore, Goto, Then, Return, TypeOK, Alone, Place, OneLeft
  <2> QED BY <2>1, <2>2, <2>3, <2>4
<1>10. ASSUME NEW r \in Workers, Abort(r) PROVE LeftInv'
  <2>1. TypeOK'
    BY StepType
  <2>2. Alone'
    BY <1>10 DEF Abort, Return, TypeOK, Alone
  <2>3. Place'
    BY <1>10 DEF Abort, Return, TypeOK, Alone, Place, OneLeft
  <2>4. OneLeft'
    BY <1>10 DEF Abort, Return, TypeOK, Alone, Place, OneLeft
  <2> QED BY <2>1, <2>2, <2>3, <2>4
<1>11. CASE PowerStart
  <2>1. TypeOK'
    BY StepType
  <2>2. Alone'
    BY <1>11 DEF PowerStart, MayAct, Started, InState, TypeOK, Alone
  <2>3. Place'
    BY <1>11 DEF PowerStart, MayAct, Started, InState, TypeOK, Alone, Place, OneLeft
  <2>4. OneLeft'
    BY <1>11 DEF PowerStart, MayAct, Started, InState, TypeOK, Alone, Place, OneLeft
  <2> QED BY <2>1, <2>2, <2>3, <2>4
<1>12. CASE PowerStop
  <2>1. TypeOK'
    BY StepType
  <2>2. Alone'
    BY <1>12 DEF PowerStop, MayAct, InState, TypeOK, Alone
  <2>3. Place'
    BY <1>12 DEF PowerStop, MayAct, InState, TypeOK, Alone, Place, OneLeft
  <2>4. OneLeft'
    BY <1>12 DEF PowerStop, MayAct, InState, TypeOK, Alone, Place, OneLeft
  <2> QED BY <2>1, <2>2, <2>3, <2>4
<1>13. CASE Delete
  <2>1. TypeOK'
    BY StepType
  <2>2. Alone'
    BY <1>13 DEF Delete, MayAct, TypeOK, Alone
  <2>3. Place'
    BY <1>13 DEF Delete, MayAct, TypeOK, Alone, Place, OneLeft
  <2>4. OneLeft'
    BY <1>13 DEF Delete, MayAct, TypeOK, Alone, Place, OneLeft
  <2> QED BY <2>1, <2>2, <2>3, <2>4
<1>14. CASE Crash
  <2>1. TypeOK'
    BY StepType
  <2>2. Alone'
    BY <1>14 DEF Crash, InState, TypeOK, Alone
  <2>3. Place'
    BY <1>14 DEF Crash, InState, TypeOK, Alone, Place, OneLeft
  <2>4. OneLeft'
    BY <1>14 DEF Crash, InState, TypeOK, Alone, Place, OneLeft
  <2> QED BY <2>1, <2>2, <2>3, <2>4
<1>15. CASE UNCHANGED vars
  BY <1>15 DEF vars, TypeOK, Alone, Place, OneLeft
<1> QED
  BY <1>1, <1>2, <1>3, <1>4, <1>5, <1>6, <1>7, <1>8,
     <1>9, <1>10, <1>11, <1>12, <1>13, <1>14, <1>15 DEF Next, Rebuild

\* When rebuilds follow each other, each leaves the server with exactly one container
\* under its own name, whatever Docker call fails, wherever it is cut off and whatever
\* power actions run beside it, or it tells an error after a restoration that failed
\* or a cut-off; a second container stays only after one of these or a removal that
\* failed, and after a success only if sweeping it failed once (RecreateContainer,
\* restoreContainer).
THEOREM RebuildLeavesOne == Spec => []OneContainerAtRest
<1>1. Init => LeftInv
  BY ContainerAssumption
  DEF Init, LeftInv, AtRest, TypeOK, Alone, Place, OneLeft, Docker, State, Mishaps
<1>2. [Next]_vars => (InTurn' <=> InTurn)
  BY DEF Next, vars, InTurn, Overlap
<1>3. (InTurn => LeftInv) /\ [Next]_vars => (InTurn => LeftInv)'
  BY <1>2, StepLeft
<1>4. (InTurn => LeftInv) => OneContainerAtRest
  BY DEF LeftInv, OneLeft, Lost, Littered, OneContainerAtRest
<1> QED BY <1>1, <1>3, <1>4, PTL DEF Spec

-----------------------------------------------------------------------------
(* The old and the new container are never up together *)

\* wasRunning is still true of the container, and one that is to be replaced has
\* been halted before its successor exists.
Halted ==
    /\ main # NoContainer => ~Up(old)
    /\ \A r \in Workers :
          /\ At(r, "sweep") \/ At(r, "rename") => (work[r].wasRunning <=> Up(main))
          /\ At(r, "rename") => old = NoContainer
          /\ At(r, "create") => ~Up(old)

NoStarting == (main # NoContainer => main.state # "starting") /\ (old # NoContainer => old.state # "starting")

UpInv == TypeOK /\ Alone /\ NoStarting /\ Halted

\* No inspection and no sweep has failed, which the code does not notice.
Noticed == "inspect" \notin failed /\ "sweep" \notin failed

\* Every step keeps UpInv, also one that cuts a rebuild off.
LEMMA StepUp == ASSUME Undisturbed, UpInv, Noticed', [Next]_vars PROVE UpInv'
<1> USE ContainerAssumption
    DEF UpInv, Undisturbed, Noticed, Up, Docker, Work, Steps, State, At, AtRest,
        FailsFor, Succeeds
<1>1. ASSUME NEW r \in Workers, Begin(r) PROVE UpInv'
  <2>1. TypeOK'
    BY StepType
  <2>2. Alone'
    BY <1>1 DEF Begin, AtRest, TypeOK, Alone
  <2>3. NoStarting'
    BY <1>1 DEF Begin, AtRest, TypeOK, NoStarting
  <2>4. Halted'
    BY <1>1 DEF Begin, AtRest, TypeOK, Alone, NoStarting, Halted
  <2> QED BY <2>1, <2>2, <2>3, <2>4
<1>2. ASSUME NEW r \in Workers, Inspect(r) PROVE UpInv'
  <2>1. TypeOK'
    BY StepType
  <2>2. Alone'
    BY <1>2 DEF Inspect, Then, TypeOK, Alone
  <2>3. NoStarting'
    BY <1>2 DEF Inspect, Then, TypeOK, NoStarting
  <2>4. Halted'
    <3>1. failed' = failed /\ Then(r, "sweep", main # NoContainer /\ main.state = "running", FALSE)
      BY <1>2 DEF Inspect
    <3> QED BY <1>2, <3>1 DEF Inspect, Then, TypeOK, Alone, NoStarting, Halted
  <2> QED BY <2>1, <2>2, <2>3, <2>4
<1>3. ASSUME NEW r \in Workers, Sweep(r) PROVE UpInv'
  <2>1. TypeOK'
    BY StepType
  <2>2. Alone'
    BY <1>3 DEF Sweep, Goto, Then, TypeOK, Alone
  <2>3. NoStarting'
    BY <1>3 DEF Sweep, Goto, Then, TypeOK, NoStarting
  <2>4. Halted'
    BY <1>3 DEF Sweep, Goto, Then, TypeOK, Alone, NoStarting, Halted
  <2> QED BY <2>1, <2>2, <2>3, <2>4
<1>4. ASSUME NEW r \in Workers, Rename(r) PROVE UpInv'
  <2>1. TypeOK'
    BY StepType
  <2>2. Alone'
    BY <1>4 DEF Rename, Then, Return, TypeOK, Alone
  <2>3. NoStarting'
    BY <1>4 DEF Rename, Then, Return, TypeOK, NoStarting
  <2>4. Halted'
    BY <1>4 DEF Rename, Then, Return, TypeOK, Alone, NoStarting, Halted
  <2> QED BY <2>1, <2>2, <2>3, <2>4
<1>5. ASSUME NEW r \in Workers, Halt(r) PROVE UpInv'
  <2>1. TypeOK'
    BY StepType
  <2>2. Alone'
    BY <1>5 DEF Halt, Goto, Then, InState, TypeOK, Alone
  <2>3. NoStarting'
    BY <1>5 DEF Halt, Goto, Then, InState, TypeOK, NoStarting
  <2>4. Halted'
    BY <1>5 DEF Halt, Goto, Then, InState, TypeOK, Alone, NoStarting, Halted
  <2> QED BY <2>1, <2>2, <2>3, <2>4
<1>6. ASSUME NEW r \in Workers, Create(r) PROVE UpInv'
  <2>1. TypeOK'
    BY StepType
  <2>2. Alone'
    BY <1>6 DEF Create, Goto, Then, Return, TypeOK, Alone
  <2>3. NoStarting'
    BY <1>6 DEF Create, Goto, Then, Return, TypeOK, NoStarting
  <2>4. Halted'
    BY <1>6 DEF Create, Goto, Then, Return, TypeOK, Alone, NoStarting, Halted
  <2> QED BY <2>1, <2>2, <2>3, <2>4
<1>7. ASSUME NEW r \in Workers, Drop(r) PROVE UpInv'
  <2>1. TypeOK'
    BY StepType
  <2>2. Alone'
    BY <1>7 DEF Drop, Goto, Then, Return, TypeOK, Alone
  <2>3. NoStarting'
    BY <1>7 DEF Drop, Goto, Then, Return, TypeOK, NoStarting
  <2>4. Halted'
    BY <1>7 DEF Drop, Goto, Then, Return, TypeOK, Alone, NoStarting, Halted
  <2> QED BY <2>1, <2>2, <2>3, <2>4
<1>8. ASSUME NEW r \in Workers, Start(r) PROVE UpInv'
  <2>1. TypeOK'
    BY StepType
  <2>2. Alone'
    BY <1>8 DEF Start, Return, Started, InState, TypeOK, Alone
  <2>3. NoStarting'
    BY <1>8 DEF Start, Return, Started, InState, TypeOK, NoStarting
  <2>4. Halted'
    BY <1>8 DEF Start, Return, Started, InState, TypeOK, Alone, NoStarting, Halted
  <2> QED BY <2>1, <2>2, <2>3, <2>4
<1>9. ASSUME NEW r \in Workers, Restore(r) PROVE UpInv'
  <2>1. TypeOK'
    BY StepType
  <2>2. Alone'
    BY <1>9 DEF Restore, Goto, Then, Return, TypeOK, Alone
  <2>3. NoStarting'
    BY <1>9 DEF Restore, Goto, Then, Return, TypeOK, NoStarting
  <2>4. Halted'
    BY <1>9 DEF Restore, Goto, Then, Return, TypeOK, Alone, NoStarting, Halted
  <2> QED BY <2>1, <2>2, <2>3, <2>4
<1>10. ASSUME NEW r \in Workers, Abort(r) PROVE UpInv'
  <2>1. TypeOK'
    BY StepType
  <2>2. Alone'
    BY <1>10 DEF Abort, Return, TypeOK, Alone
  <2>3. NoStarting'
    BY <1>10 DEF Abort, Return, TypeOK, NoStarting
  <2>4. Halted'
    BY <1>10 DEF Abort, Return, TypeOK, Alone, NoStarting, Halted
  <2> QED BY <2>1, <2>2, <2>3, <2>4
<1>11. CASE PowerStart
  <2>1. TypeOK'
    BY StepType
  <2>2. Alone'
    BY <1>11 DEF PowerStart, MayAct, Started, InState, TypeOK, Alone
  <2>3. NoStarting'
    BY <1>11 DEF PowerStart, MayAct, Started, InState, TypeOK, NoStarting
  <2>4. Halted'
    BY <1>11 DEF PowerStart, MayAct, Started, InState, TypeOK, Alone, NoStarting, Halted
  <2> QED BY <2>1, <2>2, <2>3, <2>4
<1>12. CASE PowerStop
  <2>1. TypeOK'
    BY StepType
  <2>2. Alone'
    BY <1>12 DEF PowerStop, MayAct, InState, TypeOK, Alone
  <2>3. NoStarting'
    BY <1>12 DEF PowerStop, MayAct, InState, TypeOK, NoStarting
  <2>4. Halted'
    BY <1>12 DEF PowerStop, MayAct, InState, TypeOK, Alone, NoStarting, Halted
  <2> QED BY <2>1, <2>2, <2>3, <2>4
<1>13. CASE Delete
  <2>1. TypeOK'
    BY StepType
  <2>2. Alone'
    BY <1>13 DEF Delete, MayAct, TypeOK, Alone
  <2>3. NoStarting'
    BY <1>13 DEF Delete, MayAct, TypeOK, NoStarting
  <2>4. Halted'
    BY <1>13 DEF Delete, MayAct, TypeOK, Alone, NoStarting, Halted
  <2> QED BY <2>1, <2>2, <2>3, <2>4
<1>14. CASE Crash
  <2>1. TypeOK'
    BY StepType
  <2>2. Alone'
    BY <1>14 DEF Crash, InState, TypeOK, Alone
  <2>3. NoStarting'
    BY <1>14 DEF Crash, InState, TypeOK, NoStarting
  <2>4. Halted'
    BY <1>14 DEF Crash, InState, TypeOK, Alone, NoStarting, Halted
  <2> QED BY <2>1, <2>2, <2>3, <2>4
<1>15. CASE UNCHANGED vars
  BY <1>15 DEF vars, TypeOK, Alone, NoStarting, Halted
<1> QED
  BY <1>1, <1>2, <1>3, <1>4, <1>5, <1>6, <1>7, <1>8,
     <1>9, <1>10, <1>11, <1>12, <1>13, <1>14, <1>15 DEF Next, Rebuild

\* What has gone wrong stays on record.
LEMMA FailedGrows == [Next]_vars => failed \subseteq failed'
  BY DEF Next, vars, Rebuild, Begin, Inspect, Sweep, Rename, Halt, Create, Drop, Start,
         Restore, Abort, PowerStart, PowerStop, Delete, Crash, FailsFor, Succeeds

\* Wherever a rebuild fails or is cut off, and whatever follows it, the old and the
\* new container are never up together (the stop before the create, the forced removal
\* of what an earlier rebuild left), unless the container could not be inspected or
\* what was left could not be removed, two errors that the code ignores.
THEOREM NeverTwoUp == Spec => []OneUp
<1> DEFINE I == Undisturbed /\ Noticed => UpInv
<1>1. Init => I
  BY ContainerAssumption
  DEF Init, UpInv, TypeOK, Alone, NoStarting, Halted, Up, At, Docker, State, Mishaps
<1>2. [Next]_vars => (Undisturbed' <=> Undisturbed)
  BY DEF Next, vars, Undisturbed, Overlap, Faults
<1>3. [Next]_vars /\ Noticed' => Noticed
  BY FailedGrows DEF Noticed
<1>4. I /\ [Next]_vars => I'
  BY <1>2, <1>3, StepUp
<1>5. I => OneUp
  BY DEF UpInv, Halted, Up, OneUp, NotBothUp, Noticed
<1> QED BY <1>1, <1>4, <1>5, PTL DEF Spec
-----------------------------------------------------------------------------
(* An undisturbed rebuild is one step of Container *)

\* What a rebuild's step and variables say of the two containers when nothing runs
\* beside it and no inspection has failed: wasRunning is true of the owner's container
\* until the new one exists, which is not up before its last step.  Whatever else is
\* called srv-x-rebuild, an earlier rebuild left behind.
OnItsWay ==
    \A r \in Workers :
        work[r] # Idle =>
            /\ asked # "gone"
            /\ work[r].step \in {"sweep", "rename"} => (work[r].wasRunning <=> Up(main))
            /\ work[r].step \in {"halt", "create", "restore"} =>
                  /\ main = NoContainer
                  /\ IF work[r].had THEN old # NoContainer /\ (~work[r].wasRunning => ~Up(old))
                     ELSE ~work[r].wasRunning
            /\ work[r].step = "halt" => work[r].had
            /\ work[r].step \in {"drop", "start", "restart"} => main # NoContainer
            /\ work[r].step \in {"start", "restart"} => work[r].wasRunning
            /\ work[r].step \in {"drop", "start"} => ~Up(main)

WayInv == TypeOK /\ Alone /\ NoStarting /\ OnItsWay

\* Every step keeps WayInv.
LEMMA StepWay ==
    ASSUME Undisturbed, WayInv, "inspect" \notin failed', [Next]_vars PROVE WayInv'
<1> USE ContainerAssumption
    DEF WayInv, Undisturbed, Up, Docker, Work, Steps, State, At, AtRest, FailsFor, Succeeds
<1>1. ASSUME NEW r \in Workers, Begin(r) PROVE WayInv'
  <2>1. TypeOK'
    BY StepType
  <2>2. Alone'
    BY <1>1 DEF Begin, TypeOK, Alone
  <2>3. NoStarting'
    BY <1>1 DEF Begin, TypeOK, NoStarting
  <2>4. OnItsWay'
    BY <1>1 DEF Begin, TypeOK, Alone, NoStarting, OnItsWay
  <2> QED BY <2>1, <2>2, <2>3, <2>4
<1>2. ASSUME NEW r \in Workers, Inspect(r) PROVE WayInv'
  <2>1. TypeOK'
    BY StepType
  <2>2. Alone'
    BY <1>2 DEF Inspect, Then, TypeOK, Alone
  <2>3. NoStarting'
    BY <1>2 DEF Inspect, Then, TypeOK, NoStarting
  <2>4. OnItsWay'
    <3>1. failed' = failed /\ Then(r, "sweep", main # NoContainer /\ main.state = "running", FALSE)
      BY <1>2 DEF Inspect
    <3>2. /\ work[r] # Idle /\ main' = main /\ asked' = asked
          /\ \A o \in Workers : work[o] # Idle => o = r
      BY <1>2 DEF Inspect, Alone
    <3>3. Up(main) <=> (main # NoContainer /\ main.state = "running")
      BY DEF TypeOK, NoStarting
    <3>4. /\ work'[r].step = "sweep" /\ (work'[r].wasRunning <=> Up(main))
          /\ \A o \in Workers : work'[o] # Idle => o = r
      BY <3>1, <3>2, <3>3 DEF Then, TypeOK
    <3>5. asked # "gone"
      BY <3>2 DEF OnItsWay
    <3> HIDE DEF Up, Docker, Work, Steps, State, At, WayInv
    <3> QED BY <3>2, <3>4, <3>5 DEF OnItsWay, Up
  <2> QED BY <2>1, <2>2, <2>3, <2>4
<1>3. ASSUME NEW r \in Workers, Sweep(r) PROVE WayInv'
  <2>1. TypeOK'
    BY StepType
  <2>2. Alone'
    BY <1>3 DEF Sweep, Goto, Then, TypeOK, Alone
  <2>3. NoStarting'
    BY <1>3 DEF Sweep, Goto, Then, TypeOK, NoStarting
  <2>4. OnItsWay'
    BY <1>3 DEF Sweep, Goto, Then, TypeOK, Alone, NoStarting, OnItsWay
  <2> QED BY <2>1, <2>2, <2>3, <2>4
<1>4. ASSUME NEW r \in Workers, Rename(r) PROVE WayInv'
  <2>1. TypeOK'
    BY StepType
  <2>2. Alone'
    BY <1>4 DEF Rename, Then, Return, TypeOK, Alone
  <2>3. NoStarting'
    BY <1>4 DEF Rename, Then, Return, TypeOK, NoStarting
  <2>4. OnItsWay'
    BY <1>4 DEF Rename, Then, Return, TypeOK, Alone, NoStarting, OnItsWay
  <2> QED BY <2>1, <2>2, <2>3, <2>4
<1>5. ASSUME NEW r \in Workers, Halt(r) PROVE WayInv'
  <2>1. TypeOK'
    BY StepType
  <2>2. Alone'
    BY <1>5 DEF Halt, Goto, Then, InState, TypeOK, Alone
  <2>3. NoStarting'
    BY <1>5 DEF Halt, Goto, Then, InState, TypeOK, NoStarting
  <2>4. OnItsWay'
    BY <1>5 DEF Halt, Goto, Then, InState, TypeOK, Alone, NoStarting, OnItsWay
  <2> QED BY <2>1, <2>2, <2>3, <2>4
<1>6. ASSUME NEW r \in Workers, Create(r) PROVE WayInv'
  <2>1. TypeOK'
    BY StepType
  <2>2. Alone'
    BY <1>6 DEF Create, Goto, Then, Return, TypeOK, Alone
  <2>3. NoStarting'
    BY <1>6 DEF Create, Goto, Then, Return, TypeOK, NoStarting
  <2>4. OnItsWay'
    BY <1>6 DEF Create, Goto, Then, Return, TypeOK, Alone, NoStarting, OnItsWay
  <2> QED BY <2>1, <2>2, <2>3, <2>4
<1>7. ASSUME NEW r \in Workers, Drop(r) PROVE WayInv'
  <2>1. TypeOK'
    BY StepType
  <2>2. Alone'
    BY <1>7 DEF Drop, Goto, Then, Return, TypeOK, Alone
  <2>3. NoStarting'
    BY <1>7 DEF Drop, Goto, Then, Return, TypeOK, NoStarting
  <2>4. OnItsWay'
    BY <1>7 DEF Drop, Goto, Then, Return, TypeOK, Alone, NoStarting, OnItsWay
  <2> QED BY <2>1, <2>2, <2>3, <2>4
<1>8. ASSUME NEW r \in Workers, Start(r) PROVE WayInv'
  <2>1. TypeOK'
    BY StepType
  <2>2. Alone'
    BY <1>8 DEF Start, Return, Started, InState, TypeOK, Alone
  <2>3. NoStarting'
    BY <1>8 DEF Start, Return, Started, InState, TypeOK, NoStarting
  <2>4. OnItsWay'
    BY <1>8 DEF Start, Return, Started, InState, TypeOK, Alone, NoStarting, OnItsWay
  <2> QED BY <2>1, <2>2, <2>3, <2>4
<1>9. ASSUME NEW r \in Workers, Restore(r) PROVE WayInv'
  <2>1. TypeOK'
    BY StepType
  <2>2. Alone'
    BY <1>9 DEF Restore, Goto, Then, Return, TypeOK, Alone
  <2>3. NoStarting'
    BY <1>9 DEF Restore, Goto, Then, Return, TypeOK, NoStarting
  <2>4. OnItsWay'
    BY <1>9 DEF Restore, Goto, Then, Return, TypeOK, Alone, NoStarting, OnItsWay
  <2> QED BY <2>1, <2>2, <2>3, <2>4
<1>10. ASSUME NEW r \in Workers, Abort(r) PROVE WayInv'
  <2>1. TypeOK'
    BY StepType
  <2>2. Alone'
    BY <1>10 DEF Abort, Return, TypeOK, Alone
  <2>3. NoStarting'
    BY <1>10 DEF Abort, Return, TypeOK, NoStarting
  <2>4. OnItsWay'
    BY <1>10 DEF Abort, Return, TypeOK, Alone, NoStarting, OnItsWay
  <2> QED BY <2>1, <2>2, <2>3, <2>4
<1>11. CASE PowerStart
  <2>1. TypeOK'
    BY StepType
  <2>2. Alone'
    BY <1>11 DEF PowerStart, MayAct, Started, InState, TypeOK, Alone
  <2>3. NoStarting'
    BY <1>11 DEF PowerStart, MayAct, Started, InState, TypeOK, NoStarting
  <2>4. OnItsWay'
    BY <1>11 DEF PowerStart, MayAct, Started, InState, TypeOK, Alone, NoStarting, OnItsWay
  <2> QED BY <2>1, <2>2, <2>3, <2>4
<1>12. CASE PowerStop
  <2>1. TypeOK'
    BY StepType
  <2>2. Alone'
    BY <1>12 DEF PowerStop, MayAct, InState, TypeOK, Alone
  <2>3. NoStarting'
    BY <1>12 DEF PowerStop, MayAct, InState, TypeOK, NoStarting
  <2>4. OnItsWay'
    BY <1>12 DEF PowerStop, MayAct, InState, TypeOK, Alone, NoStarting, OnItsWay
  <2> QED BY <2>1, <2>2, <2>3, <2>4
<1>13. CASE Delete
  <2>1. TypeOK'
    BY StepType
  <2>2. Alone'
    BY <1>13 DEF Delete, MayAct, TypeOK, Alone
  <2>3. NoStarting'
    BY <1>13 DEF Delete, MayAct, TypeOK, NoStarting
  <2>4. OnItsWay'
    BY <1>13 DEF Delete, MayAct, TypeOK, Alone, NoStarting, OnItsWay
  <2> QED BY <2>1, <2>2, <2>3, <2>4
<1>14. CASE Crash
  <2>1. TypeOK'
    BY StepType
  <2>2. Alone'
    BY <1>14 DEF Crash, InState, TypeOK, Alone
  <2>3. NoStarting'
    BY <1>14 DEF Crash, InState, TypeOK, NoStarting
  <2>4. OnItsWay'
    BY <1>14 DEF Crash, InState, TypeOK, Alone, NoStarting, OnItsWay
  <2> QED BY <2>1, <2>2, <2>3, <2>4
<1>15. CASE UNCHANGED vars
  BY <1>15 DEF vars, TypeOK, Alone, NoStarting, OnItsWay
<1> QED
  BY <1>1, <1>2, <1>3, <1>4, <1>5, <1>6, <1>7, <1>8,
     <1>9, <1>10, <1>11, <1>12, <1>13, <1>14, <1>15 DEF Next, Rebuild

\* The worker that is not idle is the one that Owners looks at.
LEMMA TheWorking ==
    ASSUME NEW w, NEW r \in Workers, w[r] # Idle,
           \A o \in Workers : w[o] # Idle => o = r
    PROVE  (CHOOSE o \in Workers : w[o] # Idle) = r
  OBVIOUS

\* What the owner sees of a container, and of one whose rebuild is under way.
Seen(c) == IF c = NoContainer THEN c ELSE [spec |-> c.spec, up |-> c.state # "offline"]

Kept(c, w) == [spec |-> c.spec, up |-> w.wasRunning]

\* Owners in terms of the one rebuild under way, if there is one.
LEMMA OwnersAtRest == AtRest => Owners = Seen(main)
  BY DEF Owners, Seen

LEMMA OwnersAtRestNext == AtRest' => Owners' = Seen(main')
  BY DEF Owners, Seen

View(m, o, w) ==
    CASE w.step \in {"inspect", "sweep", "rename"} -> Seen(m)
      [] w.step \in {"halt", "create", "restore"} ->
           IF w.had /\ o # NoContainer THEN Kept(o, w) ELSE NoContainer
      [] OTHER -> Kept(m, w)

LEMMA OwnersWorking ==
    ASSUME Alone, NEW r \in Workers, work[r] # Idle
    PROVE  Owners = View(main, old, work[r])
<1>1. (CHOOSE o \in Workers : work[o] # Idle) = r
  BY TheWorking DEF Alone
<1>2. ~AtRest
  BY DEF AtRest
<1> QED BY <1>1, <1>2 DEF Owners, View, Seen, Kept

LEMMA OwnersWorkingNext ==
    ASSUME Alone', NEW r \in Workers, work'[r] # Idle
    PROVE  Owners' = View(main', old', work'[r])
<1>1. (CHOOSE o \in Workers : work'[o] # Idle) = r
  BY TheWorking DEF Alone
<1>2. ~AtRest'
  BY DEF AtRest
<1> QED BY <1>1, <1>2 DEF Owners, View, Seen, Kept

\* A rebuild that returns leaves no other at work.
LEMMA ReturnRests ==
    ASSUME TypeOK, Alone, NEW r \in Workers, work[r] # Idle, NEW how, Return(r, how)
    PROVE  AtRest' /\ told' = how
  BY DEF TypeOK, Alone, Return, AtRest

\* A field of an owner's container replaced.
LEMMA BoxChanged ==
    ASSUME NEW s, NEW u, NEW v
    PROVE  /\ [[spec |-> s, up |-> u] EXCEPT !.spec = v] = [spec |-> v, up |-> u]
           /\ [[spec |-> s, up |-> u] EXCEPT !.up = v] = [spec |-> s, up |-> v]
  OBVIOUS

\* Every step of an undisturbed server is a step of Container, or none.
LEMMA StepImplements ==
    ASSUME Undisturbed, WayInv, "inspect" \notin failed', [Next]_vars
    PROVE  [Promise!BoxNext]_Promise!containerVars
<1>0. WayInv' /\ TypeOK /\ Alone /\ TypeOK' /\ Alone' /\ OnItsWay
  BY StepWay DEF WayInv
<1> DEFINE Same == Owners' = Owners /\ asked' = asked /\ told' = told
           Failed == Promise!FailToReplace
           Replaced == Promise!ReplaceBox
<1>a. Same => [Promise!BoxNext]_Promise!containerVars
  BY DEF Promise!containerVars
<1>b. Failed => [Promise!BoxNext]_Promise!containerVars
  BY DEF Promise!BoxNext
<1>c. Replaced => [Promise!BoxNext]_Promise!containerVars
  BY DEF Promise!BoxNext
<1>1. ASSUME NEW r \in Workers, Begin(r) PROVE Same
  <2>1. AtRest
    BY <1>1 DEF Begin, Undisturbed
  <2>2. work'[r] # Idle /\ work'[r].step = "inspect"
    <3>1. PICK c \in Specs : work' = [work EXCEPT ![r] =
            [step |-> "inspect", spec |-> c, wasRunning |-> FALSE, had |-> FALSE]]
      BY <1>1 DEF Begin
    <3>2. [step |-> "inspect", spec |-> c, wasRunning |-> FALSE, had |-> FALSE] \in Work
      BY DEF Work, Steps
    <3> QED BY <3>1, <3>2, <1>0, ContainerAssumption DEF TypeOK
  <2>3. Owners = Seen(main) /\ Owners' = Seen(main')
    BY <1>0, <2>1, <2>2, OwnersAtRest, OwnersWorkingNext DEF View
  <2> QED BY <1>1, <2>3 DEF Begin
<1>2. ASSUME NEW r \in Workers, Inspect(r) PROVE Same
  <2>1. work[r] # Idle /\ work[r].step = "inspect"
    BY <1>2 DEF Inspect, At
  <2>2. work'[r] # Idle /\ work'[r].step = "sweep" /\ told' = told
    BY <1>0, <1>2, <2>1, ThenWorks DEF Inspect, Steps
  <2>3. Owners = Seen(main) /\ Owners' = Seen(main')
    BY <1>0, <2>1, <2>2, OwnersWorking, OwnersWorkingNext DEF View
  <2> QED BY <1>2, <2>2, <2>3 DEF Inspect
<1>d. ASSUME NEW r \in Workers, work[r] # Idle
      PROVE  work[r].wasRunning \in BOOLEAN /\ work[r].had \in BOOLEAN /\ asked # "gone"
  BY <1>0, <1>d DEF TypeOK, Work, OnItsWay
<1>3. ASSUME NEW r \in Workers, Sweep(r) PROVE Same
  <2>1. work[r] # Idle /\ work[r].step = "sweep"
    BY <1>3 DEF Sweep, At
  <2>2. work'[r] # Idle /\ work'[r].step = "rename" /\ told' = told
    BY <1>0, <1>3, <1>d, <2>1, ThenWorks DEF Sweep, Goto, Steps
  <2>3. Owners = Seen(main) /\ Owners' = Seen(main')
    BY <1>0, <2>1, <2>2, OwnersWorking, OwnersWorkingNext DEF View
  <2> QED BY <1>3, <2>2, <2>3 DEF Sweep
<1>4. ASSUME NEW r \in Workers, Rename(r) PROVE Same \/ Failed
  <2>1. work[r] # Idle /\ work[r].step = "rename" /\ asked' = asked
    BY <1>4 DEF Rename, At
  <2>2. work[r].wasRunning <=> Up(main)
    BY <1>0, <2>1 DEF OnItsWay
  <2>3. Owners = Seen(main)
    BY <1>0, <2>1, OwnersWorking DEF View
  <2>4. CASE Return(r, "error") /\ main' = main
    <3>1. AtRest' /\ told' = "error" /\ Owners' = Seen(main)
      BY <1>0, <2>1, <2>4, ReturnRests, OwnersAtRestNext
    <3>2. CASE Owners = NoContainer
      BY <1>d, <2>1, <2>3, <3>1, <3>2 DEF Promise!FailToReplace
    <3>3. CASE Owners # NoContainer
      BY <1>d, <2>1, <2>3, <3>1, <3>3 DEF Promise!FailToReplace
    <3> QED BY <3>2, <3>3
  <2>5. CASE main = NoContainer /\ main' = main /\ Then(r, "create", work[r].wasRunning, FALSE)
    <3>1. /\ work'[r] # Idle /\ work'[r].step = "create" /\ told' = told
          /\ work'[r].had = FALSE
      BY <1>0, <1>d, <2>1, <2>5, ThenWorks DEF Steps
    <3>2. Owners' = NoContainer
      BY <1>0, <3>1, OwnersWorkingNext DEF View
    <3> QED BY <2>1, <2>3, <2>5, <3>1, <3>2 DEF Seen
  <2>6. CASE /\ main # NoContainer
             /\ old' = main
             /\ IF work[r].wasRunning THEN Then(r, "halt", TRUE, TRUE)
                ELSE Then(r, "create", FALSE, TRUE)
    <3>1. /\ work'[r] # Idle /\ work'[r].step \in {"halt", "create"} /\ told' = told
          /\ work'[r].wasRunning = work[r].wasRunning
          /\ work'[r].had = TRUE
      <4>1. CASE work[r].wasRunning
        BY <1>0, <1>d, <2>1, <2>6, <4>1, ThenWorks DEF Steps
      <4>2. CASE ~work[r].wasRunning
        BY <1>0, <1>d, <2>1, <2>6, <4>2, ThenWorks DEF Steps
      <4> QED BY <4>1, <4>2
    <3>2. Owners' = Kept(main, work'[r])
      BY <1>0, <2>6, <3>1, OwnersWorkingNext DEF View
    <3>3. Owners' = Seen(main)
      <4>1. work'[r].wasRunning = (main.state # "offline")
        BY <1>d, <2>1, <2>2, <2>6, <3>1 DEF Up
      <4> QED BY <2>6, <3>2, <4>1 DEF Kept, Seen
    <3> QED BY <2>1, <2>3, <3>1, <3>3
  <2> QED BY <1>4, <2>4, <2>5, <2>6 DEF Rename
<1>f. ASSUME NEW r \in Workers, work[r] # Idle, work[r].step \in {"halt", "create", "restore"}
      PROVE  /\ main = NoContainer
             /\ Owners = IF work[r].had THEN Kept(old, work[r]) ELSE NoContainer
             /\ work[r].had => old # NoContainer /\ (~work[r].wasRunning => ~Up(old))
             /\ ~work[r].had => ~work[r].wasRunning
  BY <1>0, <1>f, OwnersWorking DEF OnItsWay, View
<1>g. ASSUME NEW r \in Workers, work[r] # Idle, NEW st \in {"create", "restore"}, Goto(r, st)
      PROVE  /\ work'[r] # Idle /\ work'[r].step = st /\ told' = told
             /\ work'[r].wasRunning = work[r].wasRunning
             /\ Owners' = IF work[r].had /\ old' # NoContainer
                          THEN Kept(old', work[r]) ELSE NoContainer
  <2>1. /\ work'[r] # Idle /\ work'[r].step = st /\ told' = told
        /\ work'[r].wasRunning = work[r].wasRunning
        /\ work'[r].had = work[r].had
    BY <1>0, <1>d, <1>g, ThenWorks DEF Goto, Steps
  <2> QED BY <1>0, <2>1, OwnersWorkingNext DEF View, Kept
<1>5. ASSUME NEW r \in Workers, Halt(r) PROVE Same
  <2>1. work[r] # Idle /\ work[r].step = "halt" /\ work[r].had /\ asked' = asked
    BY <1>0, <1>5 DEF Halt, At, OnItsWay
  <2>2. Owners = Kept(old, work[r]) /\ old # NoContainer
    BY <1>f, <2>1
  <2>3. CASE old' = InState(old, "offline") /\ Goto(r, "create")
    <3>1. old'.spec = old.spec /\ old' # NoContainer
      BY <1>0, <2>2, <2>3, ContainerAssumption DEF InState, TypeOK, Docker, State
    <3> QED BY <1>g, <2>1, <2>2, <2>3, <3>1 DEF Kept
  <2>4. CASE old' = old /\ Goto(r, "restore")
    BY <1>g, <2>1, <2>2, <2>4
  <2> QED BY <1>5, <2>3, <2>4 DEF Halt
<1>6. ASSUME NEW r \in Workers, Create(r) PROVE Same \/ Replaced
  <2>1. work[r] # Idle /\ work[r].step = "create" /\ asked' = asked /\ old' = old
    BY <1>6 DEF Create, At
  <2>2. CASE Goto(r, "restore")
    BY <1>f, <1>g, <2>1, <2>2
  <2>3. CASE /\ main' = [spec |-> work[r].spec, state |-> "offline"]
             /\ IF work[r].had THEN Goto(r, "drop")
                ELSE IF work[r].wasRunning THEN Goto(r, "start") ELSE Return(r, "done")
    <3> DEFINE c == work[r].spec
    <3>2. c \in Specs
      BY <1>0, <2>1 DEF TypeOK, Work
    <3>3. CASE work[r].had
      <4>1. /\ work'[r] # Idle /\ work'[r].step = "drop" /\ told' = told
            /\ work'[r].wasRunning = work[r].wasRunning
        BY <1>0, <1>d, <2>1, <2>3, <3>3, ThenWorks DEF Goto, Steps
      <4>2. Owners' = Kept(main', work'[r])
        BY <1>0, <4>1, OwnersWorkingNext DEF View
      <4>3. Owners = Kept(old, work[r]) /\ old # NoContainer
        BY <1>f, <2>1, <3>3
      <4>4. Owners' = [Owners EXCEPT !.spec = c]
        <5>1. Owners' = [spec |-> c, up |-> work[r].wasRunning]
          BY <2>3, <4>1, <4>2 DEF Kept
        <5>2. Owners = [spec |-> old.spec, up |-> work[r].wasRunning]
          BY <4>3 DEF Kept
        <5> QED BY <5>1, <5>2
      <4>5. Owners # NoContainer
        <5>1. old.spec \in Specs
          BY <1>0, <4>3 DEF TypeOK, Docker
        <5>2. Kept(old, work[r]) \in [spec : Specs, up : BOOLEAN]
          BY <1>d, <2>1, <5>1, Zenon DEF Kept
        <5> QED BY <4>3, <5>2, ContainerAssumption
      <4> QED BY <1>d, <2>1, <3>2, <4>1, <4>4, <4>5 DEF Promise!ReplaceBox
    <3>4. CASE ~work[r].had
      <4>1. AtRest' /\ told' = "done"
        BY <1>0, <1>f, <2>1, <2>3, <3>4, ReturnRests
      <4>3. main' # NoContainer
        BY <2>3, <3>2, ContainerAssumption DEF State
      <4>2. Owners = NoContainer /\ Owners' = [spec |-> c, up |-> FALSE]
        BY <1>f, <2>1, <2>3, <3>4, <4>1, <4>3, OwnersAtRestNext DEF Seen
      <4> QED BY <1>d, <2>1, <3>2, <4>1, <4>2 DEF Promise!ReplaceBox
    <3> QED BY <3>3, <3>4
  <2> QED BY <1>6, <2>2, <2>3 DEF Create
<1>e. ASSUME NEW r \in Workers, work[r] # Idle, work[r].step \in {"drop", "start", "restart"}
      PROVE  /\ main # NoContainer
             /\ Owners = [spec |-> main.spec, up |-> work[r].wasRunning]
             /\ main.spec \in Specs
             /\ Owners # NoContainer
  <2>1. main # NoContainer
    BY <1>0, <1>e DEF OnItsWay
  <2>2. main.spec \in Specs
    BY <1>0, <2>1 DEF TypeOK, Docker
  <2>3. Owners = [spec |-> main.spec, up |-> work[r].wasRunning]
    BY <1>0, <1>e, OwnersWorking DEF View, Kept
  <2>4. [spec |-> main.spec, up |-> work[r].wasRunning] \in [spec : Specs, up : BOOLEAN]
    BY <1>d, <1>e, <2>2, Zenon
  <2> QED BY <2>1, <2>2, <2>3, <2>4, ContainerAssumption
<1>7. ASSUME NEW r \in Workers, Drop(r) PROVE Same \/ Replaced \/ Failed
  <2>1. work[r] # Idle /\ work[r].step = "drop"
    BY <1>7 DEF Drop, At
  <2>2. main' = main /\ asked' = asked
    BY <1>7 DEF Drop
  <2>3. CASE Goto(r, "start")
    <3>1. /\ work'[r] # Idle /\ work'[r].step = "start" /\ told' = told
          /\ work'[r].wasRunning = work[r].wasRunning
      BY <1>0, <1>d, <2>1, <2>3, ThenWorks DEF Goto, Steps
    <3>2. Owners' = Kept(main', work'[r])
      BY <1>0, <3>1, OwnersWorkingNext DEF View
    <3> QED BY <1>e, <2>1, <2>2, <3>1, <3>2 DEF Kept
  <2>4. ASSUME NEW how \in {"done", "error"}, Return(r, how),
               how = "done" => ~work[r].wasRunning
        PROVE  Replaced \/ Failed
    <3>1. AtRest' /\ told' = how
      BY <1>0, <2>1, <2>4, ReturnRests
    <3>2. ~Up(main)
      BY <1>0, <2>1 DEF OnItsWay
    <3>3. Owners' = [spec |-> main.spec, up |-> FALSE]
      BY <1>e, <2>1, <2>2, <3>1, <3>2, OwnersAtRestNext DEF Seen, Up
    <3>0. Owners = [spec |-> main.spec, up |-> work[r].wasRunning]
      BY <1>e, <2>1
    <3>4. CASE how = "done"
      <4>1. work[r].wasRunning = FALSE
        BY <1>d, <2>1, <2>4, <3>4
      <4>2. Owners' = [Owners EXCEPT !.spec = main.spec]
        <5>1. Owners = [spec |-> main.spec, up |-> FALSE]
          BY <3>0, <4>1
        <5> QED BY ZenonT(40), <3>3, <5>1, BoxChanged
      <4> QED BY <1>d, <1>e, <2>1, <2>2, <3>1, <3>4, <4>2 DEF Promise!ReplaceBox
    <3>5. CASE how = "error"
      <4>1. Owners' = [Owners EXCEPT !.up = FALSE]
        BY ZenonT(40), <3>0, <3>3, BoxChanged
      <4> QED BY <1>d, <1>e, <2>1, <2>2, <3>1, <3>5, <4>1 DEF Promise!FailToReplace
    <3> QED BY <3>4, <3>5
  <2> QED BY <1>7, <2>3, <2>4 DEF Drop
<1>8. ASSUME NEW r \in Workers, Start(r) PROVE Replaced \/ Failed
  <2>1. work[r] # Idle /\ work[r].step \in {"start", "restart"} /\ asked' = asked
    BY <1>8 DEF Start, At
  <2>2. work[r].wasRunning = TRUE
    BY <1>0, <1>d, <2>1 DEF OnItsWay
  <2>3. PICK how : Return(r, how)
    BY <1>8 DEF Start
  <2>4. AtRest' /\ told' = how /\ Owners' = Seen(main')
    BY <1>0, <2>1, <2>3, ReturnRests, OwnersAtRestNext
  <2>5. CASE main' = Started
    <3>1. Owners' = [spec |-> main.spec, up |-> TRUE]
      <4>1. main' = [spec |-> main.spec, state |-> "running"]
        BY <1>e, <2>1, <2>5 DEF Started, InState
      <4>2. main' # NoContainer
        BY <1>e, <2>1, <4>1, ContainerAssumption DEF State
      <4> QED BY <2>4, <4>1, <4>2 DEF Seen
    <3>2. Owners' = Owners
      BY <1>e, <2>1, <2>2, <3>1
    <3>3. told' \in {"done", "error"}
      BY <1>8 DEF Start, Return
    <3>4. CASE told' = "done"
      <4>1. Owners' = [Owners EXCEPT !.spec = main.spec]
        BY <1>e, <2>1, <3>2
      <4> QED BY <1>d, <1>e, <2>1, <3>4, <4>1 DEF Promise!ReplaceBox
    <3>5. CASE told' = "error"
      BY <1>d, <2>1, <3>2, <3>5 DEF Promise!FailToReplace
    <3> QED BY <3>3, <3>4, <3>5
  <2>6. CASE main' = main /\ Return(r, "error") /\ main' # Started
    <3>1. told' = "error"
      BY <2>6 DEF Return
    <3>2. Owners' = [spec |-> main.spec, up |-> main.state # "offline"]
      BY <1>e, <2>1, <2>4, <2>6 DEF Seen
    <3>3. Owners' \in {Owners, [Owners EXCEPT !.up = FALSE]}
      <4>1. Owners = [spec |-> main.spec, up |-> TRUE]
        BY <1>e, <2>1, <2>2
      <4>2. CASE main.state = "offline"
        <5>1. Owners' = [spec |-> main.spec, up |-> FALSE]
          BY <3>2, <4>2
        <5>2. Owners' = [Owners EXCEPT !.up = FALSE]
          BY ZenonT(40), <4>1, <5>1, BoxChanged
        <5> QED BY <5>2
      <4>3. CASE main.state # "offline"
        <5>1. Owners' = [spec |-> main.spec, up |-> TRUE]
          BY <3>2, <4>3
        <5> QED BY <4>1, <5>1
      <4> QED BY <4>2, <4>3
    <3> QED BY <1>d, <1>e, <2>1, <3>1, <3>3 DEF Promise!FailToReplace
  <2> QED BY <1>8, <2>5, <2>6 DEF Start
<1>9. ASSUME NEW r \in Workers, Restore(r) PROVE Same \/ Failed
  <2>1. work[r] # Idle /\ work[r].step = "restore" /\ asked' = asked /\ main = NoContainer
    BY <1>9, <1>f DEF Restore, At
  <2>2. CASE Goto(r, "restart") /\ main' = old /\ old # NoContainer /\ work[r].wasRunning
    <3>1. /\ work'[r] # Idle /\ work'[r].step = "restart" /\ told' = told
          /\ work'[r].wasRunning = work[r].wasRunning
      BY <1>0, <1>d, <2>1, <2>2, ThenWorks DEF Goto, Steps
    <3>2. Owners' = Kept(main', work'[r])
      BY <1>0, <3>1, OwnersWorkingNext DEF View
    <3>3. Owners = Kept(old, work[r])
      BY <1>f, <2>1, <2>2
    <3> QED BY <2>1, <2>2, <3>1, <3>2, <3>3 DEF Kept
  <2>3. ASSUME Return(r, "error") PROVE AtRest' /\ told' = "error" /\ Owners' = Seen(main')
    BY <1>0, <2>1, <2>3, ReturnRests, OwnersAtRestNext
  <2>4. CASE Return(r, "error") /\ main' = old /\ old # NoContainer /\ ~work[r].wasRunning
    <3>1. Seen(old) \in [spec : Specs, up : BOOLEAN]
      <4>1. old.spec \in Specs
        BY <1>0, <2>4 DEF TypeOK, Docker
      <4>2. [spec |-> old.spec, up |-> old.state # "offline"] \in [spec : Specs, up : BOOLEAN]
        BY <4>1, Zenon
      <4> QED BY <2>4, <4>2 DEF Seen
    <3>2. CASE work[r].had
      <4>1. Owners = Seen(old)
        <5>1. work[r].wasRunning = (old.state # "offline")
          BY <1>d, <1>f, <2>1, <2>4, <3>2 DEF Up
        <5> QED BY <1>f, <2>1, <2>4, <3>2, <5>1 DEF Kept, Seen
      <4>2. Owners # NoContainer
        BY <3>1, <4>1, ContainerAssumption
      <4> QED BY <1>d, <2>1, <2>3, <2>4, <4>1, <4>2 DEF Promise!FailToReplace
    <3>3. CASE ~work[r].had
      BY <1>d, <1>f, <2>1, <2>3, <2>4, <3>1, <3>3 DEF Promise!FailToReplace
    <3> QED BY <3>2, <3>3
  <2>5. CASE Return(r, "error") /\ main' = main
    <3>1. Owners' = NoContainer
      BY <2>1, <2>3, <2>5 DEF Seen
    <3> QED BY <1>d, <2>1, <2>3, <2>5, <3>1 DEF Promise!FailToReplace
  <2> QED BY <1>9, <2>2, <2>4, <2>5 DEF Restore
<1>10. ASSUME NEW r \in Workers, Abort(r) PROVE Failed
  <2>1. work[r] # Idle /\ main' = main /\ asked' = asked
    BY <1>10 DEF Abort
  <2>2. AtRest' /\ told' = "error" /\ Owners' = Seen(main)
    BY <1>0, <1>10, <2>1, ReturnRests, OwnersAtRestNext DEF Abort
  <2>3. work[r].step \in Steps
    BY <1>0, <2>1 DEF TypeOK, Work
  <2>4. CASE work[r].step \in {"inspect", "sweep", "rename"}
    <3>1. Owners' = Owners
      BY <1>0, <2>1, <2>2, <2>4, OwnersWorking DEF View
    <3> QED BY <1>d, <2>1, <2>2, <3>1 DEF Promise!FailToReplace
  <2>5. CASE work[r].step \in {"halt", "create", "restore"}
    <3>1. Owners' = NoContainer
      BY <1>f, <2>1, <2>2, <2>5 DEF Seen
    <3> QED BY <1>d, <2>1, <2>2, <3>1 DEF Promise!FailToReplace
  <2>6. CASE work[r].step \in {"drop", "start", "restart"}
    <3>1. Owners = [spec |-> main.spec, up |-> work[r].wasRunning]
      BY <1>e, <2>1, <2>6
    <3>2. CASE ~Up(main)
      <4>1. Owners' = [spec |-> main.spec, up |-> FALSE]
        BY <1>e, <2>1, <2>2, <2>6, <3>2 DEF Seen, Up
      <4>2. Owners' = [Owners EXCEPT !.up = FALSE]
        BY ZenonT(40), <3>1, <4>1, BoxChanged
      <4> QED BY <1>d, <1>e, <2>1, <2>2, <2>6, <4>2 DEF Promise!FailToReplace
    <3>3. CASE Up(main)
      <4>1. work[r].wasRunning = TRUE
        BY <1>0, <1>d, <2>1, <2>6, <3>3 DEF OnItsWay
      <4>2. Owners' = Owners
        BY <2>2, <3>1, <3>3, <4>1 DEF Seen, Up
      <4> QED BY <1>d, <2>1, <2>2, <4>2 DEF Promise!FailToReplace
    <3> QED BY <3>2, <3>3
  <2> QED BY <2>3, <2>4, <2>5, <2>6 DEF Steps
<1>h. ASSUME AtRest, UNCHANGED work PROVE Owners = Seen(main) /\ Owners' = Seen(main')
  <2>1. AtRest'
    BY <1>h DEF AtRest
  <2> QED BY <1>h, <2>1, OwnersAtRest, OwnersAtRestNext
<1>i. ASSUME main # NoContainer
      PROVE  /\ main.spec \in Specs
             /\ Seen(main) = [spec |-> main.spec, up |-> main.state # "offline"]
             /\ Seen(main) # NoContainer
  <2>1. main.spec \in Specs
    BY <1>0, <1>i DEF TypeOK, Docker
  <2>2. [spec |-> main.spec, up |-> main.state # "offline"] \in [spec : Specs, up : BOOLEAN]
    BY <2>1, Zenon
  <2>3. Seen(main) = [spec |-> main.spec, up |-> main.state # "offline"]
    BY <1>i DEF Seen
  <2> QED BY <2>1, <2>2, <2>3, ContainerAssumption
<1>j. ASSUME main # NoContainer, NEW st \in State, main' = InState(main, st)
      PROVE  Seen(main') = [Seen(main) EXCEPT !.up = (st # "offline")]
  <2>1. main' = [spec |-> main.spec, state |-> st]
    BY <1>j DEF InState
  <2>2. main' # NoContainer
    BY <1>i, <1>j, <2>1, ContainerAssumption
  <2>3. Seen(main') = [spec |-> main.spec, up |-> (st # "offline")]
    BY <2>1, <2>2 DEF Seen
  <2> QED BY <1>i, <1>j, <2>3, BoxChanged
<1>11. CASE PowerStart
  <2>1. AtRest /\ main # NoContainer /\ main' = InState(main, "running")
    BY <1>11 DEF PowerStart, MayAct, Undisturbed, Started
  <2>2. Seen(main') = [Seen(main) EXCEPT !.up = TRUE]
    BY <1>j, <2>1 DEF State
  <2> QED BY <1>11, <1>h, <1>i, <2>1, <2>2
          DEF PowerStart, Promise!BoxNext, Promise!StartBox, Promise!Powered
<1>12. CASE PowerStop
  <2>1. AtRest /\ main # NoContainer /\ main' = InState(main, "offline")
    BY <1>12 DEF PowerStop, MayAct, Undisturbed
  <2>2. Seen(main') = [Seen(main) EXCEPT !.up = FALSE]
    BY <1>j, <2>1 DEF State
  <2> QED BY <1>12, <1>h, <1>i, <2>1, <2>2
          DEF PowerStop, Promise!BoxNext, Promise!HaltBox, Promise!Powered
<1>13. CASE Delete
  <2>1. AtRest
    BY <1>13 DEF Delete, MayAct, Undisturbed
  <2>2. Owners' = NoContainer
    BY <1>13, <1>h, <2>1 DEF Delete, Seen
  <2> QED BY <1>13, <2>2 DEF Delete, Promise!BoxNext, Promise!RemoveBox
<1>14. CASE Crash
  BY <1>14 DEF Crash, Undisturbed
<1>15. CASE UNCHANGED vars
  <2>1. main' = main /\ old' = old /\ work' = work /\ asked' = asked /\ told' = told
    BY <1>15 DEF vars
  <2>2. CASE AtRest
    BY <1>a, <1>h, <2>1, <2>2
  <2>3. CASE ~AtRest
    <3>1. PICK r \in Workers : work[r] # Idle
      BY <2>3 DEF AtRest
    <3>2. Owners' = Owners
      BY <1>0, <2>1, <3>1, OwnersWorking, OwnersWorkingNext
    <3> QED BY <1>a, <2>1, <3>2
  <2> QED BY <2>2, <2>3
<1> QED
  <2> HIDE DEF Same, Failed, Replaced
  <2> QED BY <1>a, <1>b, <1>c, <1>1, <1>2, <1>3, <1>4, <1>5, <1>6, <1>7, <1>8,
     <1>9, <1>10, <1>11, <1>12, <1>13, <1>14, <1>15 DEF Next, Rebuild

\* With nothing beside it, a rebuild, whichever of its Docker calls fails and
\* wherever it is cut off, is for the owner one step: the container replaced by one
\* that is up if and only if it was, or an error told.  That is so as long as no
\* inspection has failed, which the code takes for a stopped container
\* (RecreateContainer, restoreContainer).
THEOREM RebuildIsOneStep == Spec => ImplementsContainer
<1> DEFINE I == Undisturbed /\ "inspect" \notin failed => WayInv
<1>1. Init => I
  BY ContainerAssumption
  DEF Init, WayInv, OnItsWay, TypeOK, Alone, NoStarting, Up, At, Docker, State, Mishaps
<1>2. Init => Promise!BoxInit
  <2> SUFFICES ASSUME Init PROVE Promise!BoxInit
    OBVIOUS
  <2>1. AtRest /\ main.spec \in Specs /\ main = [spec |-> main.spec, state |-> "offline"]
    BY DEF Init, AtRest
  <2>2. main # NoContainer
    BY <2>1, ContainerAssumption DEF State
  <2>3. Owners = [spec |-> main.spec, up |-> FALSE]
    <3>1. main.state = "offline"
      BY <2>1
    <3> QED BY <2>1, <2>2, <3>1, OwnersAtRest DEF Seen
  <2> QED BY <2>1, <2>3 DEF Init, Promise!BoxInit
<1>3. [Next]_vars => (Undisturbed' <=> Undisturbed)
  BY DEF Next, vars, Undisturbed, Overlap, Faults
<1>4. [Next]_vars /\ "inspect" \notin failed' => "inspect" \notin failed
  BY FailedGrows
<1>5. I /\ [Next]_vars => I'
  BY <1>3, <1>4, StepWay
<1>6. I /\ [Next]_vars
         => [Undisturbed /\ "inspect" \notin failed'
              => [Promise!BoxNext]_Promise!containerVars]_vars
  BY <1>4, StepImplements
<1> QED BY <1>1, <1>2, <1>5, <1>6, PTL DEF Spec, ImplementsContainer
=============================================================================
