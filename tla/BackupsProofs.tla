--------------------------- MODULE BackupsProofs ----------------------------
(***************************************************************************)
(* The backups of any number of servers, with any number of archives and   *)
(* requests.  Inv says what holds of every server, CalmInv what holds of   *)
(* the calm ones beside any others.                                        *)
(***************************************************************************)
EXTENDS Backups, FiniteSetTheorems, TLAPS

\* Request r is a user's Create that holds the lock of its server's row.
Holds(r) == (At(r, "count") \/ At(r, "reserve")) /\ work[r].user

\* Request r makes the archive of its backup.
Makes(r) == At(r, "call") \/ At(r, "write") \/ At(r, "record")

Restores(r) == At(r, "fetch") \/ At(r, "unpack")

Tends(r) == work[r] # Idle /\ work[r].server \in Calm

\* The lock of a server's row has one holder.
OneHolder ==
    \A r, q \in Requests : Holds(r) /\ Holds(q) /\ work[r].server = work[q].server => r = q

\* A backup and the requests that are about it belong to the same server.
Acquainted ==
    \A r \in Requests :
        work[r] # Idle /\ work[r].backup # Unused =>
            LET b == work[r].backup IN
            /\ rows[b] # Unused
            /\ rows[b] \in Row => rows[b].server = work[r].server
            /\ archive[b] # NoFile => archive[b].server = work[r].server
            /\ \A q \in Requests : Concerns(q, b) => work[q].server = work[r].server

\* Only a backup that has had a row has an archive.
FilesFollowRows ==
    \A b \in Archives :
        archive[b] # NoFile =>
            rows[b] # Unused /\ (rows[b] \in Row => archive[b].server = rows[b].server)

\* The foreign key: no backup without its server.
RowsStand == \A b \in Archives : rows[b] \in Row => life[rows[b].server] # "gone"

\* A backup has one maker, is not successful before that is done, and is not
\* restored before it is successful.
MakesAlone ==
    \A r \in Requests :
        Makes(r) =>
            /\ rows[work[r].backup] \in Row => ~rows[work[r].backup].done
            /\ \A q \in Requests :
                  (Makes(q) \/ Restores(q)) /\ q # r => work[q].backup # work[r].backup

\* A successful backup's archive, if it is still there, is whole.
DoneIsWhole ==
    /\ \A b \in Archives :
          rows[b] \in Row /\ archive[b] # NoFile /\ rows[b].done => archive[b].whole
    /\ \A r \in Requests :
          At(r, "record") =>
              LET f == archive[work[r].backup] IN f # NoFile => f.whole

Inv == /\ TypeOK
       /\ OneHolder
       /\ SlotStillFree
       /\ Acquainted
       /\ FilesFollowRows
       /\ RowsStand
       /\ MakesAlone
       /\ DoneIsWhole
       /\ RestoresWhole

\* For a calm server the panel always waits for the daemon.
CalmWaits == \A r \in Requests : Tends(r) => work[r].waits

\* A calm server that is being deleted has no files on the node any more, unless its
\* deletion was forced or ignored an error.
CalmGone ==
    \A s \in Calm \ litter :
        life[s] # "live" =>
            s \notin files /\ \A b \in Archives : archive[b] # NoFile => archive[b].server # s

CalmUnpacks ==
    \A r \in Requests :
        Tends(r) /\ At(r, "unpack") /\ work[r].server \notin litter =>
            life[work[r].server] = "live"

\* The backup that is being made is there, unless its server goes.
CalmMakes ==
    \A r \in Requests :
        Tends(r) /\ Makes(r) =>
            /\ rows[work[r].backup] \in Row \/ life[work[r].server] = "gone"
            /\ At(r, "call") \/ archive[work[r].backup] # NoFile \/ life[work[r].server] # "live"

\* Nobody makes the backup that is being deleted, whose archive goes first.
CalmDeletes ==
    \A r \in Requests :
        Tends(r) /\ (At(r, "unlink") \/ At(r, "drop")) =>
            /\ \A q \in Requests : Makes(q) => work[q].backup # work[r].backup
            /\ At(r, "drop") => archive[work[r].backup] = NoFile

CalmInv == /\ Inv
           /\ CalmWaits
           /\ CalmGone
           /\ CalmUnpacks
           /\ CalmMakes
           /\ CalmDeletes
           /\ NothingStrands
           /\ SuccessIsStored

-----------------------------------------------------------------------------

\* The rows of a server are finitely many, and fewer if some go.
LEMMA FewerRows ==
    ASSUME NEW S \in SUBSET Archives, NEW T \in SUBSET S, NEW n \in Nat, Cardinality(S) < n
    PROVE  Cardinality(T) < n
<1>1. IsFiniteSet(S)
  BY BackupsAssumption, FS_Subset
<1>2. IsFiniteSet(T) /\ Cardinality(T) <= Cardinality(S)
  BY <1>1, FS_Subset
<1>3. Cardinality(S) \in Nat /\ Cardinality(T) \in Nat
  BY <1>1, <1>2, FS_CardinalityType
<1> QED BY <1>2, <1>3

\* The backups kept for a server can be counted.
LEMMA KeptCounts ==
    ASSUME NEW s \in Servers
    PROVE  Cardinality(Kept(s)) \in Nat
BY BackupsAssumption, FS_Subset, FS_CardinalityType DEF Kept

\* No backup has been made yet (0001_init.sql).
LEMMA InitInv == ASSUME Init PROVE CalmInv
BY BackupsAssumption DEF Init, CalmInv, Inv, TypeOK, OneHolder, SlotStillFree, Acquainted,
   FilesFollowRows, RowsStand, MakesAlone, DoneIsWhole, RestoresWhole, CalmWaits, CalmGone,
   CalmUnpacks, CalmMakes, CalmDeletes, NothingStrands, SuccessIsStored, At, Tends, Holds,
   Makes, Restores

-----------------------------------------------------------------------------
(* Whatever overlaps, is cut off and dies *)

\* A request for a backup begins.
LEMMA CreateBeginInv == ASSUME Inv, NEW r \in Requests, CreateBegin(r) PROVE Inv'
<1> USE BackupsAssumption DEF CreateBegin, At, Begin, Inv
<1>1. TypeOK'
  BY DEF TypeOK, Work, Row, File, Steps, Acquainted
<1>2. OneHolder'
  BY DEF TypeOK, Work, OneHolder, Holds
<1>3. SlotStillFree'
  <2> SUFFICES ASSUME NEW q \in Requests, At(q, "reserve")', work'[q].user
               PROVE  Cardinality(Kept(work[q].server))' < work'[q].limit
    BY DEF SlotStillFree
  <2>1. At(q, "reserve") /\ work'[q].server = work[q].server /\ work[q].server \in Servers
        /\ work'[q].limit = work[q].limit /\ work[q].limit \in Nat /\ work[q].user
    BY DEF TypeOK, Work
  <2>2. Kept(work[q].server)' \subseteq Kept(work[q].server)
    BY <2>1 DEF TypeOK, Work, Row, Kept, Acquainted
  <2> QED BY <2>1, <2>2, FewerRows DEF SlotStillFree, Kept
<1>4. Acquainted'
  BY DEF TypeOK, Work, Row, File, Acquainted, FilesFollowRows, Concerns
<1>5. FilesFollowRows'
  BY DEF TypeOK, Work, Row, File, Acquainted, FilesFollowRows
<1>6. RowsStand'
  BY DEF TypeOK, Work, Row, Acquainted, RowsStand
<1>7. MakesAlone'
  BY DEF TypeOK, Work, Row, Acquainted, MakesAlone, Makes, Restores
<1>8. DoneIsWhole'
  BY DEF TypeOK, Work, Row, File, Acquainted, FilesFollowRows, MakesAlone, DoneIsWhole,
     Makes, Restores
<1>9. RestoresWhole'
  BY DEF TypeOK, Work, Row, File, Acquainted, MakesAlone, DoneIsWhole, RestoresWhole,
     Makes, Restores
<1> QED BY <1>1, <1>2, <1>3, <1>4, <1>5, <1>6, <1>7, <1>8, <1>9

\* The server's row is locked once nobody else holds it.
LEMMA LockServerInv == ASSUME Inv, NEW r \in Requests, LockServer(r) PROVE Inv'
<1> USE BackupsAssumption DEF LockServer, At, Goto, Then, Locked, Inv
<1>1. TypeOK'
  BY DEF TypeOK, Work, Row, File, Steps, Acquainted
<1>2. OneHolder'
  BY DEF TypeOK, Work, OneHolder, Holds
<1>3. SlotStillFree'
  <2> SUFFICES ASSUME NEW q \in Requests, At(q, "reserve")', work'[q].user
               PROVE  Cardinality(Kept(work[q].server))' < work'[q].limit
    BY DEF SlotStillFree
  <2>1. At(q, "reserve") /\ work'[q].server = work[q].server /\ work[q].server \in Servers
        /\ work'[q].limit = work[q].limit /\ work[q].limit \in Nat /\ work[q].user
    BY DEF TypeOK, Work
  <2>2. Kept(work[q].server)' \subseteq Kept(work[q].server)
    BY <2>1 DEF TypeOK, Work, Row, Kept, Acquainted
  <2> QED BY <2>1, <2>2, FewerRows DEF SlotStillFree, Kept
<1>4. Acquainted'
  BY DEF TypeOK, Work, Row, File, Acquainted, FilesFollowRows, Concerns
<1>5. FilesFollowRows'
  BY DEF TypeOK, Work, Row, File, Acquainted, FilesFollowRows
<1>6. RowsStand'
  BY DEF TypeOK, Work, Row, Acquainted, RowsStand
<1>7. MakesAlone'
  BY DEF TypeOK, Work, Row, Acquainted, MakesAlone, Makes, Restores
<1>8. DoneIsWhole'
  BY DEF TypeOK, Work, Row, File, Acquainted, FilesFollowRows, MakesAlone, DoneIsWhole,
     Makes, Restores
<1>9. RestoresWhole'
  BY DEF TypeOK, Work, Row, File, Acquainted, MakesAlone, DoneIsWhole, RestoresWhole,
     Makes, Restores
<1> QED BY <1>1, <1>2, <1>3, <1>4, <1>5, <1>6, <1>7, <1>8, <1>9

\* The backups are counted, with or without the lock.
LEMMA CountInv == ASSUME Inv, NEW r \in Requests, Count(r) PROVE Inv'
<1> USE BackupsAssumption DEF Count, At, Goto, Then, Finish, Inv
<1>1. TypeOK'
  BY DEF TypeOK, Work, Row, File, Steps, Acquainted
<1>2. OneHolder'
  BY DEF TypeOK, Work, OneHolder, Holds
<1>3. SlotStillFree'
  <2> SUFFICES ASSUME NEW q \in Requests, At(q, "reserve")', work'[q].user
               PROVE  Cardinality(Kept(work[q].server))' < work'[q].limit
    BY DEF SlotStillFree
  <2>1. Kept(work[q].server)' = Kept(work'[q].server)
    BY DEF Kept
  <2>2. work'[q].server = work[q].server /\ work[q].server \in Servers
        /\ work'[q].limit = work[q].limit /\ work[q].limit \in Nat /\ work[q].user
    BY DEF TypeOK, Work
  <2>3. CASE q = r
    BY <2>1, <2>2, <2>3, KeptCounts DEF TypeOK
  <2>4. CASE q # r
    BY <2>1, <2>2, <2>4 DEF TypeOK, SlotStillFree
  <2> QED BY <2>3, <2>4
<1>4. Acquainted'
  BY DEF TypeOK, Work, Row, File, Acquainted, FilesFollowRows, Concerns
<1>5. FilesFollowRows'
  BY DEF TypeOK, Work, Row, File, Acquainted, FilesFollowRows
<1>6. RowsStand'
  BY DEF TypeOK, Work, Row, Acquainted, RowsStand
<1>7. MakesAlone'
  BY DEF TypeOK, Work, Row, Acquainted, MakesAlone, Makes, Restores
<1>8. DoneIsWhole'
  BY DEF TypeOK, Work, Row, File, Acquainted, FilesFollowRows, MakesAlone, DoneIsWhole,
     Makes, Restores
<1>9. RestoresWhole'
  BY DEF TypeOK, Work, Row, File, Acquainted, MakesAlone, DoneIsWhole, RestoresWhole,
     Makes, Restores
<1> QED BY <1>1, <1>2, <1>3, <1>4, <1>5, <1>6, <1>7, <1>8, <1>9

\* The row is inserted.
LEMMA ReserveInv == ASSUME Inv, NEW r \in Requests, Reserve(r) PROVE Inv'
<1> USE BackupsAssumption DEF Reserve, At, Then, Finish, Locked, Inv
<1>1. TypeOK'
  <2> USE DEF TypeOK, Work, Row, File, Steps, Acquainted
  <2>1. rows' \in [Archives -> Row \cup {Unused, Deleted}]
    <3>1. CASE UNCHANGED rows
      BY <3>1
    <3>2. ASSUME NEW b \in Archives,
                 rows' = [rows EXCEPT ![b] = [server |-> work[r].server, done |-> FALSE]]
          PROVE  rows' \in [Archives -> Row \cup {Unused, Deleted}]
      BY <3>2
    <3> QED BY <3>1, <3>2
  <2>2. archive' \in [Archives -> File \cup {NoFile}]
    OBVIOUS
  <2>3. work' \in [Requests -> Work \cup {Idle}]
    OBVIOUS
  <2>4. \A q \in Requests :
           work'[q] # Idle =>
               (work'[q].backup = Unused <=> work'[q].step \in {"lock", "count", "reserve"})
    OBVIOUS
  <2> QED BY <2>1, <2>2, <2>3, <2>4
<1>2. OneHolder'
  BY DEF TypeOK, Work, OneHolder, Holds
<1>3. SlotStillFree'
  <2> SUFFICES ASSUME NEW q \in Requests, At(q, "reserve")', work'[q].user
               PROVE  Cardinality(Kept(work[q].server))' < work'[q].limit
    BY DEF SlotStillFree
  <2>1. q # r /\ work'[q] = work[q] /\ At(q, "reserve")
    BY DEF TypeOK, Work
  <2>2. work[q].server \in Servers /\ work[q].limit \in Nat
    BY <2>1 DEF TypeOK, Work
  <2>3. CASE work[q].server = work[r].server
    <3>1. Holds(q) /\ ~Holds(r)
      BY <2>1, <2>3 DEF OneHolder, Holds
    <3>2. life[work[r].server] = "gone" /\ UNCHANGED rows
      BY <2>1, <2>3, <3>1 DEF Holds
    <3> QED BY <2>1, <3>2 DEF SlotStillFree, Kept
  <2>4. CASE work[q].server # work[r].server
    <3>1. Kept(work[q].server)' \subseteq Kept(work[q].server)
      BY <2>1, <2>2, <2>4 DEF TypeOK, Work, Row, Kept
    <3> QED BY <2>1, <2>2, <3>1, FewerRows DEF SlotStillFree, Kept
  <2> QED BY <2>3, <2>4
<1>4. Acquainted'
  <2>1. CASE UNCHANGED rows /\ Finish(r)
    BY <2>1 DEF TypeOK, Work, Acquainted, Concerns
  <2>2. ASSUME NEW b \in Archives, rows[b] = Unused, Then(r, "call", b),
               rows' = [rows EXCEPT ![b] = [server |-> work[r].server, done |-> FALSE]]
        PROVE  Acquainted'
    <3>1. rows'[b] \in Row /\ rows'[b].server = work[r].server /\ archive[b] = NoFile
      BY <2>2 DEF TypeOK, Work, Row, FilesFollowRows
    <3>2. \A q \in Requests : work[q] # Idle => work[q].backup # b
      BY <2>2 DEF TypeOK, Work, Acquainted
    <3>3. \A c \in Archives : c # b => rows'[c] = rows[c]
      BY <2>2 DEF TypeOK
    <3>4. work'[r].backup = b /\ work'[r].server = work[r].server
          /\ \A q \in Requests : q # r => work'[q] = work[q]
      BY <2>2 DEF TypeOK
    <3>5. \A q \in Requests : work[q] # Idle => work[q].backup \in Archives \cup {Unused}
      BY DEF TypeOK, Work
    <3>6. Acquainted /\ archive' = archive
      OBVIOUS
    <3> HIDE DEF Reserve, Then, Finish, Locked, Inv
    <3> QED BY <3>1, <3>2, <3>3, <3>4, <3>5, <3>6 DEF Acquainted, Concerns
  <2> QED BY <2>1, <2>2
<1>5. FilesFollowRows'
  BY DEF TypeOK, Work, Row, File, Acquainted, FilesFollowRows
<1>6. RowsStand'
  BY DEF TypeOK, Work, Row, Acquainted, RowsStand
<1>7. MakesAlone'
  BY DEF TypeOK, Work, Row, Acquainted, MakesAlone, Makes, Restores
<1>8. DoneIsWhole'
  <2>1. \A b \in Archives :
           rows'[b] \in Row /\ rows'[b].done => rows[b] \in Row /\ rows[b].done
    BY DEF TypeOK, Work, Row
  <2>2. \A q \in Requests : At(q, "record")' => work'[q] = work[q]
    BY DEF TypeOK, Work
  <2> QED BY <2>1, <2>2 DEF DoneIsWhole
<1>9. RestoresWhole'
  BY DEF TypeOK, Work, Row, File, Acquainted, MakesAlone, DoneIsWhole, RestoresWhole,
     Makes, Restores
<1> QED BY <1>1, <1>2, <1>3, <1>4, <1>5, <1>6, <1>7, <1>8, <1>9

\* The archive's file is created, or there is nothing to archive.
LEMMA WriteBeginInv == ASSUME Inv, NEW r \in Requests, WriteBegin(r) PROVE Inv'
<1> USE BackupsAssumption DEF WriteBegin, At, Goto, Then, Finish, Inv
<1>1. TypeOK'
  <2> USE DEF TypeOK, Work, Row, File, Steps, Acquainted
  <2>1. rows' \in [Archives -> Row \cup {Unused, Deleted}]
    OBVIOUS
  <2>2. archive' \in [Archives -> File \cup {NoFile}]
    <3>1. work[r].backup \in Archives /\ work[r].server \in Servers
      OBVIOUS
    <3>2. CASE archive' = [archive EXCEPT ![work[r].backup] =
                              [server |-> work[r].server, whole |-> FALSE]]
      BY <3>1, <3>2
    <3>3. CASE UNCHANGED archive
      BY <3>3
    <3> QED BY <3>2, <3>3
  <2>3. work' \in [Requests -> Work \cup {Idle}]
    OBVIOUS
  <2>4. \A q \in Requests :
           work'[q] # Idle =>
               (work'[q].backup = Unused <=> work'[q].step \in {"lock", "count", "reserve"})
    OBVIOUS
  <2> QED BY <2>1, <2>2, <2>3, <2>4
<1>2. OneHolder'
  BY DEF TypeOK, Work, OneHolder, Holds
<1>3. SlotStillFree'
  <2> SUFFICES ASSUME NEW q \in Requests, At(q, "reserve")', work'[q].user
               PROVE  Cardinality(Kept(work[q].server))' < work'[q].limit
    BY DEF SlotStillFree
  <2>1. At(q, "reserve") /\ work'[q].server = work[q].server /\ work[q].server \in Servers
        /\ work'[q].limit = work[q].limit /\ work[q].limit \in Nat /\ work[q].user
    BY DEF TypeOK, Work
  <2>2. Kept(work[q].server)' \subseteq Kept(work[q].server)
    BY <2>1 DEF TypeOK, Work, Row, Kept, Acquainted
  <2> QED BY <2>1, <2>2, FewerRows DEF SlotStillFree, Kept
<1>4. Acquainted'
  <2>1. CASE UNCHANGED archive
    BY <2>1 DEF TypeOK, Work, Acquainted, FilesFollowRows, Concerns
  <2>2. CASE /\ Goto(r, "write")
             /\ archive' = [archive EXCEPT ![work[r].backup] =
                               [server |-> work[r].server, whole |-> FALSE]]
    <3>1. work[r].backup \in Archives /\ rows[work[r].backup] # Unused
          /\ (rows[work[r].backup] \in Row => rows[work[r].backup].server = work[r].server)
      BY DEF TypeOK, Work, Acquainted
    <3> QED BY <2>2, <3>1 DEF TypeOK, Work, Acquainted, FilesFollowRows, Concerns
  <2> QED BY <2>1, <2>2
<1>5. FilesFollowRows'
  <2>1. CASE UNCHANGED archive
    BY <2>1 DEF TypeOK, Work, Acquainted, FilesFollowRows
  <2>2. CASE /\ Goto(r, "write")
             /\ archive' = [archive EXCEPT ![work[r].backup] =
                               [server |-> work[r].server, whole |-> FALSE]]
    <3>1. work[r].backup \in Archives /\ rows[work[r].backup] # Unused
          /\ (rows[work[r].backup] \in Row => rows[work[r].backup].server = work[r].server)
      BY DEF TypeOK, Work, Acquainted
    <3> QED BY <2>2, <3>1 DEF TypeOK, Work, Acquainted, FilesFollowRows
  <2> QED BY <2>1, <2>2
<1>6. RowsStand'
  BY DEF TypeOK, Work, Row, Acquainted, RowsStand
<1>7. MakesAlone'
  BY SMTT(30) DEF TypeOK, Work, Row, Acquainted, MakesAlone, Makes, Restores
<1>8. DoneIsWhole'
  <2>1. CASE UNCHANGED archive
    BY <2>1 DEF TypeOK, Work, Acquainted, FilesFollowRows, MakesAlone, DoneIsWhole,
       Makes, Restores
  <2>2. CASE /\ Goto(r, "write")
             /\ archive' = [archive EXCEPT ![work[r].backup] =
                               [server |-> work[r].server, whole |-> FALSE]]
    <3>1. work[r].backup \in Archives /\ rows[work[r].backup] # Unused
          /\ (rows[work[r].backup] \in Row => rows[work[r].backup].server = work[r].server)
      BY DEF TypeOK, Work, Acquainted
    <3> QED BY <2>2, <3>1 DEF TypeOK, Work, Acquainted, FilesFollowRows, MakesAlone, DoneIsWhole,
       Makes, Restores
  <2> QED BY <2>1, <2>2
<1>9. RestoresWhole'
  BY DEF TypeOK, Work, Row, File, Acquainted, MakesAlone, DoneIsWhole, RestoresWhole,
     Makes, Restores
<1> QED BY <1>1, <1>2, <1>3, <1>4, <1>5, <1>6, <1>7, <1>8, <1>9

\* The archive is closed, or removed.
LEMMA WriteEndInv == ASSUME Inv, NEW r \in Requests, WriteEnd(r) PROVE Inv'
<1> USE BackupsAssumption DEF WriteEnd, At, Answered, Goto, Then, Finish, Closed, Inv
<1>1. TypeOK'
  <2> USE DEF TypeOK, Work, Row, File, Steps, Acquainted
  <2>1. rows' \in [Archives -> Row \cup {Unused, Deleted}]
    OBVIOUS
  <2>2. archive' \in [Archives -> File \cup {NoFile}]
    <3>1. \A f \in File \cup {NoFile} : Closed(f) \in File \cup {NoFile}
      OBVIOUS
    <3>2. archive[work[r].backup] \in File \cup {NoFile}
      OBVIOUS
    <3>3. CASE archive' = [archive EXCEPT ![work[r].backup] = Closed(archive[work[r].backup])]
      BY <3>1, <3>2, <3>3
    <3>4. CASE archive' = [archive EXCEPT ![work[r].backup] = NoFile]
      BY <3>4
    <3>5. CASE UNCHANGED archive
      BY <3>5
    <3> QED BY <3>3, <3>4, <3>5
  <2>3. work' \in [Requests -> Work \cup {Idle}]
    OBVIOUS
  <2>4. \A q \in Requests :
           work'[q] # Idle =>
               (work'[q].backup = Unused <=> work'[q].step \in {"lock", "count", "reserve"})
    OBVIOUS
  <2>5. litter' \subseteq Archives \cup Servers
    OBVIOUS
  <2> QED BY <2>1, <2>2, <2>3, <2>4, <2>5
<1>2. OneHolder'
  BY DEF TypeOK, Work, OneHolder, Holds
<1>3. SlotStillFree'
  <2> SUFFICES ASSUME NEW q \in Requests, At(q, "reserve")', work'[q].user
               PROVE  Cardinality(Kept(work[q].server))' < work'[q].limit
    BY DEF SlotStillFree
  <2>1. At(q, "reserve") /\ work'[q].server = work[q].server /\ work[q].server \in Servers
        /\ work'[q].limit = work[q].limit /\ work[q].limit \in Nat /\ work[q].user
    BY DEF TypeOK, Work
  <2>2. Kept(work[q].server)' \subseteq Kept(work[q].server)
    BY <2>1 DEF TypeOK, Work, Row, Kept, Acquainted
  <2> QED BY <2>1, <2>2, FewerRows DEF SlotStillFree, Kept
<1>4. Acquainted'
  BY SMTT(30) DEF TypeOK, Work, Row, File, Acquainted, FilesFollowRows, Concerns
<1>5. FilesFollowRows'
  BY DEF TypeOK, Work, Row, File, Acquainted, FilesFollowRows
<1>6. RowsStand'
  BY DEF TypeOK, Work, Row, Acquainted, RowsStand
<1>7. MakesAlone'
  BY DEF TypeOK, Work, Row, Acquainted, MakesAlone, Makes, Restores
<1>8. DoneIsWhole'
  <2> DEFINE b == work[r].backup
  <2>1. b \in Archives /\ (rows[b] \in Row => ~rows[b].done)
        /\ \A q \in Requests : q # r /\ Makes(q) => work[q].backup # b
    BY DEF TypeOK, Work, MakesAlone, Makes
  <2>2. archive'[b] = NoFile \/ archive'[b].whole \/ (archive' = archive /\ Finish(r))
    BY <2>1 DEF TypeOK
  <2>3. \A c \in Archives : c # b => archive'[c] = archive[c]
    BY <2>1 DEF TypeOK
  <2>4. \A q \in Requests : At(q, "record")' => (q = r /\ work'[q].backup = b) \/ (q # r /\ work'[q] = work[q])
    BY DEF TypeOK
  <2>5. \A q \in Requests : At(q, "record") => work[q].backup \in Archives
    BY DEF TypeOK, Work
  <2>6. CASE archive'[b] = NoFile \/ archive'[b].whole
    BY <2>1, <2>3, <2>4, <2>5, <2>6 DEF DoneIsWhole, Makes
  <2>7. CASE archive' = archive /\ Finish(r)
    <3>1. \A q \in Requests : At(q, "record")' => work'[q] = work[q]
      BY <2>7 DEF TypeOK
    <3> QED BY <2>7, <3>1 DEF DoneIsWhole
  <2> QED BY <2>2, <2>6, <2>7
<1>9. RestoresWhole'
  BY DEF TypeOK, Work, Row, File, Acquainted, MakesAlone, DoneIsWhole, RestoresWhole,
     Makes, Restores
<1> QED BY <1>1, <1>2, <1>3, <1>4, <1>5, <1>6, <1>7, <1>8, <1>9

\* The row is marked successful.
LEMMA RecordInv == ASSUME Inv, NEW r \in Requests, Record(r) PROVE Inv'
<1> USE BackupsAssumption DEF Record, At, Finish, Inv
<1>a. \A b \in Archives :
         /\ rows'[b] = Unused <=> rows[b] = Unused
         /\ rows'[b] \in Row => rows[b] \in Row /\ rows'[b].server = rows[b].server
  <2>1. work[r].backup \in Archives /\ rows[work[r].backup] # Unused
    BY DEF TypeOK, Work, Acquainted
  <2>2. \A b \in Archives :
           rows[b] \in Row => [server |-> rows[b].server, done |-> TRUE] \in Row
    BY DEF Row
  <2> QED BY <2>1, <2>2 DEF TypeOK
<1>1. TypeOK'
  BY DEF TypeOK, Work, Row, File, Steps, Acquainted
<1>2. OneHolder'
  BY DEF TypeOK, Work, OneHolder, Holds
<1>3. SlotStillFree'
  <2> SUFFICES ASSUME NEW q \in Requests, At(q, "reserve")', work'[q].user
               PROVE  Cardinality(Kept(work[q].server))' < work'[q].limit
    BY DEF SlotStillFree
  <2>1. At(q, "reserve") /\ work'[q].server = work[q].server /\ work[q].server \in Servers
        /\ work'[q].limit = work[q].limit /\ work[q].limit \in Nat /\ work[q].user
    BY DEF TypeOK, Work
  <2>2. Kept(work[q].server)' \subseteq Kept(work[q].server)
    BY <2>1 DEF TypeOK, Work, Row, Kept, Acquainted
  <2> QED BY <2>1, <2>2, FewerRows DEF SlotStillFree, Kept
<1>4. Acquainted'
  BY <1>a DEF TypeOK, Work, Acquainted, Concerns
<1>5. FilesFollowRows'
  BY <1>a DEF TypeOK, Work, FilesFollowRows
<1>6. RowsStand'
  BY DEF TypeOK, Work, Row, Acquainted, RowsStand
<1>7. MakesAlone'
  BY DEF TypeOK, Work, Row, Acquainted, MakesAlone, Makes, Restores
<1>8. DoneIsWhole'
  BY DEF TypeOK, Work, Row, File, Acquainted, FilesFollowRows, MakesAlone, DoneIsWhole,
     Makes, Restores
<1>9. RestoresWhole'
  BY DEF TypeOK, Work, Row, File, Acquainted, MakesAlone, DoneIsWhole, RestoresWhole,
     Makes, Restores
<1> QED BY <1>1, <1>2, <1>3, <1>4, <1>5, <1>6, <1>7, <1>8, <1>9

\* A restore begins, of a successful backup.
LEMMA RestoreBeginInv == ASSUME Inv, NEW r \in Requests, RestoreBegin(r) PROVE Inv'
<1> USE BackupsAssumption DEF RestoreBegin, At, Begin, Inv
<1>1. TypeOK'
  BY DEF TypeOK, Work, Row, File, Steps, Acquainted
<1>2. OneHolder'
  BY DEF TypeOK, Work, OneHolder, Holds
<1>3. SlotStillFree'
  <2> SUFFICES ASSUME NEW q \in Requests, At(q, "reserve")', work'[q].user
               PROVE  Cardinality(Kept(work[q].server))' < work'[q].limit
    BY DEF SlotStillFree
  <2>1. At(q, "reserve") /\ work'[q].server = work[q].server /\ work[q].server \in Servers
        /\ work'[q].limit = work[q].limit /\ work[q].limit \in Nat /\ work[q].user
    BY DEF TypeOK, Work
  <2>2. Kept(work[q].server)' \subseteq Kept(work[q].server)
    BY <2>1 DEF TypeOK, Work, Row, Kept, Acquainted
  <2> QED BY <2>1, <2>2, FewerRows DEF SlotStillFree, Kept
<1>4. Acquainted'
  BY DEF TypeOK, Work, Row, File, Acquainted, FilesFollowRows, Concerns
<1>5. FilesFollowRows'
  BY DEF TypeOK, Work, Row, File, Acquainted, FilesFollowRows
<1>6. RowsStand'
  BY DEF TypeOK, Work, Row, Acquainted, RowsStand
<1>7. MakesAlone'
  BY DEF TypeOK, Work, Row, Acquainted, MakesAlone, Makes, Restores
<1>8. DoneIsWhole'
  BY DEF TypeOK, Work, Row, File, Acquainted, FilesFollowRows, MakesAlone, DoneIsWhole,
     Makes, Restores
<1>9. RestoresWhole'
  BY DEF TypeOK, Work, Row, File, Acquainted, MakesAlone, DoneIsWhole, RestoresWhole,
     Makes, Restores
<1> QED BY <1>1, <1>2, <1>3, <1>4, <1>5, <1>6, <1>7, <1>8, <1>9

\* The archive is opened.
LEMMA FetchInv == ASSUME Inv, NEW r \in Requests, Fetch(r) PROVE Inv'
<1> USE BackupsAssumption DEF Fetch, At, Goto, Then, Finish, Inv
<1>1. TypeOK'
  BY DEF TypeOK, Work, Row, File, Steps, Acquainted
<1>2. OneHolder'
  BY DEF TypeOK, Work, OneHolder, Holds
<1>3. SlotStillFree'
  <2> SUFFICES ASSUME NEW q \in Requests, At(q, "reserve")', work'[q].user
               PROVE  Cardinality(Kept(work[q].server))' < work'[q].limit
    BY DEF SlotStillFree
  <2>1. At(q, "reserve") /\ work'[q].server = work[q].server /\ work[q].server \in Servers
        /\ work'[q].limit = work[q].limit /\ work[q].limit \in Nat /\ work[q].user
    BY DEF TypeOK, Work
  <2>2. Kept(work[q].server)' \subseteq Kept(work[q].server)
    BY <2>1 DEF TypeOK, Work, Row, Kept, Acquainted
  <2> QED BY <2>1, <2>2, FewerRows DEF SlotStillFree, Kept
<1>4. Acquainted'
  BY DEF TypeOK, Work, Row, File, Acquainted, FilesFollowRows, Concerns
<1>5. FilesFollowRows'
  BY DEF TypeOK, Work, Row, File, Acquainted, FilesFollowRows
<1>6. RowsStand'
  BY DEF TypeOK, Work, Row, Acquainted, RowsStand
<1>7. MakesAlone'
  BY DEF TypeOK, Work, Row, Acquainted, MakesAlone, Makes, Restores
<1>8. DoneIsWhole'
  BY DEF TypeOK, Work, Row, File, Acquainted, FilesFollowRows, MakesAlone, DoneIsWhole,
     Makes, Restores
<1>9. RestoresWhole'
  BY DEF TypeOK, Work, Row, File, Acquainted, MakesAlone, DoneIsWhole, RestoresWhole,
     Makes, Restores
<1> QED BY <1>1, <1>2, <1>3, <1>4, <1>5, <1>6, <1>7, <1>8, <1>9

\* The files are back.
LEMMA UnpackInv == ASSUME Inv, NEW r \in Requests, Unpack(r) PROVE Inv'
<1> USE BackupsAssumption DEF Unpack, At, Finish, Inv
<1>1. TypeOK'
  BY DEF TypeOK, Work, Row, File, Steps, Acquainted
<1>2. OneHolder'
  BY DEF TypeOK, Work, OneHolder, Holds
<1>3. SlotStillFree'
  <2> SUFFICES ASSUME NEW q \in Requests, At(q, "reserve")', work'[q].user
               PROVE  Cardinality(Kept(work[q].server))' < work'[q].limit
    BY DEF SlotStillFree
  <2>1. At(q, "reserve") /\ work'[q].server = work[q].server /\ work[q].server \in Servers
        /\ work'[q].limit = work[q].limit /\ work[q].limit \in Nat /\ work[q].user
    BY DEF TypeOK, Work
  <2>2. Kept(work[q].server)' \subseteq Kept(work[q].server)
    BY <2>1 DEF TypeOK, Work, Row, Kept, Acquainted
  <2> QED BY <2>1, <2>2, FewerRows DEF SlotStillFree, Kept
<1>4. Acquainted'
  BY DEF TypeOK, Work, Row, File, Acquainted, FilesFollowRows, Concerns
<1>5. FilesFollowRows'
  BY DEF TypeOK, Work, Row, File, Acquainted, FilesFollowRows
<1>6. RowsStand'
  BY DEF TypeOK, Work, Row, Acquainted, RowsStand
<1>7. MakesAlone'
  BY DEF TypeOK, Work, Row, Acquainted, MakesAlone, Makes, Restores
<1>8. DoneIsWhole'
  BY DEF TypeOK, Work, Row, File, Acquainted, FilesFollowRows, MakesAlone, DoneIsWhole,
     Makes, Restores
<1>9. RestoresWhole'
  BY DEF TypeOK, Work, Row, File, Acquainted, MakesAlone, DoneIsWhole, RestoresWhole,
     Makes, Restores
<1> QED BY <1>1, <1>2, <1>3, <1>4, <1>5, <1>6, <1>7, <1>8, <1>9

\* A deletion begins.
LEMMA DeleteBeginInv == ASSUME Inv, NEW r \in Requests, DeleteBegin(r) PROVE Inv'
<1> USE BackupsAssumption DEF DeleteBegin, At, Begin, Concerns, Inv
<1>1. TypeOK'
  BY DEF TypeOK, Work, Row, File, Steps, Acquainted
<1>2. OneHolder'
  BY DEF TypeOK, Work, OneHolder, Holds
<1>3. SlotStillFree'
  <2> SUFFICES ASSUME NEW q \in Requests, At(q, "reserve")', work'[q].user
               PROVE  Cardinality(Kept(work[q].server))' < work'[q].limit
    BY DEF SlotStillFree
  <2>1. At(q, "reserve") /\ work'[q].server = work[q].server /\ work[q].server \in Servers
        /\ work'[q].limit = work[q].limit /\ work[q].limit \in Nat /\ work[q].user
    BY DEF TypeOK, Work
  <2>2. Kept(work[q].server)' \subseteq Kept(work[q].server)
    BY <2>1 DEF TypeOK, Work, Row, Kept, Acquainted
  <2> QED BY <2>1, <2>2, FewerRows DEF SlotStillFree, Kept
<1>4. Acquainted'
  BY DEF TypeOK, Work, Row, File, Acquainted, FilesFollowRows, Concerns
<1>5. FilesFollowRows'
  BY DEF TypeOK, Work, Row, File, Acquainted, FilesFollowRows
<1>6. RowsStand'
  BY DEF TypeOK, Work, Row, Acquainted, RowsStand
<1>7. MakesAlone'
  BY DEF TypeOK, Work, Row, Acquainted, MakesAlone, Makes, Restores
<1>8. DoneIsWhole'
  BY DEF TypeOK, Work, Row, File, Acquainted, FilesFollowRows, MakesAlone, DoneIsWhole,
     Makes, Restores
<1>9. RestoresWhole'
  BY DEF TypeOK, Work, Row, File, Acquainted, MakesAlone, DoneIsWhole, RestoresWhole,
     Makes, Restores
<1> QED BY <1>1, <1>2, <1>3, <1>4, <1>5, <1>6, <1>7, <1>8, <1>9

\* The archive is unlinked.
LEMMA UnlinkInv == ASSUME Inv, NEW r \in Requests, Unlink(r) PROVE Inv'
<1> USE BackupsAssumption DEF Unlink, At, Answered, Goto, Then, Finish, Inv
<1>1. TypeOK'
  BY DEF TypeOK, Work, Row, File, Steps, Acquainted
<1>2. OneHolder'
  BY DEF TypeOK, Work, OneHolder, Holds
<1>3. SlotStillFree'
  <2> SUFFICES ASSUME NEW q \in Requests, At(q, "reserve")', work'[q].user
               PROVE  Cardinality(Kept(work[q].server))' < work'[q].limit
    BY DEF SlotStillFree
  <2>1. At(q, "reserve") /\ work'[q].server = work[q].server /\ work[q].server \in Servers
        /\ work'[q].limit = work[q].limit /\ work[q].limit \in Nat /\ work[q].user
    BY DEF TypeOK, Work
  <2>2. Kept(work[q].server)' \subseteq Kept(work[q].server)
    BY <2>1 DEF TypeOK, Work, Row, Kept, Acquainted
  <2> QED BY <2>1, <2>2, FewerRows DEF SlotStillFree, Kept
<1>4. Acquainted'
  BY DEF TypeOK, Work, Row, File, Acquainted, FilesFollowRows, Concerns
<1>5. FilesFollowRows'
  BY DEF TypeOK, Work, Row, File, Acquainted, FilesFollowRows
<1>6. RowsStand'
  BY DEF TypeOK, Work, Row, Acquainted, RowsStand
<1>7. MakesAlone'
  BY DEF TypeOK, Work, Row, Acquainted, MakesAlone, Makes, Restores
<1>8. DoneIsWhole'
  BY DEF TypeOK, Work, Row, File, Acquainted, FilesFollowRows, MakesAlone, DoneIsWhole,
     Makes, Restores
<1>9. RestoresWhole'
  BY DEF TypeOK, Work, Row, File, Acquainted, MakesAlone, DoneIsWhole, RestoresWhole,
     Makes, Restores
<1> QED BY <1>1, <1>2, <1>3, <1>4, <1>5, <1>6, <1>7, <1>8, <1>9

\* The row is deleted.
LEMMA DropRowInv == ASSUME Inv, NEW r \in Requests, DropRow(r) PROVE Inv'
<1> USE BackupsAssumption DEF DropRow, At, Finish, Inv
<1>a. \A b \in Archives :
         /\ rows'[b] = Unused <=> rows[b] = Unused
         /\ rows'[b] \in Row => rows[b] \in Row /\ rows'[b].server = rows[b].server
  <2>1. work[r].backup \in Archives /\ rows[work[r].backup] # Unused
    BY DEF TypeOK, Work, Acquainted
  <2> QED BY <2>1 DEF TypeOK
<1>1. TypeOK'
  BY DEF TypeOK, Work, Row, File, Steps, Acquainted
<1>2. OneHolder'
  BY DEF TypeOK, Work, OneHolder, Holds
<1>3. SlotStillFree'
  <2> SUFFICES ASSUME NEW q \in Requests, At(q, "reserve")', work'[q].user
               PROVE  Cardinality(Kept(work[q].server))' < work'[q].limit
    BY DEF SlotStillFree
  <2>1. At(q, "reserve") /\ work'[q].server = work[q].server /\ work[q].server \in Servers
        /\ work'[q].limit = work[q].limit /\ work[q].limit \in Nat /\ work[q].user
    BY DEF TypeOK, Work
  <2>2. Kept(work[q].server)' \subseteq Kept(work[q].server)
    BY <2>1 DEF TypeOK, Work, Row, Kept, Acquainted
  <2> QED BY <2>1, <2>2, FewerRows DEF SlotStillFree, Kept
<1>4. Acquainted'
  BY <1>a DEF TypeOK, Work, Acquainted, Concerns
<1>5. FilesFollowRows'
  BY <1>a DEF TypeOK, Work, FilesFollowRows
<1>6. RowsStand'
  BY DEF TypeOK, Work, Row, Acquainted, RowsStand
<1>7. MakesAlone'
  BY DEF TypeOK, Work, Row, Acquainted, MakesAlone, Makes, Restores
<1>8. DoneIsWhole'
  BY DEF TypeOK, Work, Row, File, Acquainted, FilesFollowRows, MakesAlone, DoneIsWhole,
     Makes, Restores
<1>9. RestoresWhole'
  BY DEF TypeOK, Work, Row, File, Acquainted, MakesAlone, DoneIsWhole, RestoresWhole,
     Makes, Restores
<1> QED BY <1>1, <1>2, <1>3, <1>4, <1>5, <1>6, <1>7, <1>8, <1>9

\* A request is cut off.
LEMMA AbortInv == ASSUME Inv, NEW r \in Requests, Abort(r) PROVE Inv'
<1> USE BackupsAssumption DEF Abort, At, Finish, Inv
<1>1. TypeOK'
  <2> USE DEF TypeOK, Work, Row, File, Steps, Acquainted
  <2>1. rows' \in [Archives -> Row \cup {Unused, Deleted}]
    OBVIOUS
  <2>2. archive' \in [Archives -> File \cup {NoFile}]
    OBVIOUS
  <2>3. work' \in [Requests -> Work \cup {Idle}]
    <3> DEFINE left == [step |-> work[r].step, server |-> work[r].server,
                       user |-> work[r].user, limit |-> work[r].limit,
                       backup |-> work[r].backup, waits |-> FALSE]
    <3>1. work[r] \in Work => left \in Work
      OBVIOUS
    <3>2. CASE work' = [work EXCEPT ![r] = left]
      BY <3>1, <3>2
    <3>3. CASE work' = [work EXCEPT ![r] = Idle]
      BY <3>3
    <3> QED BY <3>2, <3>3
  <2>4. \A q \in Requests :
           work'[q] # Idle =>
               (work'[q].backup = Unused <=> work'[q].step \in {"lock", "count", "reserve"})
    OBVIOUS
  <2> QED BY <2>1, <2>2, <2>3, <2>4
<1>2. OneHolder'
  BY DEF TypeOK, Work, OneHolder, Holds
<1>3. SlotStillFree'
  <2> SUFFICES ASSUME NEW q \in Requests, At(q, "reserve")', work'[q].user
               PROVE  Cardinality(Kept(work[q].server))' < work'[q].limit
    BY DEF SlotStillFree
  <2>1. At(q, "reserve") /\ work'[q].server = work[q].server /\ work[q].server \in Servers
        /\ work'[q].limit = work[q].limit /\ work[q].limit \in Nat /\ work[q].user
    BY DEF TypeOK, Work
  <2>2. Kept(work[q].server)' \subseteq Kept(work[q].server)
    BY <2>1 DEF TypeOK, Work, Row, Kept, Acquainted
  <2> QED BY <2>1, <2>2, FewerRows DEF SlotStillFree, Kept
<1>4. Acquainted'
  BY DEF TypeOK, Work, Row, File, Acquainted, FilesFollowRows, Concerns
<1>5. FilesFollowRows'
  BY DEF TypeOK, Work, Row, File, Acquainted, FilesFollowRows
<1>6. RowsStand'
  BY DEF TypeOK, Work, Row, Acquainted, RowsStand
<1>7. MakesAlone'
  BY DEF TypeOK, Work, Row, Acquainted, MakesAlone, Makes, Restores
<1>8. DoneIsWhole'
  BY DEF TypeOK, Work, Row, File, Acquainted, FilesFollowRows, MakesAlone, DoneIsWhole,
     Makes, Restores
<1>9. RestoresWhole'
  BY DEF TypeOK, Work, Row, File, Acquainted, MakesAlone, DoneIsWhole, RestoresWhole,
     Makes, Restores
<1> QED BY <1>1, <1>2, <1>3, <1>4, <1>5, <1>6, <1>7, <1>8, <1>9

\* The daemon dies.
LEMMA PerishInv == ASSUME Inv, NEW r \in Requests, Perish(r) PROVE Inv'
<1> USE BackupsAssumption DEF Perish, At, Finish, Inv
<1>1. TypeOK'
  BY DEF TypeOK, Work, Row, File, Steps, Acquainted
<1>2. OneHolder'
  BY DEF TypeOK, Work, OneHolder, Holds
<1>3. SlotStillFree'
  <2> SUFFICES ASSUME NEW q \in Requests, At(q, "reserve")', work'[q].user
               PROVE  Cardinality(Kept(work[q].server))' < work'[q].limit
    BY DEF SlotStillFree
  <2>1. At(q, "reserve") /\ work'[q].server = work[q].server /\ work[q].server \in Servers
        /\ work'[q].limit = work[q].limit /\ work[q].limit \in Nat /\ work[q].user
    BY DEF TypeOK, Work
  <2>2. Kept(work[q].server)' \subseteq Kept(work[q].server)
    BY <2>1 DEF TypeOK, Work, Row, Kept, Acquainted
  <2> QED BY <2>1, <2>2, FewerRows DEF SlotStillFree, Kept
<1>4. Acquainted'
  BY DEF TypeOK, Work, Row, File, Acquainted, FilesFollowRows, Concerns
<1>5. FilesFollowRows'
  BY DEF TypeOK, Work, Row, File, Acquainted, FilesFollowRows
<1>6. RowsStand'
  BY DEF TypeOK, Work, Row, Acquainted, RowsStand
<1>7. MakesAlone'
  BY DEF TypeOK, Work, Row, Acquainted, MakesAlone, Makes, Restores
<1>8. DoneIsWhole'
  BY DEF TypeOK, Work, Row, File, Acquainted, FilesFollowRows, MakesAlone, DoneIsWhole,
     Makes, Restores
<1>9. RestoresWhole'
  BY DEF TypeOK, Work, Row, File, Acquainted, MakesAlone, DoneIsWhole, RestoresWhole,
     Makes, Restores
<1> QED BY <1>1, <1>2, <1>3, <1>4, <1>5, <1>6, <1>7, <1>8, <1>9

\* The limit of a server changes.
LEMMA SetLimitInv == ASSUME Inv, NEW s \in Servers, SetLimit(s) PROVE Inv'
<1> USE BackupsAssumption DEF SetLimit, At, Inv
<1>1. TypeOK'
  BY DEF TypeOK, Work, Row, File, Steps, Acquainted
<1>2. OneHolder'
  BY DEF TypeOK, Work, OneHolder, Holds
<1>3. SlotStillFree'
  <2> SUFFICES ASSUME NEW q \in Requests, At(q, "reserve")', work'[q].user
               PROVE  Cardinality(Kept(work[q].server))' < work'[q].limit
    BY DEF SlotStillFree
  <2>1. At(q, "reserve") /\ work'[q].server = work[q].server /\ work[q].server \in Servers
        /\ work'[q].limit = work[q].limit /\ work[q].limit \in Nat /\ work[q].user
    BY DEF TypeOK, Work
  <2>2. Kept(work[q].server)' \subseteq Kept(work[q].server)
    BY <2>1 DEF TypeOK, Work, Row, Kept, Acquainted
  <2> QED BY <2>1, <2>2, FewerRows DEF SlotStillFree, Kept
<1>4. Acquainted'
  BY DEF TypeOK, Work, Row, File, Acquainted, FilesFollowRows, Concerns
<1>5. FilesFollowRows'
  BY DEF TypeOK, Work, Row, File, Acquainted, FilesFollowRows
<1>6. RowsStand'
  BY DEF TypeOK, Work, Row, Acquainted, RowsStand
<1>7. MakesAlone'
  BY DEF TypeOK, Work, Row, Acquainted, MakesAlone, Makes, Restores
<1>8. DoneIsWhole'
  BY DEF TypeOK, Work, Row, File, Acquainted, FilesFollowRows, MakesAlone, DoneIsWhole,
     Makes, Restores
<1>9. RestoresWhole'
  BY DEF TypeOK, Work, Row, File, Acquainted, MakesAlone, DoneIsWhole, RestoresWhole,
     Makes, Restores
<1> QED BY <1>1, <1>2, <1>3, <1>4, <1>5, <1>6, <1>7, <1>8, <1>9

\* The node forgets a server.
LEMMA RemoveServerInv == ASSUME Inv, NEW s \in Servers, RemoveServer(s) PROVE Inv'
<1> USE BackupsAssumption DEF RemoveServer, At, Inv
<1>1. TypeOK'
  BY DEF TypeOK, Work, Row, File, Steps, Acquainted
<1>2. OneHolder'
  BY DEF TypeOK, Work, OneHolder, Holds
<1>3. SlotStillFree'
  <2> SUFFICES ASSUME NEW q \in Requests, At(q, "reserve")', work'[q].user
               PROVE  Cardinality(Kept(work[q].server))' < work'[q].limit
    BY DEF SlotStillFree
  <2>1. At(q, "reserve") /\ work'[q].server = work[q].server /\ work[q].server \in Servers
        /\ work'[q].limit = work[q].limit /\ work[q].limit \in Nat /\ work[q].user
    BY DEF TypeOK, Work
  <2>2. Kept(work[q].server)' \subseteq Kept(work[q].server)
    BY <2>1 DEF TypeOK, Work, Row, Kept, Acquainted
  <2> QED BY <2>1, <2>2, FewerRows DEF SlotStillFree, Kept
<1>4. Acquainted'
  BY DEF TypeOK, Work, Row, File, Acquainted, FilesFollowRows, Concerns
<1>5. FilesFollowRows'
  BY DEF TypeOK, Work, Row, File, Acquainted, FilesFollowRows
<1>6. RowsStand'
  BY DEF TypeOK, Work, Row, Acquainted, RowsStand
<1>7. MakesAlone'
  BY DEF TypeOK, Work, Row, Acquainted, MakesAlone, Makes, Restores
<1>8. DoneIsWhole'
  BY DEF TypeOK, Work, Row, File, Acquainted, FilesFollowRows, MakesAlone, DoneIsWhole,
     Makes, Restores
<1>9. RestoresWhole'
  BY DEF TypeOK, Work, Row, File, Acquainted, MakesAlone, DoneIsWhole, RestoresWhole,
     Makes, Restores
<1> QED BY <1>1, <1>2, <1>3, <1>4, <1>5, <1>6, <1>7, <1>8, <1>9

\* A server's row goes, and its backups' rows with it.
LEMMA DeleteServerInv == ASSUME Inv, NEW s \in Servers, DeleteServer(s) PROVE Inv'
<1> USE BackupsAssumption DEF DeleteServer, At, Inv
<1>a. \A b \in Archives :
         /\ rows'[b] = Unused <=> rows[b] = Unused
         /\ rows'[b] \in Row => rows[b] \in Row /\ rows'[b].server = rows[b].server
  BY DEF TypeOK, Kept
<1>1. TypeOK'
  BY DEF TypeOK, Work, Row, File, Steps, Acquainted, Kept
<1>2. OneHolder'
  BY DEF TypeOK, Work, OneHolder, Holds
<1>3. SlotStillFree'
  <2> SUFFICES ASSUME NEW q \in Requests, At(q, "reserve")', work'[q].user
               PROVE  Cardinality(Kept(work[q].server))' < work'[q].limit
    BY DEF SlotStillFree
  <2>1. At(q, "reserve") /\ work'[q].server = work[q].server /\ work[q].server \in Servers
        /\ work'[q].limit = work[q].limit /\ work[q].limit \in Nat /\ work[q].user
    BY DEF TypeOK, Work
  <2>2. Kept(work[q].server)' \subseteq Kept(work[q].server)
    BY <2>1 DEF TypeOK, Work, Row, Kept, Acquainted
  <2> QED BY <2>1, <2>2, FewerRows DEF SlotStillFree, Kept
<1>4. Acquainted'
  BY <1>a DEF TypeOK, Work, Acquainted, Concerns
<1>5. FilesFollowRows'
  BY <1>a DEF TypeOK, Work, FilesFollowRows
<1>6. RowsStand'
  BY DEF TypeOK, Work, Row, Acquainted, RowsStand, Kept
<1>7. MakesAlone'
  BY DEF TypeOK, Work, Row, Acquainted, MakesAlone, Makes, Restores, Kept
<1>8. DoneIsWhole'
  BY DEF TypeOK, Work, Row, File, Acquainted, FilesFollowRows, MakesAlone, DoneIsWhole,
     Makes, Restores, Kept
<1>9. RestoresWhole'
  BY DEF TypeOK, Work, Row, File, Acquainted, MakesAlone, DoneIsWhole, RestoresWhole,
     Makes, Restores
<1> QED BY <1>1, <1>2, <1>3, <1>4, <1>5, <1>6, <1>7, <1>8, <1>9

\* A server that was to be deleted is made again.
LEMMA RecreateInv == ASSUME Inv, NEW s \in Servers, Recreate(s) PROVE Inv'
<1> USE BackupsAssumption DEF Recreate, At, Inv
<1>1. TypeOK'
  BY DEF TypeOK, Work, Row, File, Steps, Acquainted
<1>2. OneHolder'
  BY DEF TypeOK, Work, OneHolder, Holds
<1>3. SlotStillFree'
  <2> SUFFICES ASSUME NEW q \in Requests, At(q, "reserve")', work'[q].user
               PROVE  Cardinality(Kept(work[q].server))' < work'[q].limit
    BY DEF SlotStillFree
  <2>1. At(q, "reserve") /\ work'[q].server = work[q].server /\ work[q].server \in Servers
        /\ work'[q].limit = work[q].limit /\ work[q].limit \in Nat /\ work[q].user
    BY DEF TypeOK, Work
  <2>2. Kept(work[q].server)' \subseteq Kept(work[q].server)
    BY <2>1 DEF TypeOK, Work, Row, Kept, Acquainted
  <2> QED BY <2>1, <2>2, FewerRows DEF SlotStillFree, Kept
<1>4. Acquainted'
  BY DEF TypeOK, Work, Row, File, Acquainted, FilesFollowRows, Concerns
<1>5. FilesFollowRows'
  BY DEF TypeOK, Work, Row, File, Acquainted, FilesFollowRows
<1>6. RowsStand'
  BY DEF TypeOK, Work, Row, Acquainted, RowsStand
<1>7. MakesAlone'
  BY DEF TypeOK, Work, Row, Acquainted, MakesAlone, Makes, Restores
<1>8. DoneIsWhole'
  BY DEF TypeOK, Work, Row, File, Acquainted, FilesFollowRows, MakesAlone, DoneIsWhole,
     Makes, Restores
<1>9. RestoresWhole'
  BY DEF TypeOK, Work, Row, File, Acquainted, MakesAlone, DoneIsWhole, RestoresWhole,
     Makes, Restores
<1> QED BY <1>1, <1>2, <1>3, <1>4, <1>5, <1>6, <1>7, <1>8, <1>9

\* Every step keeps Inv.
LEMMA StepInv == ASSUME Inv, [Next]_vars PROVE Inv'
<1>1. ASSUME NEW r \in Requests, Request(r) PROVE Inv'
  BY <1>1, CreateBeginInv, LockServerInv, CountInv, ReserveInv, WriteBeginInv,
     WriteEndInv, RecordInv, RestoreBeginInv, FetchInv, UnpackInv, DeleteBeginInv,
     UnlinkInv, DropRowInv, AbortInv, PerishInv DEF Request
<1>2. ASSUME NEW s \in Servers, Server(s) PROVE Inv'
  BY <1>2, SetLimitInv, RemoveServerInv, DeleteServerInv, RecreateInv DEF Server
<1>3. CASE UNCHANGED vars
  BY <1>3 DEF vars, TypeOK, OneHolder, SlotStillFree, Acquainted, FilesFollowRows,
     RowsStand, MakesAlone, DoneIsWhole, RestoresWhole, Inv, Holds, Makes, Restores,
     Kept, At, Concerns
<1> QED BY <1>1, <1>2, <1>3 DEF Next

\* Every reachable state satisfies Inv.
THEOREM Invariance == Spec => []Inv
<1>1. Init => Inv
  BY InitInv DEF CalmInv
<1>2. Inv /\ [Next]_vars => Inv'
  BY StepInv
<1> QED BY <1>1, <1>2, PTL DEF Spec

\* Every variable stays in its domain, for any constants.
THEOREM TypeCorrect == Spec => []TypeOK
<1>1. Inv => TypeOK
  BY DEF Inv
<1> QED BY <1>1, Invariance, PTL

\* What Create counts under the row lock holds until it inserts, however many
\* schedules back up the same server without a lock.
THEOREM CountedSlotHolds == Spec => []SlotStillFree
<1>1. Inv => SlotStillFree
  BY DEF Inv
<1> QED BY <1>1, Invariance, PTL

\* No half-written archive is ever unpacked over a server's files.
THEOREM OnlyWholeRestored == Spec => []RestoresWhole
<1>1. Inv => RestoresWhole
  BY DEF Inv
<1> QED BY <1>1, Invariance, PTL

-----------------------------------------------------------------------------
(* Calm servers, beside any others *)

\* A request for a backup begins.
LEMMA CreateBeginCalm == ASSUME CalmInv, NEW r \in Requests, CreateBegin(r) PROVE CalmInv'
<1> USE BackupsAssumption DEF CreateBegin, At, Begin, Tends, CalmInv
<1>1. Inv'
  BY CreateBeginInv
<1>2. CalmWaits'
  BY DEF Inv, TypeOK, Work, CalmWaits
<1>3. CalmGone'
  BY DEF Inv, TypeOK, Work, File, Acquainted, CalmGone, CalmUnpacks
<1>4. CalmUnpacks'
  BY DEF Inv, TypeOK, Work, Acquainted, CalmGone, CalmUnpacks
<1>5. CalmMakes'
  BY DEF Inv, TypeOK, Work, Row, File, Acquainted, RowsStand, MakesAlone, CalmGone,
     CalmDeletes, CalmMakes, Makes
<1>6. CalmDeletes'
  BY DEF Inv, TypeOK, Work, Acquainted, MakesAlone, CalmWaits, CalmDeletes, Makes
<1>7. NothingStrands'
  BY DEF Inv, TypeOK, Work, Row, File, Acquainted, FilesFollowRows, CalmGone, CalmMakes,
     CalmDeletes, NothingStrands, Makes
<1>8. SuccessIsStored'
  BY DEF Inv, TypeOK, Work, Row, File, Acquainted, RowsStand, MakesAlone, CalmWaits,
     CalmMakes, CalmDeletes, SuccessIsStored, Makes, Concerns
<1> QED BY <1>1, <1>2, <1>3, <1>4, <1>5, <1>6, <1>7, <1>8

\* The server's row is locked once nobody else holds it.
LEMMA LockServerCalm == ASSUME CalmInv, NEW r \in Requests, LockServer(r) PROVE CalmInv'
<1> USE BackupsAssumption DEF LockServer, At, Goto, Then, Locked, Tends, CalmInv
<1>1. Inv'
  BY LockServerInv
<1>2. CalmWaits'
  BY DEF Inv, TypeOK, Work, CalmWaits
<1>3. CalmGone'
  BY DEF Inv, TypeOK, Work, File, Acquainted, CalmGone, CalmUnpacks
<1>4. CalmUnpacks'
  BY DEF Inv, TypeOK, Work, Acquainted, CalmGone, CalmUnpacks
<1>5. CalmMakes'
  BY DEF Inv, TypeOK, Work, Row, File, Acquainted, RowsStand, MakesAlone, CalmGone,
     CalmDeletes, CalmMakes, Makes
<1>6. CalmDeletes'
  BY DEF Inv, TypeOK, Work, Acquainted, MakesAlone, CalmWaits, CalmDeletes, Makes
<1>7. NothingStrands'
  BY DEF Inv, TypeOK, Work, Row, File, Acquainted, FilesFollowRows, CalmGone, CalmMakes,
     CalmDeletes, NothingStrands, Makes
<1>8. SuccessIsStored'
  BY DEF Inv, TypeOK, Work, Row, File, Acquainted, RowsStand, MakesAlone, CalmWaits,
     CalmMakes, CalmDeletes, SuccessIsStored, Makes, Concerns
<1> QED BY <1>1, <1>2, <1>3, <1>4, <1>5, <1>6, <1>7, <1>8

\* The backups are counted, with or without the lock.
LEMMA CountCalm == ASSUME CalmInv, NEW r \in Requests, Count(r) PROVE CalmInv'
<1> USE BackupsAssumption DEF Count, At, Goto, Then, Finish, Tends, CalmInv
<1>1. Inv'
  BY CountInv
<1>2. CalmWaits'
  BY DEF Inv, TypeOK, Work, CalmWaits
<1>3. CalmGone'
  BY DEF Inv, TypeOK, Work, File, Acquainted, CalmGone, CalmUnpacks
<1>4. CalmUnpacks'
  BY DEF Inv, TypeOK, Work, Acquainted, CalmGone, CalmUnpacks
<1>5. CalmMakes'
  BY DEF Inv, TypeOK, Work, Row, File, Acquainted, RowsStand, MakesAlone, CalmGone,
     CalmDeletes, CalmMakes, Makes
<1>6. CalmDeletes'
  BY DEF Inv, TypeOK, Work, Acquainted, MakesAlone, CalmWaits, CalmDeletes, Makes
<1>7. NothingStrands'
  BY DEF Inv, TypeOK, Work, Row, File, Acquainted, FilesFollowRows, CalmGone, CalmMakes,
     CalmDeletes, NothingStrands, Makes
<1>8. SuccessIsStored'
  BY DEF Inv, TypeOK, Work, Row, File, Acquainted, RowsStand, MakesAlone, CalmWaits,
     CalmMakes, CalmDeletes, SuccessIsStored, Makes, Concerns
<1> QED BY <1>1, <1>2, <1>3, <1>4, <1>5, <1>6, <1>7, <1>8

\* The row is inserted.
LEMMA ReserveCalm == ASSUME CalmInv, NEW r \in Requests, Reserve(r) PROVE CalmInv'
<1> USE BackupsAssumption DEF Reserve, At, Then, Finish, Locked, Tends, CalmInv
<1>1. Inv'
  BY ReserveInv
<1>2. CalmWaits'
  BY DEF Inv, TypeOK, Work, CalmWaits
<1>3. CalmGone'
  BY DEF Inv, TypeOK, Work, File, Acquainted, CalmGone, CalmUnpacks
<1>4. CalmUnpacks'
  BY DEF Inv, TypeOK, Work, Acquainted, CalmGone, CalmUnpacks
<1>5. CalmMakes'
  <2>1. CASE UNCHANGED rows /\ Finish(r)
    BY <2>1 DEF Inv, TypeOK, Work, Acquainted, RowsStand, MakesAlone,
       CalmGone, CalmDeletes, CalmMakes, Makes
  <2>2. ASSUME NEW b \in Archives, rows[b] = Unused, Then(r, "call", b),
               rows' = [rows EXCEPT ![b] = [server |-> work[r].server, done |-> FALSE]]
        PROVE  CalmMakes'
    <3>1. rows'[b] \in Row
      BY <2>2 DEF Inv, TypeOK, Work, Row
    <3>2. \A c \in Archives : rows[c] \in Row => rows'[c] \in Row
      BY <2>2, <3>1 DEF Inv, TypeOK
    <3> QED BY SMTT(30), <2>2, <3>1, <3>2 DEF Inv, TypeOK, Work, Acquainted, RowsStand, MakesAlone,
       CalmGone, CalmDeletes, CalmMakes, Makes
  <2> QED BY <2>1, <2>2
<1>6. CalmDeletes'
  BY DEF Inv, TypeOK, Work, Acquainted, MakesAlone, CalmWaits, CalmDeletes, Makes
<1>7. NothingStrands'
  BY DEF Inv, TypeOK, Work, Row, File, Acquainted, FilesFollowRows, CalmGone, CalmMakes,
     CalmDeletes, NothingStrands, Makes
<1>8. SuccessIsStored'
  BY DEF Inv, TypeOK, Work, Row, File, Acquainted, RowsStand, MakesAlone, CalmWaits,
     CalmMakes, CalmDeletes, SuccessIsStored, Makes, Concerns
<1> QED BY <1>1, <1>2, <1>3, <1>4, <1>5, <1>6, <1>7, <1>8

\* The archive's file is created, or there is nothing to archive.
LEMMA WriteBeginCalm == ASSUME CalmInv, NEW r \in Requests, WriteBegin(r) PROVE CalmInv'
<1> USE BackupsAssumption DEF WriteBegin, At, Goto, Then, Finish, Tends, CalmInv
<1>1. Inv'
  BY WriteBeginInv
<1>2. CalmWaits'
  BY DEF Inv, TypeOK, Work, CalmWaits
<1>3. CalmGone'
  BY DEF Inv, TypeOK, Work, File, Acquainted, CalmGone, CalmUnpacks
<1>4. CalmUnpacks'
  BY DEF Inv, TypeOK, Work, Acquainted, CalmGone, CalmUnpacks
<1>5. CalmMakes'
  <2>1. [server |-> work[r].server, whole |-> FALSE] \in File
    BY DEF Inv, TypeOK, Work, File
  <2>2. [server |-> work[r].server, whole |-> FALSE] # NoFile
    BY <2>1
  <2> QED BY <2>2 DEF Inv, TypeOK, Work, Acquainted, RowsStand, MakesAlone,
       CalmGone, CalmDeletes, CalmMakes, Makes
<1>6. CalmDeletes'
  BY DEF Inv, TypeOK, Work, Acquainted, MakesAlone, CalmWaits, CalmDeletes, Makes
<1>7. NothingStrands'
  BY DEF Inv, TypeOK, Work, Row, File, Acquainted, FilesFollowRows, CalmGone, CalmMakes,
     CalmDeletes, NothingStrands, Makes
<1>8. SuccessIsStored'
  BY DEF Inv, TypeOK, Work, Row, File, Acquainted, RowsStand, MakesAlone, CalmWaits,
     CalmMakes, CalmDeletes, SuccessIsStored, Makes, Concerns
<1> QED BY <1>1, <1>2, <1>3, <1>4, <1>5, <1>6, <1>7, <1>8

\* The archive is closed, or removed.
LEMMA WriteEndCalm == ASSUME CalmInv, NEW r \in Requests, WriteEnd(r) PROVE CalmInv'
<1> USE BackupsAssumption DEF WriteEnd, At, Answered, Goto, Then, Finish, Closed, Tends, CalmInv
<1>1. Inv'
  BY WriteEndInv
<1>2. CalmWaits'
  BY DEF Inv, TypeOK, Work, CalmWaits
<1>3. CalmGone'
  BY DEF Inv, TypeOK, Work, File, Acquainted, CalmGone, CalmUnpacks
<1>4. CalmUnpacks'
  BY DEF Inv, TypeOK, Work, Acquainted, CalmGone, CalmUnpacks
<1>5. CalmMakes'
  <2>1. \A f \in File : f # NoFile /\ Closed(f) \in File
    BY DEF File
  <2>2. \A f \in File : Closed(f) # NoFile
    BY <2>1
  <2> QED BY <2>2 DEF Inv, TypeOK, Work, Acquainted, RowsStand, MakesAlone,
       CalmGone, CalmDeletes, CalmMakes, Makes
<1>6. CalmDeletes'
  BY DEF Inv, TypeOK, Work, Acquainted, MakesAlone, CalmWaits, CalmDeletes, Makes
<1>7. NothingStrands'
  BY DEF Inv, TypeOK, Work, Row, File, Acquainted, FilesFollowRows, CalmGone, CalmMakes,
     CalmDeletes, NothingStrands, Makes
<1>8. SuccessIsStored'
  BY DEF Inv, TypeOK, Work, Row, File, Acquainted, RowsStand, MakesAlone, CalmWaits,
     CalmMakes, CalmDeletes, SuccessIsStored, Makes, Concerns
<1> QED BY <1>1, <1>2, <1>3, <1>4, <1>5, <1>6, <1>7, <1>8

\* The row is marked successful.
LEMMA RecordCalm == ASSUME CalmInv, NEW r \in Requests, Record(r) PROVE CalmInv'
<1> USE BackupsAssumption DEF Record, At, Finish, Tends, CalmInv
<1>1. Inv'
  BY RecordInv
<1>2. CalmWaits'
  BY DEF Inv, TypeOK, Work, CalmWaits
<1>3. CalmGone'
  BY DEF Inv, TypeOK, Work, File, Acquainted, CalmGone, CalmUnpacks
<1>4. CalmUnpacks'
  BY DEF Inv, TypeOK, Work, Acquainted, CalmGone, CalmUnpacks
<1>5. CalmMakes'
  BY DEF Inv, TypeOK, Work, Row, File, Acquainted, RowsStand, MakesAlone, CalmGone,
     CalmDeletes, CalmMakes, Makes
<1>6. CalmDeletes'
  BY DEF Inv, TypeOK, Work, Acquainted, MakesAlone, CalmWaits, CalmDeletes, Makes
<1>7. NothingStrands'
  BY DEF Inv, TypeOK, Work, Row, File, Acquainted, FilesFollowRows, CalmGone, CalmMakes,
     CalmDeletes, NothingStrands, Makes
<1>8. SuccessIsStored'
  BY DEF Inv, TypeOK, Work, Row, File, Acquainted, RowsStand, MakesAlone, CalmWaits,
     CalmMakes, CalmDeletes, SuccessIsStored, Makes, Concerns
<1> QED BY <1>1, <1>2, <1>3, <1>4, <1>5, <1>6, <1>7, <1>8

\* A restore begins, of a successful backup.
LEMMA RestoreBeginCalm == ASSUME CalmInv, NEW r \in Requests, RestoreBegin(r) PROVE CalmInv'
<1> USE BackupsAssumption DEF RestoreBegin, At, Begin, Tends, CalmInv
<1>1. Inv'
  BY RestoreBeginInv
<1>2. CalmWaits'
  BY DEF Inv, TypeOK, Work, CalmWaits
<1>3. CalmGone'
  BY DEF Inv, TypeOK, Work, File, Acquainted, CalmGone, CalmUnpacks
<1>4. CalmUnpacks'
  BY DEF Inv, TypeOK, Work, Acquainted, CalmGone, CalmUnpacks
<1>5. CalmMakes'
  BY DEF Inv, TypeOK, Work, Row, File, Acquainted, RowsStand, MakesAlone, CalmGone,
     CalmDeletes, CalmMakes, Makes
<1>6. CalmDeletes'
  BY DEF Inv, TypeOK, Work, Acquainted, MakesAlone, CalmWaits, CalmDeletes, Makes
<1>7. NothingStrands'
  BY DEF Inv, TypeOK, Work, Row, File, Acquainted, FilesFollowRows, CalmGone, CalmMakes,
     CalmDeletes, NothingStrands, Makes
<1>8. SuccessIsStored'
  BY DEF Inv, TypeOK, Work, Row, File, Acquainted, RowsStand, MakesAlone, CalmWaits,
     CalmMakes, CalmDeletes, SuccessIsStored, Makes, Concerns
<1> QED BY <1>1, <1>2, <1>3, <1>4, <1>5, <1>6, <1>7, <1>8

\* The archive is opened.
LEMMA FetchCalm == ASSUME CalmInv, NEW r \in Requests, Fetch(r) PROVE CalmInv'
<1> USE BackupsAssumption DEF Fetch, At, Goto, Then, Finish, Tends, CalmInv
<1>1. Inv'
  BY FetchInv
<1>2. CalmWaits'
  BY DEF Inv, TypeOK, Work, CalmWaits
<1>3. CalmGone'
  BY DEF Inv, TypeOK, Work, File, Acquainted, CalmGone, CalmUnpacks
<1>4. CalmUnpacks'
  BY DEF Inv, TypeOK, Work, Acquainted, CalmGone, CalmUnpacks
<1>5. CalmMakes'
  BY DEF Inv, TypeOK, Work, Row, File, Acquainted, RowsStand, MakesAlone, CalmGone,
     CalmDeletes, CalmMakes, Makes
<1>6. CalmDeletes'
  BY DEF Inv, TypeOK, Work, Acquainted, MakesAlone, CalmWaits, CalmDeletes, Makes
<1>7. NothingStrands'
  BY DEF Inv, TypeOK, Work, Row, File, Acquainted, FilesFollowRows, CalmGone, CalmMakes,
     CalmDeletes, NothingStrands, Makes
<1>8. SuccessIsStored'
  BY DEF Inv, TypeOK, Work, Row, File, Acquainted, RowsStand, MakesAlone, CalmWaits,
     CalmMakes, CalmDeletes, SuccessIsStored, Makes, Concerns
<1> QED BY <1>1, <1>2, <1>3, <1>4, <1>5, <1>6, <1>7, <1>8

\* The files are back.
LEMMA UnpackCalm == ASSUME CalmInv, NEW r \in Requests, Unpack(r) PROVE CalmInv'
<1> USE BackupsAssumption DEF Unpack, At, Finish, Tends, CalmInv
<1>1. Inv'
  BY UnpackInv
<1>2. CalmWaits'
  BY DEF Inv, TypeOK, Work, CalmWaits
<1>3. CalmGone'
  BY DEF Inv, TypeOK, Work, File, Acquainted, CalmGone, CalmUnpacks
<1>4. CalmUnpacks'
  BY DEF Inv, TypeOK, Work, Acquainted, CalmGone, CalmUnpacks
<1>5. CalmMakes'
  BY DEF Inv, TypeOK, Work, Row, File, Acquainted, RowsStand, MakesAlone, CalmGone,
     CalmDeletes, CalmMakes, Makes
<1>6. CalmDeletes'
  BY DEF Inv, TypeOK, Work, Acquainted, MakesAlone, CalmWaits, CalmDeletes, Makes
<1>7. NothingStrands'
  BY DEF Inv, TypeOK, Work, Row, File, Acquainted, FilesFollowRows, CalmGone, CalmMakes,
     CalmDeletes, NothingStrands, Makes
<1>8. SuccessIsStored'
  BY DEF Inv, TypeOK, Work, Row, File, Acquainted, RowsStand, MakesAlone, CalmWaits,
     CalmMakes, CalmDeletes, SuccessIsStored, Makes, Concerns
<1> QED BY <1>1, <1>2, <1>3, <1>4, <1>5, <1>6, <1>7, <1>8

\* A deletion begins.
LEMMA DeleteBeginCalm == ASSUME CalmInv, NEW r \in Requests, DeleteBegin(r) PROVE CalmInv'
<1> USE BackupsAssumption DEF DeleteBegin, At, Begin, Concerns, Tends, CalmInv
<1>1. Inv'
  BY DeleteBeginInv
<1>2. CalmWaits'
  BY DEF Inv, TypeOK, Work, CalmWaits
<1>3. CalmGone'
  BY DEF Inv, TypeOK, Work, File, Acquainted, CalmGone, CalmUnpacks
<1>4. CalmUnpacks'
  BY DEF Inv, TypeOK, Work, Acquainted, CalmGone, CalmUnpacks
<1>5. CalmMakes'
  BY DEF Inv, TypeOK, Work, Row, File, Acquainted, RowsStand, MakesAlone, CalmGone,
     CalmDeletes, CalmMakes, Makes
<1>6. CalmDeletes'
  BY DEF Inv, TypeOK, Work, Acquainted, MakesAlone, CalmWaits, CalmDeletes, Makes
<1>7. NothingStrands'
  BY DEF Inv, TypeOK, Work, Row, File, Acquainted, FilesFollowRows, CalmGone, CalmMakes,
     CalmDeletes, NothingStrands, Makes
<1>8. SuccessIsStored'
  BY DEF Inv, TypeOK, Work, Row, File, Acquainted, RowsStand, MakesAlone, CalmWaits,
     CalmMakes, CalmDeletes, SuccessIsStored, Makes
<1> QED BY <1>1, <1>2, <1>3, <1>4, <1>5, <1>6, <1>7, <1>8

\* The archive is unlinked.
LEMMA UnlinkCalm == ASSUME CalmInv, NEW r \in Requests, Unlink(r) PROVE CalmInv'
<1> USE BackupsAssumption DEF Unlink, At, Answered, Goto, Then, Finish, Tends, CalmInv
<1>1. Inv'
  BY UnlinkInv
<1>2. CalmWaits'
  BY DEF Inv, TypeOK, Work, CalmWaits
<1>3. CalmGone'
  BY DEF Inv, TypeOK, Work, File, Acquainted, CalmGone, CalmUnpacks
<1>4. CalmUnpacks'
  BY DEF Inv, TypeOK, Work, Acquainted, CalmGone, CalmUnpacks
<1>5. CalmMakes'
  BY DEF Inv, TypeOK, Work, Row, File, Acquainted, RowsStand, MakesAlone, CalmGone,
     CalmDeletes, CalmMakes, Makes
<1>6. CalmDeletes'
  BY DEF Inv, TypeOK, Work, Acquainted, MakesAlone, CalmWaits, CalmDeletes, Makes
<1>7. NothingStrands'
  BY DEF Inv, TypeOK, Work, Row, File, Acquainted, FilesFollowRows, CalmGone, CalmMakes,
     CalmDeletes, NothingStrands, Makes
<1>8. SuccessIsStored'
  <2> SUFFICES ASSUME NEW b \in Archives, rows[b] \in Row, rows[b].done, rows[b].server \in Calm,
                      archive'[b] = NoFile, life[rows[b].server] # "removed"
               PROVE  \E q \in Requests : Concerns(q, b)' /\ At(q, "drop")'
    BY DEF SuccessIsStored
  <2>1. CASE archive[b] = NoFile
    <3>1. PICK q \in Requests : Concerns(q, b) /\ At(q, "drop")
      BY <2>1 DEF SuccessIsStored
    <3> QED BY <3>1 DEF Inv, TypeOK, Concerns
  <2>2. CASE archive[b] # NoFile
    <3>1. work[r].backup = b /\ work[r].waits
      BY <2>2 DEF Inv, TypeOK, Work, Acquainted, CalmWaits
    <3>2. Then(r, "drop", b)
      BY <2>2, <3>1
    <3>3. work'[r] \in Work /\ work'[r].step = "drop" /\ work'[r].backup = b
      BY <3>1, <3>2 DEF Inv, TypeOK, Work, Steps
    <3> QED BY <3>3 DEF Concerns
  <2> QED BY <2>1, <2>2
<1> QED BY <1>1, <1>2, <1>3, <1>4, <1>5, <1>6, <1>7, <1>8

\* The row is deleted.
LEMMA DropRowCalm == ASSUME CalmInv, NEW r \in Requests, DropRow(r) PROVE CalmInv'
<1> USE BackupsAssumption DEF DropRow, At, Finish, Tends, CalmInv
<1>1. Inv'
  BY DropRowInv
<1>2. CalmWaits'
  BY DEF Inv, TypeOK, Work, CalmWaits
<1>3. CalmGone'
  BY DEF Inv, TypeOK, Work, File, Acquainted, CalmGone, CalmUnpacks
<1>4. CalmUnpacks'
  BY DEF Inv, TypeOK, Work, Acquainted, CalmGone, CalmUnpacks
<1>5. CalmMakes'
  BY DEF Inv, TypeOK, Work, Row, File, Acquainted, RowsStand, MakesAlone, CalmGone,
     CalmDeletes, CalmMakes, Makes
<1>6. CalmDeletes'
  BY DEF Inv, TypeOK, Work, Acquainted, MakesAlone, CalmWaits, CalmDeletes, Makes
<1>7. NothingStrands'
  BY DEF Inv, TypeOK, Work, Row, File, Acquainted, FilesFollowRows, CalmGone, CalmMakes,
     CalmDeletes, NothingStrands, Makes
<1>8. SuccessIsStored'
  BY DEF Inv, TypeOK, Work, Row, File, Acquainted, RowsStand, MakesAlone, CalmWaits,
     CalmMakes, CalmDeletes, SuccessIsStored, Makes, Concerns
<1> QED BY <1>1, <1>2, <1>3, <1>4, <1>5, <1>6, <1>7, <1>8

\* A request is cut off.
LEMMA AbortCalm == ASSUME CalmInv, NEW r \in Requests, Abort(r) PROVE CalmInv'
<1> USE BackupsAssumption DEF Abort, At, Finish, Tends, CalmInv
<1>1. Inv'
  BY AbortInv
<1>2. CalmWaits'
  BY DEF Inv, TypeOK, Work, CalmWaits
<1>3. CalmGone'
  BY DEF Inv, TypeOK, Work, File, Acquainted, CalmGone, CalmUnpacks
<1>4. CalmUnpacks'
  BY DEF Inv, TypeOK, Work, Acquainted, CalmGone, CalmUnpacks
<1>5. CalmMakes'
  BY DEF Inv, TypeOK, Work, Row, File, Acquainted, RowsStand, MakesAlone, CalmGone,
     CalmDeletes, CalmMakes, Makes
<1>6. CalmDeletes'
  BY DEF Inv, TypeOK, Work, Acquainted, MakesAlone, CalmWaits, CalmDeletes, Makes
<1>7. NothingStrands'
  BY DEF Inv, TypeOK, Work, Row, File, Acquainted, FilesFollowRows, CalmGone, CalmMakes,
     CalmDeletes, NothingStrands, Makes
<1>8. SuccessIsStored'
  BY DEF Inv, TypeOK, Work, Row, File, Acquainted, RowsStand, MakesAlone, CalmWaits,
     CalmMakes, CalmDeletes, SuccessIsStored, Makes, Concerns
<1> QED BY <1>1, <1>2, <1>3, <1>4, <1>5, <1>6, <1>7, <1>8

\* The daemon dies.
LEMMA PerishCalm == ASSUME CalmInv, NEW r \in Requests, Perish(r) PROVE CalmInv'
<1> USE BackupsAssumption DEF Perish, At, Finish, Tends, CalmInv
<1>1. Inv'
  BY PerishInv
<1>2. CalmWaits'
  BY DEF Inv, TypeOK, Work, CalmWaits
<1>3. CalmGone'
  BY DEF Inv, TypeOK, Work, File, Acquainted, CalmGone, CalmUnpacks
<1>4. CalmUnpacks'
  BY DEF Inv, TypeOK, Work, Acquainted, CalmGone, CalmUnpacks
<1>5. CalmMakes'
  BY DEF Inv, TypeOK, Work, Row, File, Acquainted, RowsStand, MakesAlone, CalmGone,
     CalmDeletes, CalmMakes, Makes
<1>6. CalmDeletes'
  BY DEF Inv, TypeOK, Work, Acquainted, MakesAlone, CalmWaits, CalmDeletes, Makes
<1>7. NothingStrands'
  BY DEF Inv, TypeOK, Work, Row, File, Acquainted, FilesFollowRows, CalmGone, CalmMakes,
     CalmDeletes, NothingStrands, Makes
<1>8. SuccessIsStored'
  BY DEF Inv, TypeOK, Work, Row, File, Acquainted, RowsStand, MakesAlone, CalmWaits,
     CalmMakes, CalmDeletes, SuccessIsStored, Makes, Concerns
<1> QED BY <1>1, <1>2, <1>3, <1>4, <1>5, <1>6, <1>7, <1>8

\* The limit of a server changes.
LEMMA SetLimitCalm == ASSUME CalmInv, NEW s \in Servers, SetLimit(s) PROVE CalmInv'
<1> USE BackupsAssumption DEF SetLimit, At, Tends, CalmInv
<1>1. Inv'
  BY SetLimitInv
<1>2. CalmWaits'
  BY DEF Inv, TypeOK, Work, CalmWaits
<1>3. CalmGone'
  BY DEF Inv, TypeOK, Work, File, Acquainted, CalmGone, CalmUnpacks
<1>4. CalmUnpacks'
  BY DEF Inv, TypeOK, Work, Acquainted, CalmGone, CalmUnpacks
<1>5. CalmMakes'
  BY DEF Inv, TypeOK, Work, Row, File, Acquainted, RowsStand, MakesAlone, CalmGone,
     CalmDeletes, CalmMakes, Makes
<1>6. CalmDeletes'
  BY DEF Inv, TypeOK, Work, Acquainted, MakesAlone, CalmWaits, CalmDeletes, Makes
<1>7. NothingStrands'
  BY DEF Inv, TypeOK, Work, Row, File, Acquainted, FilesFollowRows, CalmGone, CalmMakes,
     CalmDeletes, NothingStrands, Makes
<1>8. SuccessIsStored'
  BY DEF Inv, TypeOK, Work, Row, File, Acquainted, RowsStand, MakesAlone, CalmWaits,
     CalmMakes, CalmDeletes, SuccessIsStored, Makes, Concerns
<1> QED BY <1>1, <1>2, <1>3, <1>4, <1>5, <1>6, <1>7, <1>8

\* The node forgets a server.
LEMMA RemoveServerCalm == ASSUME CalmInv, NEW s \in Servers, RemoveServer(s) PROVE CalmInv'
<1> USE BackupsAssumption DEF RemoveServer, At, Tends, CalmInv
<1>1. Inv'
  BY RemoveServerInv
<1>2. CalmWaits'
  BY DEF Inv, TypeOK, Work, CalmWaits
<1>3. CalmGone'
  BY DEF Inv, TypeOK, Work, File, Acquainted, CalmGone, CalmUnpacks
<1>4. CalmUnpacks'
  BY DEF Inv, TypeOK, Work, Acquainted, CalmGone, CalmUnpacks
<1>5. CalmMakes'
  BY DEF Inv, TypeOK, Work, Row, File, Acquainted, RowsStand, MakesAlone, CalmGone,
     CalmDeletes, CalmMakes, Makes
<1>6. CalmDeletes'
  BY DEF Inv, TypeOK, Work, Acquainted, MakesAlone, CalmWaits, CalmDeletes, Makes
<1>7. NothingStrands'
  BY DEF Inv, TypeOK, Work, Row, File, Acquainted, FilesFollowRows, CalmGone, CalmMakes,
     CalmDeletes, NothingStrands, Makes
<1>8. SuccessIsStored'
  BY DEF Inv, TypeOK, Row, FilesFollowRows, SuccessIsStored, Concerns
<1> QED BY <1>1, <1>2, <1>3, <1>4, <1>5, <1>6, <1>7, <1>8

\* A server's row goes, and its backups' rows with it.
LEMMA DeleteServerCalm == ASSUME CalmInv, NEW s \in Servers, DeleteServer(s) PROVE CalmInv'
<1> USE BackupsAssumption DEF DeleteServer, At, Tends, CalmInv
<1>1. Inv'
  BY DeleteServerInv
<1>2. CalmWaits'
  BY DEF Inv, TypeOK, Work, CalmWaits
<1>3. CalmGone'
  BY DEF Inv, TypeOK, Work, File, Acquainted, CalmGone, CalmUnpacks
<1>4. CalmUnpacks'
  BY DEF Inv, TypeOK, Work, Acquainted, CalmGone, CalmUnpacks
<1>5. CalmMakes'
  BY DEF Inv, TypeOK, Work, Row, File, Acquainted, RowsStand, MakesAlone, CalmGone,
     CalmDeletes, CalmMakes, Makes, Kept, FilesFollowRows
<1>6. CalmDeletes'
  BY DEF Inv, TypeOK, Work, Acquainted, MakesAlone, CalmWaits, CalmDeletes, Makes
<1>7. NothingStrands'
  BY DEF Inv, TypeOK, Work, Row, File, Acquainted, FilesFollowRows, CalmGone, CalmMakes,
     CalmDeletes, NothingStrands, Makes, Kept
<1>8. SuccessIsStored'
  BY DEF Inv, TypeOK, Work, Row, File, Acquainted, RowsStand, MakesAlone, CalmWaits,
     CalmMakes, CalmDeletes, SuccessIsStored, Makes, Concerns, Kept, FilesFollowRows
<1> QED BY <1>1, <1>2, <1>3, <1>4, <1>5, <1>6, <1>7, <1>8

\* A server that was to be deleted is made again.
LEMMA RecreateCalm == ASSUME CalmInv, NEW s \in Servers, Recreate(s) PROVE CalmInv'
<1> USE BackupsAssumption DEF Recreate, At, Tends, CalmInv
<1>1. Inv'
  BY RecreateInv
<1>2. CalmWaits'
  BY DEF Inv, TypeOK, Work, CalmWaits
<1>3. CalmGone'
  BY DEF Inv, TypeOK, Work, File, Acquainted, CalmGone, CalmUnpacks
<1>4. CalmUnpacks'
  BY DEF Inv, TypeOK, Work, Acquainted, CalmGone, CalmUnpacks
<1>5. CalmMakes'
  BY DEF Inv, TypeOK, Work, Row, File, Acquainted, RowsStand, MakesAlone, CalmGone,
     CalmDeletes, CalmMakes, Makes
<1>6. CalmDeletes'
  BY DEF Inv, TypeOK, Work, Acquainted, MakesAlone, CalmWaits, CalmDeletes, Makes
<1>7. NothingStrands'
  BY DEF Inv, TypeOK, Work, Row, File, Acquainted, FilesFollowRows, CalmGone, CalmMakes,
     CalmDeletes, NothingStrands, Makes
<1>8. SuccessIsStored'
  BY DEF Inv, TypeOK, Work, Row, File, Acquainted, RowsStand, MakesAlone, CalmWaits,
     CalmMakes, CalmDeletes, SuccessIsStored, Makes, Concerns
<1> QED BY <1>1, <1>2, <1>3, <1>4, <1>5, <1>6, <1>7, <1>8

\* Every step keeps CalmInv.
LEMMA StepCalm == ASSUME CalmInv, [Next]_vars PROVE CalmInv'
<1>1. ASSUME NEW r \in Requests, Request(r) PROVE CalmInv'
  BY <1>1, CreateBeginCalm, LockServerCalm, CountCalm, ReserveCalm, WriteBeginCalm,
     WriteEndCalm, RecordCalm, RestoreBeginCalm, FetchCalm, UnpackCalm, DeleteBeginCalm,
     UnlinkCalm, DropRowCalm, AbortCalm, PerishCalm DEF Request
<1>2. ASSUME NEW s \in Servers, Server(s) PROVE CalmInv'
  BY <1>2, SetLimitCalm, RemoveServerCalm, DeleteServerCalm, RecreateCalm DEF Server
<1>3. CASE UNCHANGED vars
  <2>1. Inv'
    BY <1>3, StepInv DEF CalmInv
  <2>2. UNCHANGED <<life, files, rows, archive, litter, work>>
    BY <1>3 DEF vars
  <2>3. CalmWaits' /\ CalmGone' /\ CalmUnpacks'
    BY <2>2 DEF CalmInv, CalmWaits, CalmGone, CalmUnpacks, At, Tends
  <2>4. CalmMakes' /\ CalmDeletes'
    BY <2>2 DEF CalmInv, CalmMakes, CalmDeletes, Makes, At, Tends
  <2>5. NothingStrands' /\ SuccessIsStored'
    BY <2>2 DEF CalmInv, NothingStrands, SuccessIsStored, At, Concerns
  <2> QED BY <2>1, <2>3, <2>4, <2>5 DEF CalmInv
<1> QED BY <1>1, <1>2, <1>3 DEF Next

\* Every reachable state satisfies CalmInv.
THEOREM CalmInvariance == Spec => []CalmInv
<1>1. Init => CalmInv
  BY InitInv
<1>2. CalmInv /\ [Next]_vars => CalmInv'
  BY StepCalm
<1> QED BY <1>1, <1>2, PTL DEF Spec

\* No archive of a calm server outlives its row.
THEOREM NoStrandedArchive == Spec => []NothingStrands
<1>1. CalmInv => NothingStrands
  BY DEF CalmInv
<1> QED BY <1>1, CalmInvariance, PTL

\* A successful backup of a calm server has its archive, until one of them goes.
THEOREM SuccessMeansStored == Spec => []SuccessIsStored
<1>1. CalmInv => SuccessIsStored
  BY DEF CalmInv
<1> QED BY <1>1, CalmInvariance, PTL

\* A step by which no archive appears or changes its server, no calm backup with
\* an archive stops being successful, and no calm request stops making one, unless it
\* leaves litter.
LEMMA NothingAbandoned ==
    ASSUME NothingUnfinished,
           litter \subseteq litter',
           \A b \in Archives :
               archive'[b] # NoFile =>
                   archive[b] # NoFile /\ archive'[b].server = archive[b].server,
           \A b \in Archives :
               rows[b] \in Row /\ rows[b].done
                   /\ archive'[b] # NoFile /\ archive'[b].server \in Calm \ litter' =>
                   rows'[b] \in Row /\ rows'[b].done,
           \A q \in Requests, b \in Archives :
               Concerns(q, b) /\ (At(q, "write") \/ At(q, "record")) /\ b \notin litter'
                   /\ archive'[b] # NoFile /\ archive'[b].server \in Calm \ litter' =>
                   \/ Concerns(q, b)' /\ (At(q, "write")' \/ At(q, "record")')
                   \/ rows'[b] \in Row /\ rows'[b].done
    PROVE  NothingUnfinished'
BY DEF NothingUnfinished

\* What is left behind is not tidied up.
LEMMA LitterStays == ASSUME [Next]_vars PROVE litter \subseteq litter'
<1>1. ASSUME NEW r \in Requests, Request(r) PROVE litter \subseteq litter'
  BY <1>1 DEF Request, CreateBegin, LockServer, Count, Reserve, WriteBegin, WriteEnd, Record,
     RestoreBegin, Fetch, Unpack, DeleteBegin, Unlink, DropRow, Abort, Perish
<1>2. ASSUME NEW s \in Servers, Server(s) PROVE litter \subseteq litter'
  BY <1>2 DEF Server, SetLimit, RemoveServer, DeleteServer, Recreate
<1> QED BY <1>1, <1>2 DEF Next, vars

\* Every step of a calm server that leaves an archive behind, and is not said to leave
\* litter, leaves a successful backup: the daemon removes what it cannot finish, and
\* the panel records the rest.
LEMMA StepUnfinished ==
    ASSUME CalmInv, NothingUnfinished, [Next]_vars
    PROVE  NothingUnfinished'
<1> USE BackupsAssumption DEF At, Concerns
<1>0. litter \subseteq litter'
  BY LitterStays
<1>1. ASSUME NEW r \in Requests,
             CreateBegin(r) \/ LockServer(r) \/ Count(r) \/ RestoreBegin(r) \/ Fetch(r)
                 \/ Unpack(r) \/ DeleteBegin(r)
      PROVE  NothingUnfinished'
  <2>1. UNCHANGED <<rows, archive>>
    BY <1>1 DEF CreateBegin, LockServer, Count, RestoreBegin, Fetch, Unpack, DeleteBegin
  <2>2. \A q \in Requests : At(q, "write") \/ At(q, "record") => work'[q] = work[q]
    BY <1>1 DEF CalmInv, Inv, TypeOK, CreateBegin, LockServer, Count, RestoreBegin, Fetch,
       Unpack, DeleteBegin, Begin, Goto, Then, Finish
  <2> QED BY <2>1, <2>2, <1>0, NothingAbandoned
<1>2. ASSUME NEW r \in Requests, Reserve(r) PROVE NothingUnfinished'
  <2>1. archive' = archive /\ \A q \in Requests : q # r => work'[q] = work[q]
    BY <1>2 DEF CalmInv, Inv, TypeOK, Reserve, Then, Finish
  <2>2. \A b \in Archives : rows[b] \in Row => rows'[b] = rows[b]
    BY <1>2 DEF CalmInv, Inv, TypeOK, Reserve
  <2>3. ~At(r, "write") /\ ~At(r, "record")
    BY <1>2 DEF Reserve
  <2> QED BY <2>1, <2>2, <2>3, <1>0, NothingAbandoned
<1>3. ASSUME NEW r \in Requests, WriteBegin(r) PROVE NothingUnfinished'
  <2>1. rows' = rows /\ \A q \in Requests : q # r => work'[q] = work[q]
    BY <1>3 DEF CalmInv, Inv, TypeOK, WriteBegin, Goto, Then, Finish
  <2>2. ~At(r, "write") /\ ~At(r, "record")
    BY <1>3 DEF WriteBegin
  <2>3. CASE archive' = archive
    BY <2>1, <2>2, <2>3, <1>0, NothingAbandoned
  <2>4. CASE Goto(r, "write") /\ \A b \in Archives : b # work[r].backup => archive'[b] = archive[b]
    <3>1. work[r] \in Work
      BY <1>3 DEF CalmInv, Inv, TypeOK, WriteBegin
    <3>2. work'[r].step = "write" /\ work'[r].backup = work[r].backup
      BY <2>4 DEF CalmInv, Inv, TypeOK, Goto, Then
    <3>3. work'[r] \in Work
      BY <2>4, <3>1 DEF CalmInv, Inv, TypeOK, Work, Steps, Goto, Then
    <3> QED BY <1>0, <2>1, <2>2, <2>4, <3>2, <3>3 DEF NothingUnfinished
  <2> QED BY <1>3, <2>3, <2>4 DEF CalmInv, Inv, TypeOK, WriteBegin
<1>4. ASSUME NEW r \in Requests, WriteEnd(r) PROVE NothingUnfinished'
  <2> DEFINE b == work[r].backup
  <2>1. rows' = rows /\ \A q \in Requests : q # r => work'[q] = work[q]
    BY <1>4 DEF CalmInv, Inv, TypeOK, WriteEnd, Answered, Goto, Then, Finish
  <2>2. b \in Archives /\ At(r, "write")
    BY <1>4 DEF CalmInv, Inv, TypeOK, Work, WriteEnd
  <2>3. CASE archive' = [archive EXCEPT ![b] = NoFile]
    <3>1. archive'[b] = NoFile /\ \A c \in Archives : c # b => archive'[c] = archive[c]
      BY <2>2, <2>3 DEF CalmInv, Inv, TypeOK
    <3> QED BY <2>1, <2>2, <3>1, <1>0, NothingAbandoned
  <2>4. CASE archive' = [archive EXCEPT ![b] = Closed(archive[b])] /\ Answered(r, "record")
    <3>1. \A c \in Archives : c # b => archive'[c] = archive[c]
      BY <2>4 DEF CalmInv, Inv, TypeOK
    <3>2. archive'[b] # NoFile => archive[b] # NoFile /\ archive'[b].server = archive[b].server
      BY <2>2, <2>4 DEF CalmInv, Inv, TypeOK, Closed
    <3>3. CASE archive'[b] = NoFile \/ archive'[b].server \notin Calm
      BY <2>1, <2>2, <3>1, <3>2, <3>3, <1>0, NothingAbandoned
    <3>4. CASE archive'[b] # NoFile /\ archive'[b].server \in Calm
      <4>1. work[r].server = archive[b].server
        BY <2>2, <3>2, <3>4 DEF CalmInv, Inv, Acquainted, TypeOK
      <4>2. work[r].waits
        BY <2>2, <3>2, <3>4, <4>1 DEF CalmInv, CalmWaits, Tends
      <4>3. work[r] \in Work /\ Then(r, "record", b)
        BY <2>2, <2>4, <4>2 DEF CalmInv, Inv, TypeOK, Answered, Goto
      <4>4. work'[r].step = "record" /\ work'[r].backup = work[r].backup
        BY <4>3 DEF CalmInv, Inv, TypeOK, Then
      <4>5. work'[r] \in Work
        BY <4>3 DEF CalmInv, Inv, TypeOK, Work, Steps, Then
      <4> QED BY <2>1, <2>2, <3>1, <3>2, <4>4, <4>5, <1>0, NothingAbandoned
    <3> QED BY <3>3, <3>4
  <2>5. CASE archive' = archive /\ litter' = litter \cup {b}
    BY <2>1, <2>2, <2>5, <1>0, NothingAbandoned
  <2> QED BY <1>4, <2>3, <2>4, <2>5 DEF WriteEnd
<1>5. ASSUME NEW r \in Requests, Record(r) PROVE NothingUnfinished'
  <2> DEFINE b == work[r].backup
  <2>1. archive' = archive /\ \A q \in Requests : q # r => work'[q] = work[q]
    BY <1>5 DEF CalmInv, Inv, TypeOK, Record, Finish
  <2>2. b \in Archives /\ At(r, "record")
    BY <1>5 DEF CalmInv, Inv, TypeOK, Work, Record
  <2>3. rows[b] \in Row => rows'[b] \in Row /\ rows'[b].done
    BY <1>5, <2>2 DEF CalmInv, Inv, TypeOK, Record, Row
  <2>4. \A c \in Archives : c # b => rows'[c] = rows[c]
    BY <1>5, <2>2 DEF CalmInv, Inv, TypeOK, Record
  <2>5. archive[b] # NoFile /\ archive[b].server \in Calm \ litter' => rows[b] \in Row
    BY <1>0, <2>2 DEF CalmInv, NothingStrands
  <2> QED BY <2>1, <2>2, <2>3, <2>4, <2>5, <1>0, NothingAbandoned
<1>6. ASSUME NEW r \in Requests, Unlink(r) PROVE NothingUnfinished'
  <2>1. rows' = rows /\ \A q \in Requests : q # r => work'[q] = work[q]
    BY <1>6 DEF CalmInv, Inv, TypeOK, Unlink, Answered, Goto, Then, Finish
  <2>2. \A b \in Archives : archive'[b] # NoFile => archive'[b] = archive[b]
    BY <1>6 DEF CalmInv, Inv, TypeOK, Unlink
  <2>3. ~At(r, "write") /\ ~At(r, "record")
    BY <1>6 DEF Unlink
  <2> QED BY <2>1, <2>2, <2>3, <1>0, NothingAbandoned
<1>7. ASSUME NEW r \in Requests, DropRow(r) PROVE NothingUnfinished'
  <2> DEFINE b == work[r].backup
  <2>1. archive' = archive /\ \A q \in Requests : q # r => work'[q] = work[q]
    BY <1>7 DEF CalmInv, Inv, TypeOK, DropRow, Finish
  <2>2. \A c \in Archives : c # b => rows'[c] = rows[c]
    BY <1>7 DEF CalmInv, Inv, TypeOK, DropRow
  <2>3. At(r, "drop") /\ b \in Archives
    BY <1>7 DEF CalmInv, Inv, TypeOK, Work, DropRow
  <2>4. archive[b] # NoFile => archive[b].server \notin Calm
    BY <2>3 DEF CalmInv, Inv, Acquainted, TypeOK, CalmDeletes, Tends
  <2> QED BY <2>1, <2>2, <2>3, <2>4, <1>0, NothingAbandoned
<1>8. ASSUME NEW r \in Requests, Abort(r) \/ Perish(r) PROVE NothingUnfinished'
  <2>1. UNCHANGED <<rows, archive>> /\ \A q \in Requests : q # r => work'[q] = work[q]
    BY <1>8 DEF CalmInv, Inv, TypeOK, Abort, Perish, Finish
  <2>2. work[r] # Idle /\ work[r].server \notin Calm
    BY <1>8 DEF Abort, Perish
  <2>3. \A b \in Archives : Concerns(r, b) /\ archive[b] # NoFile => archive[b].server \notin Calm
    BY <2>2 DEF CalmInv, Inv, Acquainted, TypeOK
  <2> QED BY <2>1, <2>3, <1>0, NothingAbandoned
<1>9. ASSUME NEW s \in Servers, SetLimit(s) \/ RemoveServer(s) \/ Recreate(s)
      PROVE  NothingUnfinished'
  <2>1. UNCHANGED <<rows, work>>
    BY <1>9 DEF SetLimit, RemoveServer, Recreate
  <2>2. \A b \in Archives : archive'[b] # NoFile => archive'[b] = archive[b]
    BY <1>9 DEF SetLimit, RemoveServer, Recreate
  <2> QED BY <2>1, <2>2, <1>0, NothingAbandoned
<1>10. ASSUME NEW s \in Servers, DeleteServer(s) PROVE NothingUnfinished'
  <2>1. UNCHANGED <<archive, work>> /\ (life[s] = "removed" \/ s \in litter')
    BY <1>10 DEF DeleteServer, CalmInv, Inv, TypeOK
  <2>2. \A b \in Archives : rows'[b] = rows[b] \/ (rows[b] \in Row /\ rows[b].server = s)
    BY <1>10 DEF DeleteServer, Kept
  <2>3. \A b \in Archives :
           rows[b] \in Row /\ rows[b].server = s /\ archive[b] # NoFile =>
               archive[b].server \notin Calm \ litter'
    BY <1>0, <2>1 DEF CalmInv, Inv, FilesFollowRows, CalmGone
  <2> QED BY <2>1, <2>2, <2>3, <1>0, NothingAbandoned
<1>11. CASE UNCHANGED vars
  BY <1>11 DEF vars, NothingUnfinished
<1> QED BY <1>1, <1>2, <1>3, <1>4, <1>5, <1>6, <1>7, <1>8, <1>9, <1>10, <1>11
        DEF Next, Request, Server

\* An archive of a calm server that nobody makes any more belongs to a successful
\* backup, whatever overlaps and fails, and however many servers are not calm, unless
\* a creation could not remove it or the server's deletion left it.
THEOREM FinishedOrRemoved == Spec => []NothingUnfinished
<1>1. Init => NothingUnfinished
  BY DEF Init, NothingUnfinished
<1>2. CalmInv /\ NothingUnfinished /\ [Next]_vars => NothingUnfinished'
  BY StepUnfinished
<1> QED BY <1>1, <1>2, CalmInvariance, PTL DEF Spec

-----------------------------------------------------------------------------
(* What a creation completes is recorded *)

\* The archive that is being written is not whole before the writing ends.
WritesPart ==
    \A r \in Requests :
        At(r, "write") =>
            LET f == archive[work[r].backup] IN f # NoFile => ~f.whole

\* A calm backup whose archive is whole is successful, or about to be.
WholeIsRecorded ==
    \A b \in Archives :
        rows[b] \in Row /\ rows[b].server \in Calm /\ archive[b] # NoFile /\ archive[b].whole =>
            rows[b].done \/ \E r \in Requests : Concerns(r, b) /\ At(r, "record")


\* A step by which no archive becomes whole or is about to be, no calm backup loses
\* its success, and no calm request gives up recording one.
LEMMA NothingCompleted ==
    ASSUME WritesPart, WholeIsRecorded,
           \A b \in Archives : archive'[b] # NoFile => archive'[b] = archive[b],
           \A b \in Archives :
               rows'[b] \in Row /\ archive'[b] # NoFile =>
                   /\ rows[b] \in Row /\ rows'[b].server = rows[b].server
                   /\ rows[b].done => rows'[b].done,
           \A q \in Requests : At(q, "write")' => At(q, "write") /\ work'[q].backup = work[q].backup,
           \A q \in Requests, b \in Archives :
               Concerns(q, b) /\ At(q, "record") /\ rows'[b] \in Row /\ rows'[b].server \in Calm
                   /\ archive'[b] # NoFile =>
                   (Concerns(q, b)' /\ At(q, "record")') \/ rows'[b].done,
           \A q \in Requests : At(q, "write") => work[q].backup \in Archives
    PROVE  WritesPart' /\ WholeIsRecorded'
<1>1. WritesPart'
  BY DEF WritesPart
<1>2. WholeIsRecorded'
  BY DEF WholeIsRecorded
<1> QED BY <1>1, <1>2

\* Only the end of a creation makes an archive whole, and the panel, which still
\* waits, records it next.
LEMMA StepRecorded ==
    ASSUME CalmInv, WritesPart, WholeIsRecorded, [Next]_vars
    PROVE  WritesPart' /\ WholeIsRecorded'
<1> USE BackupsAssumption DEF At, Concerns
<1>0. \A q \in Requests : At(q, "write") \/ At(q, "record") => work[q].backup \in Archives
  BY DEF CalmInv, Inv, TypeOK, Work
<1>1. ASSUME NEW r \in Requests,
             CreateBegin(r) \/ LockServer(r) \/ Count(r) \/ RestoreBegin(r) \/ Fetch(r)
                 \/ Unpack(r) \/ DeleteBegin(r)
      PROVE  WritesPart' /\ WholeIsRecorded'
  <2>1. UNCHANGED <<rows, archive>>
    BY <1>1 DEF CreateBegin, LockServer, Count, RestoreBegin, Fetch, Unpack, DeleteBegin
  <2>2. \A q \in Requests : At(q, "write") \/ At(q, "record") => work'[q] = work[q]
    BY <1>1 DEF CalmInv, Inv, TypeOK, CreateBegin, LockServer, Count, RestoreBegin, Fetch,
       Unpack, DeleteBegin, Begin, Goto, Then, Finish
  <2>3. \A q \in Requests : At(q, "write")' => work'[q] = work[q]
    BY <1>1 DEF CalmInv, Inv, TypeOK, CreateBegin, LockServer, Count, RestoreBegin, Fetch,
       Unpack, DeleteBegin, Begin, Goto, Then, Finish
  <2> QED BY <1>0, <2>1, <2>2, <2>3, NothingCompleted
<1>2. ASSUME NEW r \in Requests, Reserve(r) PROVE WritesPart' /\ WholeIsRecorded'
  <2>1. archive' = archive /\ \A q \in Requests : q # r => work'[q] = work[q]
    BY <1>2 DEF CalmInv, Inv, TypeOK, Reserve, Then, Finish
  <2>2. \A b \in Archives : rows'[b] = rows[b] \/ rows[b] = Unused
    BY <1>2 DEF CalmInv, Inv, TypeOK, Reserve
  <2>3. ~At(r, "write") /\ ~At(r, "record") /\ ~At(r, "write")'
    BY <1>2 DEF CalmInv, Inv, TypeOK, Reserve, Then, Finish
  <2>4. \A b \in Archives : archive[b] # NoFile => rows[b] # Unused
    BY DEF CalmInv, Inv, FilesFollowRows
  <2> QED BY <1>0, <2>1, <2>2, <2>3, <2>4, NothingCompleted
<1>3. ASSUME NEW r \in Requests, WriteBegin(r) PROVE WritesPart' /\ WholeIsRecorded'
  <2> DEFINE b == work[r].backup
  <2>1. rows' = rows /\ \A q \in Requests : q # r => work'[q] = work[q]
    BY <1>3 DEF CalmInv, Inv, TypeOK, WriteBegin, Goto, Then, Finish
  <2>2. ~At(r, "write") /\ ~At(r, "record") /\ b \in Archives
    BY <1>3 DEF CalmInv, Inv, TypeOK, Work, WriteBegin
  <2>3. CASE archive' = archive /\ Finish(r)
    <3>1. ~At(r, "write")'
      BY <2>3 DEF CalmInv, Inv, TypeOK, Finish
    <3> QED BY <1>0, <2>1, <2>2, <2>3, <3>1, NothingCompleted
  <2>4. CASE Goto(r, "write")
             /\ archive' = [archive EXCEPT ![b] = [server |-> work[r].server, whole |-> FALSE]]
    <3>1. archive'[b] = [server |-> work[r].server, whole |-> FALSE]
          /\ \A c \in Archives : c # b => archive'[c] = archive[c]
      BY <2>2, <2>4 DEF CalmInv, Inv, TypeOK
    <3>2. ~archive'[b].whole
      BY <3>1
    <3>3. work'[r].backup = b
      BY <2>4 DEF CalmInv, Inv, TypeOK, Goto, Then
    <3>4. WritesPart'
      BY <1>0, <2>1, <2>2, <3>1, <3>2, <3>3 DEF WritesPart
    <3>5. WholeIsRecorded'
      BY <2>1, <2>2, <3>1, <3>2 DEF WholeIsRecorded
    <3> QED BY <3>4, <3>5
  <2> QED BY <1>3, <2>3, <2>4 DEF WriteBegin
<1>4. ASSUME NEW r \in Requests, WriteEnd(r) PROVE WritesPart' /\ WholeIsRecorded'
  <2> DEFINE b == work[r].backup
  <2>1. rows' = rows /\ \A q \in Requests : q # r => work'[q] = work[q]
    BY <1>4 DEF CalmInv, Inv, TypeOK, WriteEnd, Answered, Goto, Then, Finish
  <2>2. b \in Archives /\ At(r, "write") /\ ~At(r, "record")
    BY <1>4 DEF CalmInv, Inv, TypeOK, Work, WriteEnd
  <2>3. ~At(r, "write")' /\ \A c \in Archives : c # b => archive'[c] = archive[c]
    BY <1>4, <2>2 DEF CalmInv, Inv, TypeOK, WriteEnd, Answered, Goto, Then, Finish
  <2>4. \A q \in Requests : At(q, "write") /\ q # r => work[q].backup # b
    BY <2>2 DEF CalmInv, Inv, MakesAlone, Makes
  <2>5. WritesPart'
    BY <1>0, <2>1, <2>3, <2>4 DEF WritesPart
  <2>a. SUFFICES ASSUME NEW c \in Archives, rows[c] \in Row, rows[c].server \in Calm,
                        archive'[c] # NoFile, archive'[c].whole, ~rows[c].done
                 PROVE  \E q \in Requests : Concerns(q, c)' /\ At(q, "record")'
    BY <2>1, <2>5 DEF WholeIsRecorded
  <2>6. CASE archive'[c] = archive[c]
    <3>1. PICK q \in Requests : Concerns(q, c) /\ At(q, "record")
      BY <2>a, <2>6 DEF WholeIsRecorded
    <3>2. q # r /\ work'[q] = work[q]
      BY <2>1, <2>2, <3>1
    <3> QED BY <3>1, <3>2
  <2>7. CASE c = b /\ Answered(r, "record")
    <3>1. work[r].waits
      BY <2>2, <2>a, <2>7 DEF CalmInv, CalmWaits, Tends, Inv, Acquainted, TypeOK
    <3>2. work'[r] = [step |-> "record", server |-> work[r].server, user |-> work[r].user,
                      limit |-> work[r].limit, backup |-> b, waits |-> work[r].waits]
      BY <2>7, <3>1 DEF CalmInv, Inv, TypeOK, Answered, Goto, Then
    <3>3. work'[r].step = "record" /\ work'[r].backup = b /\ work'[r] \in Work
      BY <2>2, <3>2 DEF CalmInv, Inv, TypeOK, Work, Steps
    <3> QED BY <2>7, <3>3
  <2>8. archive'[c] = archive[c] \/ (c = b /\ Answered(r, "record"))
    BY <1>4, <2>2, <2>3, <2>a DEF CalmInv, Inv, TypeOK, WriteEnd
  <2> QED BY <2>6, <2>7, <2>8
<1>5. ASSUME NEW r \in Requests, Record(r) PROVE WritesPart' /\ WholeIsRecorded'
  <2> DEFINE b == work[r].backup
  <2>1. archive' = archive /\ \A q \in Requests : q # r => work'[q] = work[q]
    BY <1>5 DEF CalmInv, Inv, TypeOK, Record, Finish
  <2>2. b \in Archives /\ ~At(r, "write")' /\ ~At(r, "write")
    BY <1>5, <1>0 DEF CalmInv, Inv, TypeOK, Record, Finish
  <2>3. rows[b] \in Row => rows'[b] = [server |-> rows[b].server, done |-> TRUE]
    BY <1>5, <2>2 DEF CalmInv, Inv, TypeOK, Record
  <2>4. rows[b] \notin Row => rows'[b] = rows[b]
    BY <1>5, <2>2 DEF CalmInv, Inv, TypeOK, Record
  <2>5. \A c \in Archives : c # b => rows'[c] = rows[c]
    BY <1>5, <2>2 DEF CalmInv, Inv, TypeOK, Record
  <2> QED BY <1>0, <2>1, <2>2, <2>3, <2>4, <2>5, NothingCompleted
<1>6. ASSUME NEW r \in Requests, Unlink(r) PROVE WritesPart' /\ WholeIsRecorded'
  <2>1. rows' = rows /\ \A q \in Requests : q # r => work'[q] = work[q]
    BY <1>6 DEF CalmInv, Inv, TypeOK, Unlink, Answered, Goto, Then, Finish
  <2>2. \A b \in Archives : archive'[b] # NoFile => archive'[b] = archive[b]
    BY <1>6 DEF CalmInv, Inv, TypeOK, Unlink
  <2>3. ~At(r, "write") /\ ~At(r, "record") /\ ~At(r, "write")'
    BY <1>6 DEF CalmInv, Inv, TypeOK, Unlink, Answered, Goto, Then, Finish
  <2> QED BY <1>0, <2>1, <2>2, <2>3, NothingCompleted
<1>7. ASSUME NEW r \in Requests, DropRow(r) PROVE WritesPart' /\ WholeIsRecorded'
  <2> DEFINE b == work[r].backup
  <2>1. archive' = archive /\ \A q \in Requests : q # r => work'[q] = work[q]
    BY <1>7 DEF CalmInv, Inv, TypeOK, DropRow, Finish
  <2>2. \A c \in Archives : rows'[c] = rows[c] \/ rows'[c] = Deleted
    BY <1>7 DEF CalmInv, Inv, TypeOK, DropRow
  <2>3. ~At(r, "write") /\ ~At(r, "record") /\ ~At(r, "write")'
    BY <1>7 DEF CalmInv, Inv, TypeOK, DropRow, Finish
  <2> QED BY <1>0, <2>1, <2>2, <2>3, NothingCompleted
<1>8. ASSUME NEW r \in Requests, Abort(r) \/ Perish(r) PROVE WritesPart' /\ WholeIsRecorded'
  <2>1. UNCHANGED <<rows, archive>> /\ \A q \in Requests : q # r => work'[q] = work[q]
    BY <1>8 DEF CalmInv, Inv, TypeOK, Abort, Perish, Finish
  <2>2. work[r] # Idle /\ work[r].server \notin Calm
    BY <1>8 DEF Abort, Perish
  <2>3. \A b \in Archives : Concerns(r, b) /\ rows[b] \in Row => rows[b].server \notin Calm
    BY <2>2 DEF CalmInv, Inv, Acquainted, TypeOK
  <2>4. At(r, "write")' => At(r, "write") /\ work'[r].backup = work[r].backup
    BY <1>8, <2>2 DEF CalmInv, Inv, TypeOK, Abort, Perish, Finish
  <2> QED BY <1>0, <2>1, <2>3, <2>4, NothingCompleted
<1>9. ASSUME NEW s \in Servers, SetLimit(s) \/ RemoveServer(s) \/ Recreate(s)
      PROVE  WritesPart' /\ WholeIsRecorded'
  <2>1. UNCHANGED <<rows, work>>
    BY <1>9 DEF SetLimit, RemoveServer, Recreate
  <2>2. \A b \in Archives : archive'[b] # NoFile => archive'[b] = archive[b]
    BY <1>9 DEF SetLimit, RemoveServer, Recreate
  <2> QED BY <1>0, <2>1, <2>2, NothingCompleted
<1>10. ASSUME NEW s \in Servers, DeleteServer(s) PROVE WritesPart' /\ WholeIsRecorded'
  <2>1. UNCHANGED <<archive, work>>
    BY <1>10 DEF DeleteServer
  <2>2. \A b \in Archives : rows'[b] = rows[b] \/ rows'[b] = Deleted
    BY <1>10 DEF DeleteServer, Kept
  <2> QED BY <1>0, <2>1, <2>2, NothingCompleted
<1>11. CASE UNCHANGED vars
  BY <1>11, <1>0, NothingCompleted DEF vars
<1> QED BY <1>1, <1>2, <1>3, <1>4, <1>5, <1>6, <1>7, <1>8, <1>9, <1>10, <1>11
        DEF Next, Request, Server

\* Where every owner is calm, a backup the daemon has completed is shown as successful:
\* what LeftCompletes says, and what only a request cut off can break.
THEOREM WaitedForCompletes ==
    ASSUME Calm = Servers
    PROVE  Spec => []LeftCompletes
<1>1. Init => WritesPart /\ WholeIsRecorded
  BY DEF Init, WritesPart, WholeIsRecorded, At
<1>2. CalmInv /\ WritesPart /\ WholeIsRecorded /\ [Next]_vars => WritesPart' /\ WholeIsRecorded'
  BY StepRecorded
<1>3. TypeOK /\ WholeIsRecorded => LeftCompletes
  BY BackupsAssumption DEF TypeOK, Row, WholeIsRecorded, LeftCompletes
<1> QED BY <1>1, <1>2, <1>3, TypeCorrect, CalmInvariance, PTL DEF Spec
=============================================================================
