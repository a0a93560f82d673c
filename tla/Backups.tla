------------------------------ MODULE Backups -------------------------------
(***************************************************************************)
(* The backups of the servers of one node: the rows of server_backups      *)
(* (server_backup_handler.go, and runScheduledBackup of scheduler.go) and  *)
(* the archives the daemon keeps (backup.go).  A row is booked first, the  *)
(* daemon then writes the archive while the panel waits, and the row is    *)
(* marked successful last; a deletion goes the other way.                  *)
(*                                                                         *)
(* Left out: names, sizes, checksums and ignored files; List and Download, *)
(* which change nothing; and what an archive contains.                     *)
(***************************************************************************)
EXTENDS Naturals, FiniteSets

CONSTANTS Servers,   \* servers on this node
          Archives,  \* the uuids of backups, each drawn once
          Requests,  \* requests and runs of a schedule, used again and again
          Makers,    \* who makes backups: a user (TRUE), a schedule (FALSE)
          MaxLimit,  \* bound on servers.backup_limit
          Calm,      \* servers whose requests are never cut off, and whose
                     \* owners delete only what nobody is working on
          Unused,    \* no backup has this uuid yet
          Deleted,   \* the row of this backup is gone
          NoFile,    \* there is no archive of this name
          Idle       \* no request is under way

VARIABLES life,      \* life[s]: "live", "removed" from the node, or "gone"
          limit,     \* limit[s]: servers.backup_limit
          files,     \* the servers whose volume exists
          rows,      \* rows[b]: the row of backup b
          archive,   \* archive[b]: the file <server>/<b>.tar.gz
          litter,    \* archives that a failed creation has left behind, and servers
                     \* a deletion has left archives of; only the properties look
          work       \* work[r]: what request r is doing

vars == <<life, limit, files, rows, archive, litter, work>>

Row == [server : Servers, done : BOOLEAN]
File == [server : Servers, whole : BOOLEAN]

Steps == {"lock", "count", "reserve", "call", "write", "record",
          "fetch", "unpack", "unlink", "drop"}

\* A request: who makes it (a user, or else a schedule), the limit it has read,
\* the backup it is about, and whether the panel still waits for the daemon.
Work == [step : Steps, server : Servers, user : BOOLEAN,
         limit : 0 .. MaxLimit, backup : Archives \cup {Unused}, waits : BOOLEAN]

ASSUME BackupsAssumption ==
    /\ IsFiniteSet(Archives)
    /\ Makers \subseteq BOOLEAN
    /\ MaxLimit \in Nat
    /\ Calm \subseteq Servers
    /\ Unused \notin Row \cup Archives \cup {Deleted}
    /\ Deleted \notin Row
    /\ NoFile \notin File
    /\ Idle \notin Work

Kept(s) == {b \in Archives : rows[b] \in Row /\ rows[b].server = s}

At(r, st) == work[r] # Idle /\ work[r].step = st

Concerns(r, b) == work[r] # Idle /\ work[r].backup = b

\* What request r carries on with.
Then(r, st, b) ==
    work' = [work EXCEPT ![r] =
                [step |-> st, server |-> work[r].server, user |-> work[r].user,
                 limit |-> work[r].limit, backup |-> b, waits |-> work[r].waits]]

Goto(r, st) == Then(r, st, work[r].backup)

Finish(r) == work' = [work EXCEPT ![r] = Idle]

\* The panel goes on only if it still waits for the daemon's answer.
Answered(r, st) == IF work[r].waits THEN Goto(r, st) ELSE Finish(r)

\* SELECT ... FOR UPDATE, or a foreign key's FOR KEY SHARE, on the row of s waits
\* for the user's Create that holds it.
Locked(s) ==
    \E r \in Requests : (At(r, "count") \/ At(r, "reserve")) /\ work[r].user /\ work[r].server = s

\* resolveServer finds the server.
Begin(r, st, s, user, b) ==
    /\ work[r] = Idle
    /\ life[s] # "gone"
    /\ work' = [work EXCEPT ![r] = [step |-> st, server |-> s, user |-> user,
                                    limit |-> limit[s], backup |-> b, waits |-> TRUE]]

-----------------------------------------------------------------------------
(* Create, and runScheduledBackup, which locks nothing *)

CreateBegin(r) ==
    /\ \E s \in Servers, user \in Makers :
          Begin(r, IF user THEN "lock" ELSE "count", s, user, Unused)
    /\ UNCHANGED <<life, limit, files, rows, archive, litter>>

LockServerWithoutWaiting(r) ==
    /\ At(r, "lock")
    /\ Goto(r, "count")
    /\ UNCHANGED <<life, limit, files, rows, archive, litter>>

LockServer(r) ==
    /\ At(r, "lock")
    /\ ~Locked(work[r].server)
    /\ Goto(r, "count")
    /\ UNCHANGED <<life, limit, files, rows, archive, litter>>

\* The limit is the one read with the server, before the lock.
Count(r) ==
    /\ At(r, "count")
    /\ IF Cardinality(Kept(work[r].server)) >= work[r].limit
       THEN Finish(r) ELSE Goto(r, "reserve")
    /\ UNCHANGED <<life, limit, files, rows, archive, litter>>

ReserveNoId(r) ==
    LET s == work[r].server IN
    /\ At(r, "reserve")
    /\ work[r].user \/ ~Locked(s)
    /\ life[s] # "gone"
    /\ \E b \in Archives :
          /\ rows[b] = Unused
          /\ rows' = [rows EXCEPT ![b] = [server |-> s, done |-> FALSE]]
    /\ Goto(r, "call")
    /\ UNCHANGED <<life, limit, files, archive, litter>>

\* INSERT and COMMIT.  The foreign key waits for the server's row, and refuses one
\* that is gone.
Reserve(r) ==
    LET s == work[r].server IN
    /\ At(r, "reserve")
    /\ work[r].user \/ ~Locked(s)
    /\ \/ /\ life[s] = "gone"
          /\ Finish(r)
          /\ UNCHANGED rows
       \/ /\ life[s] # "gone"
          /\ \E b \in Archives :
                /\ rows[b] = Unused
                /\ rows' = [rows EXCEPT ![b] = [server |-> s, done |-> FALSE]]
                /\ Then(r, "call", b)
    /\ UNCHANGED <<life, limit, files, archive, litter>>

\* The daemon creates the file under its final name.  Without a volume there is
\* nothing to walk, and the file is removed again; it may not be reached, or fail to
\* create the file, at any rate.
WriteBegin(r) ==
    LET s == work[r].server IN
    /\ At(r, "call")
    /\ \/ /\ s \in files
          /\ archive' = [archive EXCEPT ![work[r].backup] = [server |-> s, whole |-> FALSE]]
          /\ Goto(r, "write")
       \/ Finish(r) /\ UNCHANGED archive
    /\ UNCHANGED <<life, limit, files, rows, litter>>

\* What becomes of a file that has been written: one unlinked meanwhile is lost.
Closed(f) == IF f = NoFile THEN f ELSE [server |-> f.server, whole |-> TRUE]

WriteEndUnchecked(r) ==
    /\ At(r, "write")
    /\ \/ archive' = [archive EXCEPT ![work[r].backup] = Closed(archive[work[r].backup])]
       \/ archive' = [archive EXCEPT ![work[r].backup] = NoFile]
    /\ Answered(r, "record")
    /\ UNCHANGED <<life, limit, files, rows, litter>>

WriteEndKeepsPart(r) ==
    /\ At(r, "write")
    /\ \/ /\ archive' = [archive EXCEPT ![work[r].backup] = Closed(archive[work[r].backup])]
          /\ Answered(r, "record")
       \/ UNCHANGED archive /\ Finish(r)
    /\ UNCHANGED <<life, limit, files, rows, litter>>

\* Any file that vanishes during the walk fails the backup, and its archive is removed;
\* an error of that removal is ignored, and one of the last Stat or Close does not
\* even try.  A whole archive is one that Create has returned without an error.
WriteEnd(r) ==
    LET b == work[r].backup IN
    /\ At(r, "write")
    /\ \/ /\ archive' = [archive EXCEPT ![b] = Closed(archive[b])]
          /\ Answered(r, "record")
          /\ UNCHANGED litter
       \/ /\ archive' = [archive EXCEPT ![b] = NoFile]
          /\ Finish(r)
          /\ UNCHANGED litter
       \/ /\ Finish(r)
          /\ litter' = litter \cup {b}
          /\ UNCHANGED archive
    /\ UNCHANGED <<life, limit, files, rows>>

\* UPDATE ... WHERE id: no row, no effect.
Record(r) ==
    LET b == work[r].backup IN
    /\ At(r, "record")
    /\ rows' = [rows EXCEPT ![b] =
                   IF rows[b] \in Row THEN [server |-> rows[b].server, done |-> TRUE]
                   ELSE rows[b]]
    /\ Finish(r)
    /\ UNCHANGED <<life, limit, files, archive, litter>>

-----------------------------------------------------------------------------
(* Restore *)

RestoreBeginUnchecked(r) ==
    /\ \E b \in Archives :
          /\ rows[b] \in Row
          /\ Begin(r, "fetch", rows[b].server, TRUE, b)
    /\ UNCHANGED <<life, limit, files, rows, archive, litter>>

\* Only a successful backup is restored.
RestoreBegin(r) ==
    /\ \E b \in Archives :
          /\ rows[b] \in Row /\ rows[b].done
          /\ Begin(r, "fetch", rows[b].server, TRUE, b)
    /\ UNCHANGED <<life, limit, files, rows, archive, litter>>

\* The daemon opens the archive, if it can, and then reads it to the end, unlinked or
\* not.
Fetch(r) ==
    /\ At(r, "fetch")
    /\ \/ archive[work[r].backup] # NoFile /\ Goto(r, "unpack")
       \/ Finish(r)
    /\ UNCHANGED <<life, limit, files, rows, archive, litter>>

\* The directories of the volume are made as needed, unless that fails.
Unpack(r) ==
    /\ At(r, "unpack")
    /\ files' \in {files \cup {work[r].server}, files}
    /\ Finish(r)
    /\ UNCHANGED <<life, limit, rows, archive, litter>>

-----------------------------------------------------------------------------
(* Delete *)

DeleteBegin(r) ==
    /\ \E b \in Archives :
          /\ rows[b] \in Row
          /\ rows[b].server \in Calm => \A q \in Requests : ~Concerns(q, b)
          /\ Begin(r, "unlink", rows[b].server, TRUE, b)
    /\ UNCHANGED <<life, limit, files, rows, archive, litter>>

UnlinkOrNot(r) ==
    /\ At(r, "unlink")
    /\ \/ archive' = [archive EXCEPT ![work[r].backup] = NoFile]
       \/ UNCHANGED archive
    /\ Answered(r, "drop")
    /\ UNCHANGED <<life, limit, files, rows, litter>>

\* A missing archive is no error; any other error leaves archive and row.
Unlink(r) ==
    /\ At(r, "unlink")
    /\ \/ /\ archive' = [archive EXCEPT ![work[r].backup] = NoFile]
          /\ Answered(r, "drop")
       \/ UNCHANGED archive /\ Finish(r)
    /\ UNCHANGED <<life, limit, files, rows, litter>>

DropRow(r) ==
    /\ At(r, "drop")
    /\ rows' = [rows EXCEPT ![work[r].backup] = Deleted]
    /\ Finish(r)
    /\ UNCHANGED <<life, limit, files, archive, litter>>

-----------------------------------------------------------------------------
(* What cuts requests off *)

\* The user leaves, the client's 120 s are over, the panel dies, or it cannot reach
\* its database.  A call the daemon has got is carried out all the same.
Abort(r) ==
    /\ work[r] # Idle /\ work[r].server \notin Calm
    /\ \/ work[r].step \notin {"write", "unpack"} /\ Finish(r)
       \/ /\ work[r].step \in {"call", "write", "fetch", "unpack", "unlink"}
          /\ work' = [work EXCEPT ![r] =
                         [step |-> work[r].step, server |-> work[r].server,
                          user |-> work[r].user, limit |-> work[r].limit,
                          backup |-> work[r].backup, waits |-> FALSE]]
    /\ UNCHANGED <<life, limit, files, rows, archive, litter>>

\* The daemon dies while it works on the request: what it has written stays.
Perish(r) ==
    /\ At(r, "write") \/ At(r, "unpack")
    /\ work[r].server \notin Calm
    /\ Finish(r)
    /\ UNCHANGED <<life, limit, files, rows, archive, litter>>

-----------------------------------------------------------------------------
(* The server itself: ServerHandler.Update, Delete and Power *)

\* The row is locked FOR UPDATE.
SetLimit(s) ==
    /\ life[s] # "gone" /\ ~Locked(s)
    /\ \E n \in 0 .. MaxLimit : limit' = [limit EXCEPT ![s] = n]
    /\ UNCHANGED <<life, files, rows, archive, litter, work>>

\* Handlers.Delete: container, volume, and the directory of the server's archives, of
\* which an error of RemoveAll, which is ignored, leaves some.  It takes no lock; it
\* may be asked again when the panel could not go on.
RemoveServer(s) ==
    /\ life[s] # "gone"
    /\ s \in Calm => \A r \in Requests : ~(At(r, "unpack") /\ work[r].server = s)
    /\ life' = [life EXCEPT ![s] = "removed"]
    /\ files' = files \ {s}
    /\ \E left \in SUBSET {b \in Archives : archive[b] # NoFile /\ archive[b].server = s} :
          /\ archive' = [b \in Archives |->
                            IF archive[b] # NoFile /\ archive[b].server = s /\ b \notin left
                            THEN NoFile ELSE archive[b]]
          /\ litter' = IF left = {} THEN litter ELSE litter \cup {s}
    /\ UNCHANGED <<limit, rows, work>>

\* DELETE FROM servers, which takes the backups' rows with it.  An admin may force it
\* although the daemon could not be asked or failed, and has removed nothing.
DeleteServer(s) ==
    /\ life[s] # "gone" /\ ~Locked(s)
    /\ life' = [life EXCEPT ![s] = "gone"]
    /\ rows' = [b \in Archives |-> IF b \in Kept(s) THEN Deleted ELSE rows[b]]
    /\ litter' = IF life[s] = "live" THEN litter \cup {s} ELSE litter
    /\ UNCHANGED <<limit, files, archive, work>>

\* recreateMissingContainer, when the panel could not delete the row.
Recreate(s) ==
    /\ life[s] = "removed" /\ s \notin Calm
    /\ files' = files \cup {s}
    /\ UNCHANGED <<life, limit, rows, archive, litter, work>>

-----------------------------------------------------------------------------

Init ==
    /\ life = [s \in Servers |-> "live"]
    /\ limit = [s \in Servers |-> MaxLimit]
    /\ files = Servers
    /\ rows = [b \in Archives |-> Unused]
    /\ archive = [b \in Archives |-> NoFile]
    /\ litter = {}
    /\ work = [r \in Requests |-> Idle]

Request(r) ==
    \/ CreateBegin(r) \/ LockServer(r) \/ Count(r) \/ Reserve(r)
    \/ WriteBegin(r) \/ WriteEnd(r) \/ Record(r)
    \/ RestoreBegin(r) \/ Fetch(r) \/ Unpack(r)
    \/ DeleteBegin(r) \/ Unlink(r) \/ DropRow(r)
    \/ Abort(r) \/ Perish(r)

Server(s) == SetLimit(s) \/ RemoveServer(s) \/ DeleteServer(s) \/ Recreate(s)

Next == (\E r \in Requests : Request(r)) \/ (\E s \in Servers : Server(s))

Spec == Init /\ [][Next]_vars

-----------------------------------------------------------------------------
(* Properties *)

\* Every variable stays in its domain.
TypeOK ==
    /\ life \in [Servers -> {"live", "removed", "gone"}]
    /\ limit \in [Servers -> 0 .. MaxLimit]
    /\ files \subseteq Servers
    /\ rows \in [Archives -> Row \cup {Unused, Deleted}]
    /\ archive \in [Archives -> File \cup {NoFile}]
    /\ litter \subseteq Archives \cup Servers
    /\ work \in [Requests -> Work \cup {Idle}]
    /\ \A r \in Requests :
          work[r] # Idle =>
              (work[r].backup = Unused <=> work[r].step \in {"lock", "count", "reserve"})

\* The slot a user's Create has counted under the lock of the server's row
\* (server_backup_handler.go:137-150) is still free when it inserts the row, although
\* a schedule's backup counts and inserts without that lock.
SlotStillFree ==
    \A r \in Requests :
        At(r, "reserve") /\ work[r].user =>
            Cardinality(Kept(work[r].server)) < work[r].limit

\* The daemon writes an archive under its final name, and nothing in a file tells a
\* half-written one from a whole one: only is_successful keeps Restore from
\* unpacking it.  However creation, deletion and restoring overlap, are cut off or
\* die, an archive being restored is whole.
RestoresWhole ==
    \A r \in Requests :
        At(r, "fetch") \/ At(r, "unpack") =>
            LET f == archive[work[r].backup] IN f # NoFile => f.whole

\* An archive nobody can see fills the disk for good.  If owners let a creation end
\* before they delete it, every archive has its row, unless its server's deletion was
\* forced or ignored an error.
NothingStrands ==
    \A b \in Archives :
        archive[b] # NoFile /\ archive[b].server \in Calm \ litter => rows[b] \in Row

\* A backup that is shown as successful can be restored, until it or its server is
\* being deleted.
SuccessIsStored ==
    \A b \in Archives :
        rows[b] \in Row /\ rows[b].done /\ rows[b].server \in Calm =>
            \/ archive[b] # NoFile
            \/ life[rows[b].server] = "removed"
            \/ \E r \in Requests : Concerns(r, b) /\ At(r, "drop")

\* An archive that nobody makes any more, whole or not, belongs to a successful
\* backup, whatever fails, overlaps or is deleted meanwhile.  One that looks unfinished
\* for ever is left only by a request that is cut off (LeftCompletes), by a server's
\* deletion that is forced or ignores an error, and by a creation that fails to close
\* or to remove it.
NothingUnfinished ==
    \A b \in Archives :
        archive[b] # NoFile /\ archive[b].server \in Calm \ litter /\ b \notin litter =>
            \/ rows[b] \in Row /\ rows[b].done
            \/ \E r \in Requests : Concerns(r, b) /\ (At(r, "write") \/ At(r, "record"))

\* "Creating one is synchronous: ... leave it and it'll complete"
\* (src/frontend/src/i18n/locales/en.ts:391): an archive the daemon has completed
\* belongs to a backup that is shown as successful, once nobody works on it.
LeftCompletes ==
    \A b \in Archives :
        /\ rows[b] \in Row
        /\ archive[b] # NoFile /\ archive[b].whole
        /\ \A r \in Requests : ~Concerns(r, b)
        => rows[b].done
=============================================================================
