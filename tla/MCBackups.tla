----------------------------- MODULE MCBackups ------------------------------
(* Small instances of Backups for TLC. *)
EXTENDS Backups, TLC

Symmetries ==
    Permutations(Requests) \cup Permutations(Archives)
        \cup Permutations(Calm) \cup Permutations(Servers \ Calm)

\* Nothing is done for this server any more.
Over(s) == life[s] = "gone" /\ \A r \in Requests : work[r] # Idle => work[r].server # s

\* A property, a request or a restore to come looks at this archive.
Matters(b) ==
    /\ archive[b] # NoFile
    /\ \/ archive[b].server \in Calm \ litter
       \/ rows[b] \in Row /\ rows[b].done
       \/ \E r \in Requests : Concerns(r, b)

\* Once the row is inserted, nothing asks for the limit and the maker again.
Seen(w) ==
    IF w = Idle \/ w.backup = Unused THEN w
    ELSE <<w.step, w.backup, w.server, w.waits \/ w.step \in {"fetch", "unpack"}>>

\* What a later step or a property can tell apart.
Visible ==
    <<life, rows,
      [s \in Servers |-> IF life[s] = "gone" THEN 0 ELSE limit[s]],
      {s \in files : ~Over(s)},
      [b \in Archives |-> IF Matters(b) THEN archive[b] ELSE NoFile],
      [r \in Requests |-> Seen(work[r])],
      {s \in litter \cap Calm : ~Over(s)},
      {b \in litter \cap Archives : Matters(b) /\ archive[b].server \in Calm}>>
=============================================================================
