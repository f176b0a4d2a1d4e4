----------------------------- MODULE AuditChain -----------------------------
(***************************************************************************)
(* The audit file: records appended one by one, each with the hash of the  *)
(* one before; a broker verifies the chain before it appends to it, and an *)
(* operator verifies it against a checkpoint that is moved forward.        *)
(*                                                                         *)
(* What is written is not yet on disk, and the name of a new file is not   *)
(* either: a power loss keeps some prefix of what was not synced.  A hash  *)
(* is the record's number: equal hashes mean equal records.                *)
(***************************************************************************)
EXTENDS Naturals, Sequences

CONSTANTS
  Brokers,       \* broker processes that may be started
  Auditors,      \* audit-verify commands that run at the same time
  MaxRecords,    \* bound: records written
  MaxFaults,     \* bound: failed writes and syncs
  MaxPowerLosses \* bound: power losses

ASSUME AuditAssumption == {MaxRecords, MaxFaults, MaxPowerLosses} \subseteq Nat

VARIABLES
  exists, named, \* the file exists; its directory entry is on disk
  file, safe,    \* its lines, and those of them that are on disk
  sink,          \* the FileSink of each broker
  auditor,       \* each audit-verify command
  checkpoint,    \* the checkpoint file, and its contents on disk
  acked,         \* history: records whose Write returned no error
  nextRecord, faults, losses

disk     == <<exists, named, file, safe>>
counters == <<nextRecord, faults, losses>>
vars     == <<disk, sink, auditor, checkpoint, acked, counters>>

------------------------------------------------------------------------------
(* Lines *)

RecordIds == 1..MaxRecords
Hashes    == 0..MaxRecords
NoHash    == 0

\* A whole line, one without its newline, a record cut short, and what results
\* from appending to one of the last two.
Forms   == {"line", "open", "torn", "junk"}
Line    == [id: Hashes, prev: Hashes, form: Forms]
Records == {"line", "open"}

\* O_APPEND knows no lines: an unfinished last line swallows the next record.
Unfinished(f) == f # <<>> /\ f[Len(f)].form \in {"open", "torn"}
AppendLine(f, l) ==
  IF Unfinished(f)
  THEN [f EXCEPT ![Len(f)] = [id |-> NoHash, prev |-> NoHash,
                              form |-> IF l.form = "line" THEN "junk" ELSE "torn"]]
  ELSE Append(f, l)

\* What is left of a line that was only partly written.
Cuts(l) == {[l EXCEPT !.form = "open"],
            [id |-> NoHash, prev |-> NoHash, form |-> "torn"]}

HashBefore(f, i) == IF i = 1 THEN NoHash ELSE f[i - 1].id
LastHash(f) == HashBefore(f, Len(f) + 1)
Holds(f, hash) == \E i \in 1..Len(f) : f[i].id = hash /\ f[i].form \in Records

\* verifyFile: every line is a record that names the hash before it, and the
\* checkpoint, if there is one, is among them.
Verifies(f) == \A i \in 1..Len(f) :
  f[i].form \in Records /\ f[i].prev = HashBefore(f, i)
VerifiesAnchored_Unanchored(f, hash) == Verifies(f)
VerifiesAnchored(f, hash) == Verifies(f) /\ (hash # NoHash => Holds(f, hash))

------------------------------------------------------------------------------
(* The sink *)

\* clean: history, whether nothing went wrong that this sink cannot repair: it
\* started on complete lines in a file whose name is on disk or that it creates,
\* and no write of its own has failed.
Sink == [pos: {"down", "ready", "sync", "syncDir"}, last: Hashes, need: BOOLEAN,
         rec: Hashes, clean: BOOLEAN]

Down == [pos |-> "down", last |-> NoHash, need |-> FALSE, rec |-> NoHash,
         clean |-> FALSE]

At(b, pos) == sink[b].pos = pos

Fail == faults < MaxFaults /\ faults' = faults + 1 /\ UNCHANGED <<nextRecord, losses>>

LockFree_NoFlock(b) == At(b, "down")
\* The lock beside the file is taken without waiting, and freed by the end of
\* the process.
LockFree(b) == \A c \in Brokers : At(c, "down")

\* NewFileSink.  It syncs the directory later only if it creates the file.
Start(b) ==
  /\ LockFree(b) /\ Verifies(file)
  /\ exists' = TRUE
  /\ sink' = [sink EXCEPT ![b] =
       [pos |-> "ready", last |-> LastHash(file), need |-> ~exists, rec |-> NoHash,
        clean |-> (exists => named) /\ ~Unfinished(file)]]
  /\ UNCHANGED <<named, file, safe, auditor, checkpoint, acked, counters>>

\* Write, up to Encode: the record is in the file, or a part of it with an error.
Encode(b) ==
  LET record == [id |-> nextRecord, prev |-> sink[b].last, form |-> "line"] IN
  /\ At(b, "ready") /\ nextRecord <= MaxRecords
  /\ nextRecord' = nextRecord + 1
  /\ \/ /\ file' = AppendLine(file, record)
        /\ sink' = [sink EXCEPT ![b].pos = "sync", ![b].rec = nextRecord]
        /\ UNCHANGED faults
     \/ /\ faults < MaxFaults /\ faults' = faults + 1
        /\ file' \in {file} \cup {AppendLine(file, l) : l \in Cuts(record)}
        /\ sink' = [sink EXCEPT ![b].clean = @ /\ file' = file]
  /\ UNCHANGED <<exists, named, safe, auditor, checkpoint, acked, losses>>

Accepted_Past(b) ==
  /\ sink' = [sink EXCEPT ![b].pos = "ready", ![b].last = nextRecord,
                              ![b].need = FALSE]
  /\ acked' = acked \cup {[id |-> sink[b].rec, clean |-> sink[b].clean]}
\* The record counts as written and the next one follows it.
Accepted(b) ==
  /\ sink' = [sink EXCEPT ![b].pos = "ready", ![b].last = sink[b].rec,
                              ![b].need = FALSE]
  /\ acked' = acked \cup {[id |-> sink[b].rec, clean |-> sink[b].clean]}

\* An error after the record is in the file: lastHash stays behind it.
Abandoned(b) ==
  /\ sink' = [sink EXCEPT ![b].pos = "ready", ![b].clean = FALSE]
  /\ UNCHANGED acked

Sync_Skipped(b) ==
  /\ At(b, "sync")
  /\ IF sink[b].need
     THEN sink' = [sink EXCEPT ![b].pos = "syncDir"] /\ UNCHANGED acked
     ELSE Accepted(b)
  /\ UNCHANGED <<disk, auditor, checkpoint, counters>>
Sync(b) ==
  /\ At(b, "sync")
  /\ \/ /\ safe' = file
        /\ IF sink[b].need
           THEN sink' = [sink EXCEPT ![b].pos = "syncDir"] /\ UNCHANGED acked
           ELSE Accepted(b)
        /\ UNCHANGED counters
     \/ Abandoned(b) /\ Fail /\ UNCHANGED safe
  /\ UNCHANGED <<exists, named, file, auditor, checkpoint>>

SyncDir(b) ==
  /\ At(b, "syncDir")
  /\ \/ named' = TRUE /\ Accepted(b) /\ UNCHANGED counters
     \/ Abandoned(b) /\ Fail /\ UNCHANGED named
  /\ UNCHANGED <<exists, file, safe, auditor, checkpoint>>

\* The process ends, by Close or otherwise, at any point of a Write.
Stop(b) ==
  /\ ~At(b, "down")
  /\ sink' = [sink EXCEPT ![b] = Down]
  /\ UNCHANGED <<disk, auditor, checkpoint, acked, counters>>

------------------------------------------------------------------------------
(* audit-verify --checkpoint --write-checkpoint *)

Auditor == [pos: {"idle", "anchored", "verified"}, prev: Hashes, last: Hashes]
Idle    == [pos |-> "idle", prev |-> NoHash, last |-> NoHash]

ReadCheckpoint(a) ==
  /\ auditor[a].pos = "idle"
  /\ auditor' = [auditor EXCEPT ![a].pos = "anchored", ![a].prev = checkpoint.now]
  /\ UNCHANGED <<disk, sink, checkpoint, acked, counters>>

\* The file is read while a broker may be writing it.
Verify(a) ==
  /\ auditor[a].pos = "anchored"
  /\ auditor' = [auditor EXCEPT ![a] =
       IF exists /\ VerifiesAnchored(file, @.prev)
       THEN [@ EXCEPT !.pos = "verified", !.last = LastHash(file)] ELSE Idle]
  /\ UNCHANGED <<disk, sink, checkpoint, acked, counters>>

\* WriteCheckpoint fails before the rename, or after it without the directory
\* synced, or not at all.
WriteCheckpoint(a) ==
  /\ auditor[a].pos = "verified"
  /\ auditor' = [auditor EXCEPT ![a] = Idle]
  /\ \/ checkpoint' = [now |-> auditor[a].last, safe |-> auditor[a].last]
        /\ UNCHANGED faults
     \/ /\ faults < MaxFaults /\ faults' = faults + 1
        /\ checkpoint' \in {checkpoint, [checkpoint EXCEPT !.now = auditor[a].last]}
  /\ UNCHANGED <<disk, sink, acked, nextRecord, losses>>

------------------------------------------------------------------------------
(* Power loss *)

\* What may be left of the file: what is on disk, and any part of the rest.
Survivors ==
  {safe} \cup {SubSeq(file, 1, n) : n \in Len(safe)..Len(file)}
  \cup UNION {{AppendLine(SubSeq(file, 1, n), l) : l \in Cuts(file[n + 1])} :
              n \in Len(safe)..(Len(file) - 1)}

PowerLoss ==
  /\ losses < MaxPowerLosses /\ losses' = losses + 1
  /\ \/ exists' = exists /\ file' \in Survivors
     \/ ~named /\ exists' = FALSE /\ file' = <<>>
  /\ named' = exists' /\ safe' = file'
  /\ sink' = [b \in Brokers |-> Down]
  /\ auditor' = [a \in Auditors |-> Idle]
  /\ \E kept \in {checkpoint.now, checkpoint.safe} :
       checkpoint' = [now |-> kept, safe |-> kept]
  /\ UNCHANGED <<acked, nextRecord, faults>>

------------------------------------------------------------------------------
Init ==
  /\ exists = FALSE /\ named = FALSE /\ file = <<>> /\ safe = <<>>
  /\ sink = [b \in Brokers |-> Down]
  /\ auditor = [a \in Auditors |-> Idle]
  /\ checkpoint = [now |-> NoHash, safe |-> NoHash]
  /\ acked = {}
  /\ nextRecord = 1 /\ faults = 0 /\ losses = 0

Next ==
  \/ \E b \in Brokers : Start(b) \/ Encode(b) \/ Sync(b) \/ SyncDir(b) \/ Stop(b)
  \/ \E a \in Auditors : ReadCheckpoint(a) \/ Verify(a) \/ WriteCheckpoint(a)
  \/ PowerLoss

Spec == Init /\ [][Next]_vars

------------------------------------------------------------------------------
(* Properties *)

\* Type invariant.
TypeOK ==
  /\ exists \in BOOLEAN /\ named \in BOOLEAN
  /\ file \in Seq(Line) /\ safe \in Seq(Line)
  /\ sink \in [Brokers -> Sink]
  /\ auditor \in [Auditors -> Auditor]
  /\ checkpoint \in [now: Hashes, safe: Hashes]
  /\ acked \subseteq [id: RecordIds, clean: BOOLEAN]
  /\ nextRecord \in 1..(MaxRecords + 1)
  /\ faults \in 0..MaxFaults /\ losses \in 0..MaxPowerLosses

\* A sink of which no write failed and the file agree, at every point of a Write
\* and whatever other brokers try: the file verifies, and the hash the sink
\* appends to (or has just appended) is the file's last.
CleanChain == TypeOK /\ \A b \in Brokers : ~At(b, "down") /\ sink[b].clean =>
  /\ Verifies(file) /\ ~Unfinished(file)
  /\ LastHash(file) = IF At(b, "ready") THEN sink[b].last ELSE sink[b].rec

\* A record that Write accepted stays in the part of the file that verifies,
\* through failed writes after it, restarts and power losses.
AckedRecordsKept == \A r \in acked : r.clean =>
  \E n \in 1..Len(file) : file[n].id = r.id /\ Verifies(SubSeq(file, 1, n))

\* The checkpoint moves only to a chain that holds the old one: no sequence of
\* restarts, failed writes and power losses makes audit-verify certify a file
\* from which a certified record is gone.  (One command at a time: one that is
\* overtaken by another may write an older checkpoint, or an empty one.)
CheckpointContinuity ==
  [][checkpoint'.now # checkpoint.now =>
       \/ checkpoint.now = NoHash \/ Holds(file, checkpoint.now)
       \/ losses' > losses]_vars

\* RUNBOOK.md:117: once the storage works again, restarting the broker reopens
\* it.  (No power loss here: only the broker's own writes.)
RestartReopens ==
  (\A b \in Brokers : At(b, "down")) /\ losses = 0 => Verifies(file)
==============================================================================
